--------------------------- MODULE HandlerPoolProofs ---------------------------
(***************************************************************************)
(* Theorems about HandlerPool, for any number of requests, slots, forks    *)
(* and crashes, any quota, and both platform behaviours.                   *)
(*                                                                         *)
(* None of the properties is inductive.  They hold because one dispatch at *)
(* a time is being handed to a child (HandingIsExact), because a request   *)
(* is fresh until a child has it (QueuedIsFresh, OneHandlerEach), and      *)
(* because a completion is only on its way when the request it names is    *)
(* over (StatusIsOver), which keeps the table true (IdleIsIdle,            *)
(* SlotsOwnTheirChildren).  The protocol with the worker (ProtocolInv) is  *)
(* proved once, in WorkerDispatchProofs, for both brokers.                 *)
(***************************************************************************)
EXTENDS HandlerPool, WorkerDispatchProofs

\* What poll reported is still there to be read.
ReadyIsReadable ==
    pc \in {"status", "cancel", "dispatch"} =>
        /\ pc \in ready
        /\ "status" \in ready => statusQ # << >>
        /\ "cancel" \in ready => cancelQ # << >>
        /\ "dispatch" \in ready => dispatchQ # << >>

\* The life cycle of a child, and the streams it holds.
ChildIsSound(p) ==
    /\ p >= nextPid <=> pstate[p] = "unborn"
    /\ pstate[p] = "unborn" => served[p] = 0
    /\ pstate[p] = "recv" => Quota = 0 \/ served[p] < Quota
    /\ inbox[p] # NoReq => pstate[p] = "recv"
    /\ pstate[p] \in {"ack", "run", "report"} => preq[p] # NoReq
    /\ pstate[p] \in {"run", "report"} => runs[preq[p]] > 0
    /\ childFds[p] = IF pstate[p] \in {"ack", "run"} THEN {preq[p]} ELSE {}
ChildrenAreSound == \A p \in Pid : ChildIsSound(p)

\* A child that is not reaped is in the table.
EveryChildHasASlot ==
    \A p \in Pid : pstate[p] \notin {"unborn", "reaped"} => \E s \in Slot : slots[s].pid = p

\* Nothing is known of an id before it is handed out.
UsedIsHandedOut ==
    \A r \in Req : req[r] = "new" =>
        /\ runs[r] = 0 /\ frames[r] = "none" /\ r \notin brokerFds
        /\ \A p \in Pid : inbox[p] # r /\ preq[p] # r

\* Only a handler writes to a stream, and none starts twice for a request.
FramesAreTheRunners ==
    \A r \in Req : /\ frames[r] \in {"none", "start", "chunk", "end"}
                   /\ runs[r] = 0 => frames[r] = "none"
StartedAtMostOnce == \A r \in Req : runs[r] <= 1

\* The dispatch that waits for its acknowledgement, and its child: the id is
\* on its way to the child, or being acknowledged, or acknowledged.
Handed(p) == handing # NoHanding /\ slots[handing.slot].pid = p
HandedSlot ==
    /\ handing # NoHanding <=> pc \in {"ackwait", "ackfail"}
    /\ handing # NoHanding =>
          /\ slots[handing.slot].pid # NoPid /\ slots[handing.slot].busy = NoReq
          /\ handing.id \notin Range(dispatchQ) \cup Range(pending)
          /\ req[handing.id] # "new"
    /\ pc = "ackfail" => stopping
HandedChild(p) ==
    /\ inbox[p] # NoReq =>
          /\ Handed(p) /\ inbox[p] = handing.id /\ ackbox[p] = NoReq
          /\ runs[handing.id] = 0 /\ \A q \in Pid : preq[q] # handing.id
    /\ pstate[p] = "ack" =>
          Handed(p) /\ preq[p] = handing.id /\ ackbox[p] = NoReq /\ runs[preq[p]] = 0
    /\ ackbox[p] # NoReq => Handed(p) /\ preq[p] = ackbox[p] /\ preq[p] = handing.id
HandingIsExact == HandedSlot /\ \A p \in Pid : HandedChild(p)

\* An id is in one datagram, or at one place of the queue, and no child has
\* or had it.
QueuedOnce ==
    /\ Queue(dispatchQ, Req)
    /\ Queue(pending, Req)
    /\ Range(dispatchQ) \cap Range(pending) = {}
QueuedIsFresh ==
    \A r \in Range(dispatchQ) \cup Range(pending) :
        req[r] # "new" /\ runs[r] = 0 /\ \A p \in Pid : preq[p] # r

\* The broker's descriptors are those of the requests it has yet to hand over.
FdsAreWaiting ==
    /\ Range(pending) \subseteq brokerFds
    /\ \A r \in brokerFds : r \in Range(pending) \/ (handing # NoHanding /\ r = handing.id)

\* Every id that left the dispatch socket is covered by greatest_dispatch.
KnownIsGreatest ==
    pc # "exit" => \A r \in Req : req[r] # "new" /\ r \notin Range(dispatchQ) => r <= greatestDispatch

\* A request has one child.
OneHandlerEach == \A p, q \in Pid : preq[p] = preq[q] /\ preq[p] # NoReq => p = q

\* A completion datagram.
StatusRecord == [id : Req, retiring : BOOLEAN]

\* A completion on its way is of a request that is over, and says whether its
\* child is leaving.
StatusIsOver ==
    \A st \in Range(statusQ) :
        /\ runs[st.id] > 0
        /\ \A p \in Pid : preq[p] = st.id =>
              /\ pstate[p] \notin {"ack", "run", "report"}
              /\ pstate[p] = "quit" => st.retiring

\* A child that the table calls idle is.
IdleIsIdle ==
    \A s \in Slot : (slots[s].pid # NoPid /\ slots[s].busy = NoReq /\ ~Handed(slots[s].pid)) =>
        /\ pstate[slots[s].pid] \in {"recv", "quit", "zombie"}
        /\ pstate[slots[s].pid] = "quit" => slots[s].retiring

\* What holds while the broker lives.
Supervised ==
    /\ HandingIsExact
    /\ QueuedOnce /\ QueuedIsFresh /\ FdsAreWaiting /\ KnownIsGreatest
    /\ OneHandlerEach /\ StatusIsOver /\ IdleIsIdle /\ SlotsOwnTheirChildren

PoolInv ==
    /\ PoolTypeOK
    /\ ChildrenAreSound /\ EveryChildHasASlot
    /\ UsedIsHandedOut /\ FramesAreTheRunners /\ StartedAtMostOnce
    /\ CancelFollowsDispatch
    /\ BrokerUp => Supervised

IInv == WorkerInv /\ ProtocolInv /\ ReadyIsReadable /\ PoolInv

-----------------------------------------------------------------------------
\* The pool starts with an idle child in every slot.
LEMMA InitInv == Init => IInv
<1> SUFFICES ASSUME Init PROVE IInv
  OBVIOUS
<1> USE PoolAssumption, WorkerAssumption
<1>1. WorkerInv /\ ProtocolInv
  BY WorkerInitInv, WorkerInitProtocol DEF Init
<1>2. PoolTypeOK
  <2>1. pending \in Seq(Req) /\ statusQ \in Seq([id : Req, retiring : BOOLEAN])
    BY EmptySeq DEF Init
  <2>2. nextPid \in 1 .. MaxPids + 1 /\ crashes \in 0 .. MaxCrashes
    BY DEF Init
  <2>3. slots \in [Slot -> SlotRecord]
    BY DEF Init, SlotRecord, FreshSlot, Slot, Pid
  <2>4. /\ pstate \in [Pid -> {"unborn", "zombie", "reaped"} \cup Live]
        /\ preq \in [Pid -> Req \cup {NoReq}]
        /\ served \in [Pid -> Nat]
        /\ inbox \in [Pid -> Req \cup {NoReq}]
        /\ ackbox \in [Pid -> Req \cup {NoReq}]
        /\ childFds \in [Pid -> SUBSET Req]
        /\ runs \in [Req -> Nat]
    BY DEF Init, Live
  <2> QED
    BY <2>1, <2>2, <2>3, <2>4, Zenon DEF Init, PoolTypeOK
<1>3. /\ QueuedOnce /\ Range(dispatchQ) = {} /\ Range(pending) = {} /\ Range(statusQ) = {}
  BY EmptyQueue DEF Init, WorkerInit, QueuedOnce
<1>4. ChildrenAreSound
  BY DEF Init, ChildrenAreSound, ChildIsSound, Pid, NoReq
<1>5. EveryChildHasASlot
  <2>1. ASSUME NEW p \in Pid, pstate[p] \notin {"unborn", "reaped"} PROVE p \in Slot
    BY <2>1 DEF Init, Pid, Slot
  <2> QED
    BY <2>1 DEF EveryChildHasASlot, Init, FreshSlot, Slot, Pid
<1>6. UsedIsHandedOut /\ FramesAreTheRunners /\ StartedAtMostOnce /\ CancelFollowsDispatch
  BY DEF Init, WorkerInit, UsedIsHandedOut, FramesAreTheRunners, StartedAtMostOnce,
         CancelFollowsDispatch, Req, NoReq
<1>7. HandingIsExact
  BY DEF Init, HandingIsExact, HandedSlot, HandedChild, Pid, NoReq
<1>8. QueuedIsFresh /\ FdsAreWaiting /\ KnownIsGreatest /\ OneHandlerEach /\ StatusIsOver
  BY <1>3 DEF Init, WorkerInit, QueuedIsFresh, FdsAreWaiting, KnownIsGreatest, OneHandlerEach,
              StatusIsOver
<1>9. \A s \in Slot : s \in Pid /\ slots[s].pid = s /\ slots[s].busy = NoReq /\ pstate[s] = "recv"
  BY DEF Init, FreshSlot, Slot, Pid
<1>10. IdleIsIdle /\ SlotsOwnTheirChildren
  BY <1>9 DEF IdleIsIdle, SlotsOwnTheirChildren
<1>11. ReadyIsReadable
  BY DEF Init, ReadyIsReadable
<1> QED
  BY <1>1, <1>2, <1>3, <1>4, <1>5, <1>6, <1>7, <1>8, <1>10, <1>11 DEF IInv, PoolInv, Supervised

\* With the broker up, the worker hands out an id only together with its
\* datagram.
LEMMA HandsOutByDatagram ==
    ASSUME WorkerInv, WorkerAction(TRUE)
    PROVE  \/ dispatchQ' = dispatchQ /\ nextId' = nextId
           \/ nextId \in Req /\ dispatchQ' = Append(dispatchQ, nextId) /\ nextId' = nextId + 1
<1>1. CASE AcquirePermit \/ AbandonWait \/ ReceiveAck \/ SendCancel(TRUE) \/ WorkerExit
  BY <1>1 DEF AcquirePermit, AbandonWait, ReceiveAck, SendCancel, WorkerExit
<1>2. CASE SendDispatch(TRUE)
  BY <1>2, WorkerAssumption DEF SendDispatch, WorkerInv, WorkerTypeOK, IdsLeft, Req
<1>3. ASSUME NEW r \in Req, TaskAction(r) PROVE dispatchQ' = dispatchQ /\ nextId' = nextId
  BY <1>3 DEF TaskAction, ReadStart, ReadEnd, ReadEof, ChunkRefused, WriteTimesOut, ClientLeaves
<1> QED
  BY <1>1, <1>2, <1>3 DEF WorkerAction

\* A step of the worker leaves the pool alone, and hands out at most one id,
\* of which nothing is known.
LEMMA WorkerStepPreserves == ASSUME IInv, WorkerStep PROVE IInv'
<1> USE DEF IInv
<1>1. UNCHANGED poolVars
  BY DEF WorkerStep
<1>2. WorkerAction(BrokerUp)
  BY DEF WorkerStep, WorkerTask, WorkerAction, TaskAction, BrokerUp, Open
<1>3. WorkerInv' /\ ProtocolInv' /\ QueuesGrow
  BY <1>2, WorkerStepInv, WorkerStepProtocol DEF BrokerUp
<1>4. nextId \in Nat /\ dispatchQ \in Seq(Req) /\ cancelQ \in Seq(Req) /\ TakesAChunk
  BY <1>2, WorkerTakesAChunk DEF WorkerInv, WorkerTypeOK
<1>5. nextId' \in {nextId, nextId + 1}
  BY <1>3 DEF QueuesGrow
<1>6. \A r \in Req : req'[r] = "new" => req[r] = "new"
  BY <1>3, <1>4, <1>5 DEF ProtocolInv, HandedOut, Req
<1>7. ReadyIsReadable'
  <2>1. cancelQ # << >> => cancelQ' # << >>
    BY <1>3, <1>4, AppendProperties DEF QueuesGrow
  <2>2. dispatchQ # << >> => dispatchQ' # << >>
    BY <1>3, <1>4, AppendProperties DEF QueuesGrow
  <2> QED
    BY <1>1, <2>1, <2>2 DEF poolVars, brokerVars, ReadyIsReadable
<1>8. /\ (PoolTypeOK /\ ChildrenAreSound /\ EveryChildHasASlot)'
      /\ (FramesAreTheRunners /\ StartedAtMostOnce /\ CancelFollowsDispatch)'
  <2>1. PoolTypeOK'
    BY <1>1 DEF PoolInv, PoolTypeOK, poolVars, brokerVars, childVars
  <2>2. ChildrenAreSound' /\ EveryChildHasASlot'
    BY <1>1 DEF PoolInv, ChildrenAreSound, ChildIsSound, EveryChildHasASlot, poolVars, brokerVars,
       childVars
  <2>3. FramesAreTheRunners'
    BY <1>1, <1>4 DEF WorkerInv, WorkerTypeOK, PoolInv, FramesAreTheRunners, TakesAChunk, poolVars
  <2>4. (StartedAtMostOnce /\ CancelFollowsDispatch)'
    BY <1>1 DEF PoolInv, StartedAtMostOnce, CancelFollowsDispatch, poolVars, brokerVars
  <2> QED
    BY <2>1, <2>2, <2>3, <2>4
<1>9. UsedIsHandedOut'
  BY <1>1, <1>4, <1>6
  DEF WorkerInv, WorkerTypeOK, PoolInv, UsedIsHandedOut, TakesAChunk, poolVars, brokerVars, childVars
<1>10. ASSUME BrokerUp PROVE Supervised'
  <2>1. Supervised /\ WorkerAction(TRUE)
    BY <1>2, <1>10 DEF PoolInv
  <2>2. \/ dispatchQ' = dispatchQ /\ nextId' = nextId
        \/ nextId \in Req /\ dispatchQ' = Append(dispatchQ, nextId) /\ nextId' = nextId + 1
    BY <2>1, HandsOutByDatagram
  <2>3. Range(pending) \subseteq Req /\ Range(dispatchQ) \subseteq Req
    BY <2>1, QueueElements DEF Supervised, QueuedOnce
  <2>4. nextId \in Req => /\ req[nextId] = "new"
                          /\ nextId' = nextId + 1 => req'[nextId] # "new"
                          /\ runs[nextId] = 0 /\ \A p \in Pid : preq[p] # nextId
                          /\ nextId \notin Range(pending) \cup Range(dispatchQ)
                          /\ handing # NoHanding => handing.id # nextId
    <3>1. nextId \in Req => req[nextId] = "new"
      BY <1>4 DEF ProtocolInv, HandedOut
    <3>2. nextId \in Req /\ nextId' = nextId + 1 => req'[nextId] # "new"
      BY <1>3, <1>4 DEF ProtocolInv, HandedOut
    <3> QED
      BY <1>5, <2>1, <3>1, <3>2
      DEF PoolInv, UsedIsHandedOut, Supervised, QueuedIsFresh, HandingIsExact, HandedSlot
  <2>5. \/ Range(dispatchQ') = Range(dispatchQ) /\ nextId' = nextId
        \/ /\ nextId \in Req /\ nextId' = nextId + 1 /\ req'[nextId] # "new"
           /\ Range(dispatchQ') = Range(dispatchQ) \cup {nextId}
    <3>1. nextId \in Req => Range(Append(dispatchQ, nextId)) = Range(dispatchQ) \cup {nextId}
      BY <1>4, RangeOfAppend
    <3> QED
      BY <1>4, <2>2, <2>4, <3>1
  <2>6. UNCHANGED <<pc, stopping, slots, pending, greatestDispatch, handing, brokerFds, pstate,
                    preq, inbox, ackbox, statusQ, runs>>
    BY <1>1 DEF poolVars, brokerVars, childVars
  <2>7. QueuedOnce'
    <3>1. nextId \in Req => Queue(Append(dispatchQ, nextId), Req)
      BY <2>1, <2>4, AppendToQueue DEF Supervised, QueuedOnce
    <3>2. Queue(dispatchQ', Req)
      BY <2>1, <2>2, <3>1 DEF Supervised, QueuedOnce
    <3> QED
      BY <2>1, <2>4, <2>5, <2>6, <3>2 DEF Supervised, QueuedOnce
  <2>8. QueuedIsFresh'
    BY <1>6, <2>1, <2>3, <2>4, <2>5, <2>6 DEF Supervised, QueuedIsFresh
  <2>9. HandingIsExact'
    <3>1. handing # NoHanding => handing.id \in Req
      BY DEF PoolInv, PoolTypeOK
    <3>2. HandedSlot'
      BY <1>6, <2>1, <2>4, <2>5, <2>6, <3>1 DEF Supervised, HandingIsExact, HandedSlot
    <3>3. ASSUME NEW p \in Pid PROVE HandedChild(p)'
      BY <2>1, <2>6 DEF Supervised, HandingIsExact, HandedChild, Handed
    <3> QED
      BY <3>2, <3>3 DEF HandingIsExact
  <2>10. KnownIsGreatest'
    <3>1. \A r \in Req : req'[r] # "new" => req[r] # "new" \/ (r = nextId /\ nextId' = nextId + 1)
      BY <1>3, <1>4, <1>5 DEF ProtocolInv, HandedOut, Req
    <3>2. \A r \in Req : req'[r] # "new" /\ r \notin Range(dispatchQ')
                            => req[r] # "new" /\ r \notin Range(dispatchQ)
      BY <1>4, <2>5, <3>1
    <3> QED
      BY <2>1, <2>6, <3>2 DEF Supervised, KnownIsGreatest
  <2>11. (FdsAreWaiting /\ OneHandlerEach /\ StatusIsOver)'
    BY <2>1, <2>6 DEF Supervised, FdsAreWaiting, OneHandlerEach, StatusIsOver
  <2>12. (IdleIsIdle /\ SlotsOwnTheirChildren)'
    BY <2>1, <2>6 DEF Supervised, IdleIsIdle, Handed, SlotsOwnTheirChildren, BrokerUp
  <2> QED
    BY <2>7, <2>8, <2>9, <2>10, <2>11, <2>12 DEF Supervised
<1> QED
  BY <1>1, <1>3, <1>7, <1>8, <1>9, <1>10 DEF PoolInv, BrokerUp, poolVars, brokerVars

-----------------------------------------------------------------------------
\* NextReady names a ready channel, if any.
LEMMA NextReadyIsReady ==
    ASSUME NEW channels
    PROVE  NextReady(channels) = "top" \/ (/\ NextReady(channels) \in channels
                                           /\ NextReady(channels) \in {"status", "cancel", "dispatch"})
<1>1. CASE "status" \in channels
  BY <1>1 DEF NextReady
<1>2. CASE "status" \notin channels /\ "cancel" \in channels
  BY <1>2 DEF NextReady
<1>3. CASE "status" \notin channels /\ "cancel" \notin channels /\ channels = {"dispatch"}
  BY <1>3 DEF NextReady
<1>4. CASE "status" \notin channels /\ "cancel" \notin channels /\ channels # {"dispatch"}
  BY <1>4 DEF NextReady
<1> QED
  BY <1>1, <1>2, <1>3, <1>4

\* A channel that was served is not served again before the next poll, and
\* the others are still readable.
LEMMA ServedIsReadable ==
    ASSUME ReadyIsReadable, NEW c \in {"status", "cancel"}, pc = c,
           ready' = ready \ {c}, pc' = NextReady(ready'),
           c = "status" \/ statusQ' = statusQ, c = "cancel" \/ cancelQ' = cancelQ,
           dispatchQ' = dispatchQ
    PROVE  ReadyIsReadable'
<1>1. pc' = "top" \/ (pc' \in ready' /\ pc' \in {"status", "cancel", "dispatch"})
  BY NextReadyIsReady
<1> QED
  BY <1>1 DEF ReadyIsReadable

\* The broker's steps that only move its program counter.
LEMMA BookkeepingPreserves ==
    ASSUME IInv, BrokerTop \/ BrokerReapedAll \/ BrokerAssigned \/ BrokerPoll \/ BrokerSigterm
    PROVE  IInv'
<1> USE DEF IInv
<1>1. /\ UNCHANGED <<workerVars, slots, pending, earlyCancels, greatestDispatch, handing,
                    brokerFds, childVars, statusQ, nextPid, crashes, runs>>
      /\ stopping' \in BOOLEAN
      /\ BrokerUp /\ BrokerUp'
      /\ \/ pc' = pc
         \/ pc = "ackwait" /\ pc' = "ackfail" /\ stopping'
         \/ pc \notin {"ackwait", "ackfail", "exit"} /\ pc' \in {"exit", "reap", "assign", "poll"}
         \/ pc = "poll" /\ pc' = NextReady(ready')
      /\ pc = "ackfail" => stopping'
  <2>1. CASE BrokerTop \/ BrokerReapedAll \/ BrokerAssigned \/ BrokerPoll
    BY <2>1, NextReadyIsReady
    DEF BrokerTop, BrokerReapedAll, BrokerAssigned, BrokerPoll, BrokerUp, PoolInv, PoolTypeOK
  <2>2. CASE BrokerSigterm
    BY <2>2 DEF BrokerSigterm, BrokerUp, PoolInv, PoolTypeOK
  <2> QED
    BY <2>1, <2>2
<1>2. NextReady(ready') = "top" \/ (/\ NextReady(ready') \in ready'
                                    /\ NextReady(ready') \in {"status", "cancel", "dispatch"})
  BY NextReadyIsReady
<1>3. ReadyIsReadable' /\ ready' \subseteq {"status", "cancel", "dispatch"}
  <2>1. CASE BrokerPoll
    BY <1>1, <1>2, <2>1 DEF BrokerPoll, ReadyIsReadable, workerVars
  <2>2. CASE BrokerTop \/ BrokerReapedAll \/ BrokerAssigned
    BY <2>2 DEF BrokerTop, BrokerReapedAll, BrokerAssigned, ReadyIsReadable, PoolInv, PoolTypeOK
  <2>3. CASE BrokerSigterm
    BY <2>3 DEF BrokerSigterm, ReadyIsReadable, PoolInv, PoolTypeOK, workerVars
  <2> QED
    BY <2>1, <2>2, <2>3
<1>4. WorkerInv' /\ ProtocolInv'
  BY <1>1 DEF workerVars, WorkerInv, WorkerTypeOK, IdsLeft, ProtocolInv, OneInFlight, HandedOut,
     CancelsAreSettled, AckedHasLeft
<1>5. PoolTypeOK'
  BY <1>1, <1>2, <1>3 DEF PoolInv, PoolTypeOK, childVars
<1>6. /\ (ChildrenAreSound /\ EveryChildHasASlot /\ UsedIsHandedOut)'
      /\ (FramesAreTheRunners /\ StartedAtMostOnce /\ CancelFollowsDispatch)'
  BY <1>1 DEF PoolInv, ChildrenAreSound, ChildIsSound, EveryChildHasASlot, UsedIsHandedOut,
     FramesAreTheRunners, StartedAtMostOnce, CancelFollowsDispatch, workerVars, childVars
<1>7. Supervised
  BY <1>1 DEF PoolInv
<1>8. HandingIsExact'
  <2>1. HandedSlot'
    BY <1>1, <1>2, <1>7 DEF Supervised, HandingIsExact, HandedSlot, workerVars
  <2>2. ASSUME NEW p \in Pid PROVE HandedChild(p)'
    BY <1>1, <1>7 DEF Supervised, HandingIsExact, HandedChild, Handed, childVars
  <2> QED
    BY <2>1, <2>2 DEF HandingIsExact
<1>9. (QueuedOnce /\ QueuedIsFresh /\ FdsAreWaiting /\ OneHandlerEach /\ StatusIsOver)'
  BY <1>1, <1>7 DEF Supervised, QueuedOnce, QueuedIsFresh, FdsAreWaiting, OneHandlerEach,
     StatusIsOver, workerVars, childVars
<1>10. KnownIsGreatest'
  BY <1>1, <1>7 DEF Supervised, KnownIsGreatest, workerVars
<1>11. (IdleIsIdle /\ SlotsOwnTheirChildren)'
  BY <1>1, <1>7 DEF Supervised, IdleIsIdle, Handed, SlotsOwnTheirChildren, childVars
<1> QED
  BY <1>3, <1>4, <1>5, <1>6, <1>8, <1>9, <1>10, <1>11 DEF PoolInv, Supervised

\* Leaving the loop, or being killed: the queues empty, and nobody is
\* supervised any more.
LEMMA ExitPreserves == ASSUME IInv, BrokerExit \/ BrokerKilled PROVE IInv'
<1> USE DEF IInv
<1>1. /\ UNCHANGED <<worker, waiting, nextId, req, dispatching, workerFds, cancels, ackQ,
                    cancelQ, frames, stopping, slots, earlyCancels, greatestDispatch, ready,
                    handing, preq, served, ackbox, statusQ, nextPid, crashes, runs>>
      /\ dispatchQ' = << >> /\ pending' = << >> /\ brokerFds' = {}
      /\ pc' \in {"down", "killed"} /\ BrokerUp
  BY DEF BrokerExit, BrokerKilled, childVars, BrokerUp
<1>2. \A p \in Pid : /\ Terminated(p) => pstate[p] \notin {"unborn", "reaped"}
                     /\ ~Terminated(p) => pstate[p] \in {"unborn", "reaped"}
  BY <1>1 DEF PoolInv, EveryChildHasASlot, Terminated, Supervised, SlotsOwnTheirChildren, Pid,
     NoPid
<1>3. /\ pstate' \in [Pid -> {"unborn", "zombie", "reaped"} \cup Live]
      /\ inbox' \in [Pid -> Req \cup {NoReq}]
      /\ childFds' \in [Pid -> SUBSET Req]
      /\ \A p \in Pid : /\ inbox'[p] \in {inbox[p], NoReq}
                        /\ \/ /\ pstate'[p] = pstate[p] /\ inbox'[p] = inbox[p]
                              /\ childFds'[p] = childFds[p]
                           \/ /\ pstate'[p] = "reaped" /\ inbox'[p] = NoReq
                              /\ childFds'[p] = {} /\ pstate[p] # "unborn"
  <2>1. CASE BrokerKilled
    BY <2>1 DEF BrokerKilled, childVars, PoolInv, PoolTypeOK
  <2>2. CASE BrokerExit
    BY <1>2, <2>2 DEF BrokerExit, PoolInv, PoolTypeOK
  <2> QED
    BY <2>1, <2>2
<1>4. << >> \in Seq(Req) /\ Range(<< >>) = {}
  BY EmptyQueue DEF Queue
<1>5. WorkerInv'
  BY <1>1, <1>4 DEF WorkerInv, WorkerTypeOK, IdsLeft
<1>6. ProtocolInv'
  BY <1>1, BrokerProtocol
<1>7. PoolTypeOK'
  BY <1>1, <1>3, <1>4 DEF PoolInv, PoolTypeOK
<1>8. ChildrenAreSound' /\ EveryChildHasASlot'
  BY <1>1, <1>3 DEF PoolInv, ChildrenAreSound, ChildIsSound, EveryChildHasASlot
<1>9. /\ (UsedIsHandedOut /\ FramesAreTheRunners)'
      /\ (StartedAtMostOnce /\ CancelFollowsDispatch)'
  BY <1>1, <1>3 DEF PoolInv, UsedIsHandedOut, FramesAreTheRunners, StartedAtMostOnce,
     CancelFollowsDispatch, Req, NoReq
<1>10. ReadyIsReadable' /\ ~BrokerUp'
  BY <1>1 DEF ReadyIsReadable, BrokerUp
<1> QED
  BY <1>5, <1>6, <1>7, <1>8, <1>9, <1>10 DEF PoolInv

-----------------------------------------------------------------------------
(***************************************************************************)
(* The children's steps.                                                   *)
(***************************************************************************)

\* A child exits, for whatever reason; it may wake a broker that is stopping.
LEMMA ChildEnds ==
    ASSUME IInv, NEW p \in Pid, pstate[p] \in Live,
           pstate' = [pstate EXCEPT ![p] = "zombie"],
           childFds' = [childFds EXCEPT ![p] = {}],
           inbox' \in {inbox, [inbox EXCEPT ![p] = NoReq]}, inbox'[p] = NoReq,
           served' \in {served, [served EXCEPT ![p] = @ + 1]},
           crashes' \in 0 .. MaxCrashes,
           pc' = pc \/ (pc = "ackwait" /\ stopping /\ pc' = "ackfail"),
           UNCHANGED <<workerVars, stopping, slots, pending, earlyCancels, greatestDispatch,
                       ready, handing, brokerFds, preq, ackbox, statusQ, nextPid, runs>>
    PROVE  IInv'
<1> USE DEF IInv
<1>1. WorkerInv' /\ ProtocolInv' /\ ReadyIsReadable'
  BY DEF workerVars, WorkerInv, WorkerTypeOK, IdsLeft, ProtocolInv, OneInFlight, HandedOut,
     CancelsAreSettled, AckedHasLeft, ReadyIsReadable
<1>2. /\ \A q \in Pid : pstate'[q] = IF q = p THEN "zombie" ELSE pstate[q]
      /\ \A q \in Pid : childFds'[q] = IF q = p THEN {} ELSE childFds[q]
      /\ \A q \in Pid : inbox'[q] = IF q = p THEN NoReq ELSE inbox[q]
      /\ \A q \in Pid : q # p => served'[q] = served[q]
  BY DEF PoolInv, PoolTypeOK
<1>3. PoolTypeOK'
  <2>1. /\ pstate' \in [Pid -> {"unborn", "zombie", "reaped"} \cup Live]
        /\ childFds' \in [Pid -> SUBSET Req]
    BY DEF PoolInv, PoolTypeOK
  <2>2. inbox' \in [Pid -> Req \cup {NoReq}]
    BY DEF PoolInv, PoolTypeOK
  <2>3. served' \in [Pid -> Nat]
    <3>1. served \in [Pid -> Nat] /\ served[p] + 1 \in Nat
      BY DEF PoolInv, PoolTypeOK
    <3> QED
      BY <3>1
  <2> QED
    BY <2>1, <2>2, <2>3 DEF PoolInv, PoolTypeOK
<1>4. ChildrenAreSound' /\ EveryChildHasASlot'
  <2>1. ASSUME NEW q \in Pid PROVE ChildIsSound(q)'
    <3>1. ChildIsSound(q) /\ ChildIsSound(p)
      BY DEF PoolInv, ChildrenAreSound
    <3>2. UNCHANGED <<preq, nextPid, runs>>
      OBVIOUS
    <3>3. CASE q = p
      BY <1>2, <3>1, <3>2, <3>3 DEF ChildIsSound, Live
    <3>4. CASE q # p
      <4>1. UNCHANGED <<pstate[q], childFds[q], inbox[q], served[q]>>
        BY <1>2, <3>4
      <4> QED
        BY <3>1, <3>2, <4>1 DEF ChildIsSound
    <3> QED
      BY <3>3, <3>4
  <2>2. EveryChildHasASlot'
    BY <1>2 DEF PoolInv, EveryChildHasASlot, Live
  <2> QED
    BY <2>1, <2>2 DEF ChildrenAreSound
<1>5. (UsedIsHandedOut /\ FramesAreTheRunners /\ StartedAtMostOnce /\ CancelFollowsDispatch)'
  BY <1>2 DEF PoolInv, UsedIsHandedOut, FramesAreTheRunners, StartedAtMostOnce,
     CancelFollowsDispatch, workerVars, Req, NoReq
<1>6. ASSUME BrokerUp PROVE Supervised'
  <2>1. Supervised
    BY <1>6 DEF PoolInv
  <2>2. HandedSlot'
    BY <2>1 DEF Supervised, HandingIsExact, HandedSlot, workerVars
  <2>3. ASSUME NEW q \in Pid PROVE HandedChild(q)'
    BY <1>2, <2>1 DEF Supervised, HandingIsExact, HandedChild, Handed
  <2>4. (QueuedOnce /\ QueuedIsFresh /\ FdsAreWaiting /\ KnownIsGreatest /\ OneHandlerEach)'
    BY <2>1 DEF Supervised, QueuedOnce, QueuedIsFresh, FdsAreWaiting, KnownIsGreatest,
       OneHandlerEach, workerVars
  <2>5. StatusIsOver'
    BY <1>2, <2>1 DEF Supervised, StatusIsOver
  <2>6. (IdleIsIdle /\ SlotsOwnTheirChildren)'
    <3>1. \A s \in Slot : slots[s].pid # NoPid => slots[s].pid \in Pid
      BY DEF PoolInv, PoolTypeOK, SlotRecord
    <3> QED
      BY <1>2, <1>6, <2>1, <3>1
      DEF Supervised, IdleIsIdle, Handed, SlotsOwnTheirChildren, Live
  <2> QED
    BY <2>2, <2>3, <2>4, <2>5, <2>6 DEF Supervised, HandingIsExact
<1>7. BrokerUp' => BrokerUp
  BY DEF BrokerUp
<1> QED
  BY <1>1, <1>3, <1>4, <1>5, <1>6, <1>7 DEF PoolInv

\* A child that is not waiting for a dispatch has none on its way.
LEMMA BusyHasNoMail ==
    ASSUME IInv, NEW p \in Pid, pstate[p] # "recv" PROVE inbox[p] = NoReq
  BY DEF IInv, PoolInv, ChildrenAreSound, ChildIsSound

\* All the ways a child exits.
LEMMA ExitingPreserves ==
    ASSUME IInv, NEW p \in Pid,
           \/ ChildOrphaned(p) \/ ChildIncomplete(p) \/ ChildQuit(p) \/ ChildDies(p)
           \/ (ChildAck(p) /\ ~BrokerUp) \/ (ChildReport(p) /\ ~BrokerUp)
    PROVE  IInv'
<1>1. crashes \in 0 .. MaxCrashes /\ inbox \in [Pid -> Req \cup {NoReq}]
      /\ pc \in {"top", "reap", "assign", "ackwait", "ackfail", "poll", "status",
                 "cancel", "dispatch", "exit", "down", "killed"}
  BY DEF IInv, PoolInv, PoolTypeOK
<1>2. CASE ChildOrphaned(p)
  BY <1>1, <1>2, ChildEnds DEF ChildOrphaned, Live, brokerVars
<1>3. CASE ChildIncomplete(p)
  <2>1. inbox[p] = NoReq
    BY <1>3, BusyHasNoMail DEF ChildIncomplete
  <2> QED
    BY <1>1, <1>3, <2>1, ChildEnds DEF ChildIncomplete, SigchldInterrupts, Live
<1>4. CASE ChildQuit(p)
  <2>1. inbox[p] = NoReq
    BY <1>4, BusyHasNoMail DEF ChildQuit
  <2> QED
    BY <1>1, <1>4, <2>1, ChildEnds DEF ChildQuit, SigchldInterrupts, Live
<1>5. CASE ChildDies(p)
  <2>1. crashes' \in 0 .. MaxCrashes
    BY <1>1, <1>5, PoolAssumption DEF ChildDies
  <2> QED
    BY <1>1, <1>5, <2>1, ChildEnds DEF ChildDies, SigchldInterrupts
<1>6. CASE (ChildAck(p) /\ ~BrokerUp) \/ (ChildReport(p) /\ ~BrokerUp)
  <2>1. inbox[p] = NoReq
    BY <1>6, BusyHasNoMail DEF ChildAck, ChildReport
  <2> QED
    BY <1>1, <1>6, <2>1, ChildEnds DEF ChildAck, ChildReport, Live, brokerVars
<1> QED
  BY <1>2, <1>3, <1>4, <1>5, <1>6

\* A child takes the dispatch that is on its way to it.
LEMMA ReceivePreserves == ASSUME IInv, NEW p \in Pid, ChildReceive(p) PROVE IInv'
<1> USE DEF IInv
<1>1. /\ pstate[p] = "recv" /\ inbox[p] # NoReq
      /\ UNCHANGED <<workerVars, brokerVars, served, ackbox, statusQ, nextPid, crashes, runs>>
  BY DEF ChildReceive
<1>2. inbox[p] \in Req /\ childFds[p] = {} /\ req[inbox[p]] # "new"
  BY <1>1 DEF PoolInv, PoolTypeOK, ChildrenAreSound, ChildIsSound, UsedIsHandedOut
<1>3. /\ \A q \in Pid : pstate'[q] = IF q = p THEN "ack" ELSE pstate[q]
      /\ \A q \in Pid : childFds'[q] = IF q = p THEN {inbox[p]} ELSE childFds[q]
      /\ \A q \in Pid : inbox'[q] = IF q = p THEN NoReq ELSE inbox[q]
      /\ \A q \in Pid : preq'[q] = IF q = p THEN inbox[p] ELSE preq[q]
  BY <1>2 DEF ChildReceive, PoolInv, PoolTypeOK
<1>4. WorkerInv' /\ ProtocolInv' /\ ReadyIsReadable'
  BY <1>1 DEF workerVars, WorkerInv, WorkerTypeOK, IdsLeft, ProtocolInv, OneInFlight, HandedOut,
     CancelsAreSettled, AckedHasLeft, ReadyIsReadable, brokerVars
<1>5. PoolTypeOK'
  <2>1. UNCHANGED <<brokerVars, served, ackbox, statusQ, nextPid, crashes, runs>>
    BY <1>1
  <2>2. /\ pstate' \in [Pid -> {"unborn", "zombie", "reaped"} \cup Live]
        /\ preq' \in [Pid -> Req \cup {NoReq}]
        /\ inbox' \in [Pid -> Req \cup {NoReq}]
        /\ childFds' \in [Pid -> SUBSET Req]
    BY <1>2 DEF ChildReceive, PoolInv, PoolTypeOK, Live
  <2> QED
    BY <2>1, <2>2, Zenon DEF PoolInv, PoolTypeOK, brokerVars
<1>6. ChildrenAreSound' /\ EveryChildHasASlot'
  <2>1. ASSUME NEW q \in Pid PROVE ChildIsSound(q)'
    BY <1>1, <1>2, <1>3 DEF PoolInv, ChildrenAreSound, ChildIsSound, Req, NoReq
  <2>2. EveryChildHasASlot'
    BY <1>1, <1>3 DEF PoolInv, EveryChildHasASlot, brokerVars
  <2> QED
    BY <2>1, <2>2 DEF ChildrenAreSound
<1>7. (UsedIsHandedOut /\ FramesAreTheRunners /\ StartedAtMostOnce /\ CancelFollowsDispatch)'
  BY <1>1, <1>2, <1>3 DEF PoolInv, UsedIsHandedOut, FramesAreTheRunners, StartedAtMostOnce,
     CancelFollowsDispatch, workerVars, brokerVars, Req, NoReq
<1>8. ASSUME BrokerUp PROVE Supervised'
  <2>1. Supervised
    BY <1>8 DEF PoolInv
  <2>2. UNCHANGED <<pc, stopping, slots, pending, greatestDispatch, handing, brokerFds, ackbox,
                    statusQ, runs, req, dispatchQ>>
    BY <1>1 DEF workerVars, brokerVars
  <2>3. /\ Handed(p) /\ inbox[p] = handing.id /\ ackbox[p] = NoReq /\ runs[handing.id] = 0
        /\ \A q \in Pid : preq[q] # handing.id
        /\ handing.id \notin Range(dispatchQ) \cup Range(pending)
        /\ slots[handing.slot].busy = NoReq
        /\ \A q \in Pid : Handed(q) => q = p
    BY <1>1, <2>1 DEF Supervised, HandingIsExact, HandedSlot, HandedChild, Handed
  <2>4. HandingIsExact'
    <3>1. HandedSlot'
      BY <2>1, <2>2 DEF Supervised, HandingIsExact, HandedSlot
    <3>2. ASSUME NEW q \in Pid PROVE HandedChild(q)'
      BY <1>2, <1>3, <2>1, <2>2, <2>3 DEF Supervised, HandingIsExact, HandedChild, Handed
    <3> QED
      BY <3>1, <3>2 DEF HandingIsExact
  <2>5. (QueuedOnce /\ QueuedIsFresh /\ FdsAreWaiting /\ KnownIsGreatest)'
    BY <1>3, <2>1, <2>2, <2>3
    DEF Supervised, QueuedOnce, QueuedIsFresh, FdsAreWaiting, KnownIsGreatest
  <2>6. OneHandlerEach'
    BY <1>3, <2>1, <2>3 DEF Supervised, OneHandlerEach
  <2>7. StatusIsOver'
    BY <1>3, <2>1, <2>2, <2>3 DEF Supervised, StatusIsOver
  <2>8. (IdleIsIdle /\ SlotsOwnTheirChildren)'
    <3>1. \A s \in Slot : slots[s].pid # NoPid => slots[s].pid \in Pid
      BY DEF PoolInv, PoolTypeOK, SlotRecord
    <3>2. \A s \in Slot : slots[s].pid = p => slots[s].busy = NoReq
      <4>1. handing.slot \in Slot /\ slots[handing.slot].pid = p /\ p # NoPid
        BY <2>3 DEF Handed, PoolInv, PoolTypeOK, Pid, NoPid
      <4> QED
        BY <1>8, <2>1, <2>3, <4>1 DEF Supervised, SlotsOwnTheirChildren
    <3> QED
      BY <1>3, <1>8, <2>1, <2>2, <2>3, <3>1, <3>2
      DEF Supervised, IdleIsIdle, Handed, SlotsOwnTheirChildren
  <2> QED
    BY <2>4, <2>5, <2>6, <2>7, <2>8 DEF Supervised
<1> QED
  BY <1>1, <1>4, <1>5, <1>6, <1>7, <1>8 DEF PoolInv, BrokerUp, brokerVars

\* The acknowledgement is sent, and the handler begins: the request's first.
LEMMA AckPreserves == ASSUME IInv, NEW p \in Pid, ChildAck(p), BrokerUp PROVE IInv'
<1> USE DEF IInv
<1>1. /\ pstate[p] = "ack" /\ Supervised
      /\ ackbox' = [ackbox EXCEPT ![p] = preq[p]]
      /\ pstate' = [pstate EXCEPT ![p] = "run"]
      /\ runs' = [runs EXCEPT ![preq[p]] = @ + 1]
      /\ UNCHANGED <<workerVars, brokerVars, childFds, preq, served, inbox, statusQ, nextPid,
                     crashes>>
  BY DEF ChildAck, PoolInv
<1>2. /\ preq[p] \in Req /\ Handed(p) /\ preq[p] = handing.id
      /\ ackbox[p] = NoReq /\ inbox[p] = NoReq /\ runs[preq[p]] = 0
      /\ \A q \in Pid : inbox[q] = NoReq
      /\ \A q \in Pid : pstate[q] = "ack" => q = p
  BY <1>1 DEF PoolInv, PoolTypeOK, ChildrenAreSound, ChildIsSound, Supervised, HandingIsExact,
     HandedChild, Handed
<1>3. /\ \A q \in Pid : pstate'[q] = IF q = p THEN "run" ELSE pstate[q]
      /\ \A q \in Pid : ackbox'[q] = IF q = p THEN preq[p] ELSE ackbox[q]
      /\ \A r \in Req : runs'[r] = IF r = preq[p] THEN 1 ELSE runs[r]
  BY <1>1, <1>2 DEF PoolInv, PoolTypeOK
<1>4. WorkerInv' /\ ProtocolInv' /\ ReadyIsReadable'
  BY <1>1 DEF workerVars, WorkerInv, WorkerTypeOK, IdsLeft, ProtocolInv, OneInFlight, HandedOut,
     CancelsAreSettled, AckedHasLeft, ReadyIsReadable, brokerVars
<1>5. PoolTypeOK'
  <2>1. /\ pstate' \in [Pid -> {"unborn", "zombie", "reaped"} \cup Live]
        /\ ackbox' \in [Pid -> Req \cup {NoReq}]
        /\ runs' \in [Req -> Nat]
    BY <1>1, <1>2 DEF PoolInv, PoolTypeOK, Live
  <2> QED
    BY <1>1, <2>1, Zenon DEF PoolInv, PoolTypeOK, brokerVars
<1>6. ChildrenAreSound' /\ EveryChildHasASlot'
  <2>1. ASSUME NEW q \in Pid PROVE ChildIsSound(q)'
    BY <1>1, <1>2, <1>3 DEF PoolInv, PoolTypeOK, ChildrenAreSound, ChildIsSound, Req, NoReq
  <2>2. EveryChildHasASlot'
    BY <1>1, <1>3 DEF PoolInv, EveryChildHasASlot, brokerVars
  <2> QED
    BY <2>1, <2>2 DEF ChildrenAreSound
<1>7. (UsedIsHandedOut /\ FramesAreTheRunners /\ StartedAtMostOnce /\ CancelFollowsDispatch)'
  BY <1>1, <1>2, <1>3 DEF PoolInv, UsedIsHandedOut, FramesAreTheRunners, StartedAtMostOnce,
     CancelFollowsDispatch, workerVars, brokerVars
<1>8. UNCHANGED <<pc, stopping, slots, pending, greatestDispatch, handing, brokerFds, preq,
                  inbox, statusQ, req, dispatchQ>>
  BY <1>1 DEF workerVars, brokerVars
<1>9. HandingIsExact'
  <2>1. HandedSlot'
    BY <1>1, <1>8 DEF Supervised, HandingIsExact, HandedSlot
  <2>2. ASSUME NEW q \in Pid PROVE HandedChild(q)'
    BY <1>1, <1>2, <1>3, <1>8 DEF Supervised, HandingIsExact, HandedChild, Handed
  <2> QED
    BY <2>1, <2>2 DEF HandingIsExact
<1>10. (QueuedOnce /\ FdsAreWaiting /\ KnownIsGreatest /\ OneHandlerEach)'
  BY <1>1, <1>8 DEF Supervised, QueuedOnce, FdsAreWaiting, KnownIsGreatest, OneHandlerEach
<1>11. QueuedIsFresh'
  <2>1. Range(dispatchQ) \subseteq Req /\ Range(pending) \subseteq Req
    BY <1>1, QueueElements DEF Supervised, QueuedOnce
  <2> QED
    BY <1>1, <1>2, <1>3, <1>8, <2>1
    DEF Supervised, QueuedIsFresh
<1>12. StatusIsOver'
  <2>1. \A st \in Range(statusQ) : st.id \in Req
    <3>1. Range(statusQ) \in SUBSET [id : Req, retiring : BOOLEAN]
      BY RangeOfSeq DEF PoolInv, PoolTypeOK
    <3> QED
      BY <3>1
  <2> QED
    BY <1>1, <1>2, <1>3, <1>8, <2>1 DEF Supervised, StatusIsOver
<1>13. (IdleIsIdle /\ SlotsOwnTheirChildren)'
  <2>1. \A s \in Slot : slots[s].pid # NoPid => slots[s].pid \in Pid
    BY DEF PoolInv, PoolTypeOK, SlotRecord
  <2> QED
    BY <1>1, <1>2, <1>3, <1>8, <2>1 DEF Supervised, IdleIsIdle, Handed, SlotsOwnTheirChildren, BrokerUp
<1> QED
  BY <1>4, <1>5, <1>6, <1>7, <1>9, <1>10, <1>11, <1>12, <1>13 DEF PoolInv, Supervised

\* A handler writes: the Start frame, more output, or the last of its response.
LEMMA HandlerPreserves ==
    ASSUME IInv, NEW p \in Pid, ChildStart(p) \/ ChildWrites(p) \/ ChildFinish(p)
    PROVE  IInv'
<1> USE DEF IInv
<1>1. /\ pstate[p] = "run" /\ preq[p] \in Req /\ runs[preq[p]] > 0 /\ childFds[p] = {preq[p]}
      /\ req[preq[p]] # "new"
      /\ UNCHANGED <<worker, waiting, nextId, req, dispatching, workerFds, cancels, dispatchQ,
                     ackQ, cancelQ, brokerVars, preq, inbox, ackbox, statusQ, nextPid, crashes,
                     runs>>
  BY DEF ChildStart, ChildWrites, ChildFinish, poolVars, childVars, PoolInv, PoolTypeOK,
     ChildrenAreSound, ChildIsSound, UsedIsHandedOut
<1>2. PICK f \in {"start", "chunk", "end"} : frames' = [frames EXCEPT ![preq[p]] = f]
  BY DEF ChildStart, ChildWrites, ChildFinish
<1>3. \/ UNCHANGED <<pstate, childFds, served>>
      \/ /\ pstate' = [pstate EXCEPT ![p] = "report"]
         /\ childFds' = [childFds EXCEPT ![p] = {}]
         /\ served' = [served EXCEPT ![p] = @ + 1]
  BY <1>1 DEF ChildStart, ChildWrites, ChildFinish, poolVars, childVars
<1>4. /\ pstate' \in [Pid -> {"unborn", "zombie", "reaped"} \cup Live]
      /\ childFds' \in [Pid -> SUBSET Req]
      /\ served' \in [Pid -> Nat]
  <2>1. served \in [Pid -> Nat] /\ served[p] + 1 \in Nat
    BY DEF PoolInv, PoolTypeOK
  <2>2. served' \in [Pid -> Nat]
    BY <1>3, <2>1
  <2> QED
    BY <1>3, <2>2 DEF PoolInv, PoolTypeOK, Live
<1>5. /\ \A q \in Pid : \/ UNCHANGED <<pstate[q], childFds[q], served[q]>>
                        \/ q = p /\ pstate'[q] = "report" /\ childFds'[q] = {}
      /\ \A r \in Req : frames'[r] = IF r = preq[p] THEN f ELSE frames[r]
  BY <1>1, <1>2, <1>3 DEF PoolInv, PoolTypeOK, WorkerInv, WorkerTypeOK
<1>6. WorkerInv' /\ ProtocolInv' /\ ReadyIsReadable'
  <2>1. frames' \in [Req -> {"none", "start", "chunk", "end", "fail"}]
    BY <1>1, <1>2 DEF WorkerInv, WorkerTypeOK
  <2> QED
    BY <1>1, <2>1 DEF WorkerInv, WorkerTypeOK, IdsLeft, ProtocolInv, OneInFlight, HandedOut,
       CancelsAreSettled, AckedHasLeft, ReadyIsReadable, brokerVars
<1>7. PoolTypeOK'
  BY <1>1, <1>4, Zenon DEF PoolInv, PoolTypeOK, brokerVars
<1>8. ChildrenAreSound' /\ EveryChildHasASlot'
  <2>1. ASSUME NEW q \in Pid PROVE ChildIsSound(q)'
    <3>1. ChildIsSound(q) /\ ChildIsSound(p)
      BY DEF PoolInv, ChildrenAreSound
    <3> QED
      BY <1>1, <1>5, <3>1 DEF ChildIsSound
  <2>2. EveryChildHasASlot'
    BY <1>1, <1>5 DEF PoolInv, EveryChildHasASlot, brokerVars
  <2> QED
    BY <2>1, <2>2 DEF ChildrenAreSound
<1>9. (UsedIsHandedOut /\ FramesAreTheRunners /\ StartedAtMostOnce /\ CancelFollowsDispatch)'
  BY <1>1, <1>5 DEF PoolInv, UsedIsHandedOut, FramesAreTheRunners, StartedAtMostOnce,
     CancelFollowsDispatch, brokerVars
<1>10. UNCHANGED <<pc, stopping, slots, pending, greatestDispatch, handing, brokerFds>>
  BY <1>1 DEF brokerVars
<1>11. ASSUME BrokerUp PROVE Supervised'
  <2>1. Supervised
    BY <1>11 DEF PoolInv
  <2>2. HandedSlot'
    BY <1>1, <1>10, <2>1 DEF Supervised, HandingIsExact, HandedSlot
  <2>3. ASSUME NEW q \in Pid PROVE HandedChild(q)'
    BY <1>1, <1>5, <1>10, <2>1 DEF Supervised, HandingIsExact, HandedChild, Handed
  <2>4. (QueuedOnce /\ QueuedIsFresh /\ FdsAreWaiting /\ KnownIsGreatest /\ OneHandlerEach)'
    BY <1>1, <1>10, <2>1 DEF Supervised, QueuedOnce, QueuedIsFresh, FdsAreWaiting,
       KnownIsGreatest, OneHandlerEach
  <2>5. StatusIsOver'
    BY <1>1, <1>5, <2>1 DEF Supervised, StatusIsOver
  <2>6. (IdleIsIdle /\ SlotsOwnTheirChildren)'
    <3>1. \A s \in Slot : slots[s].pid # NoPid => slots[s].pid \in Pid
      BY DEF PoolInv, PoolTypeOK, SlotRecord
    <3> QED
      BY <1>1, <1>5, <1>10, <1>11, <2>1, <3>1
      DEF Supervised, IdleIsIdle, Handed, SlotsOwnTheirChildren
  <2> QED
    BY <2>2, <2>3, <2>4, <2>5, <2>6 DEF Supervised, HandingIsExact
<1> QED
  BY <1>6, <1>7, <1>8, <1>9, <1>10, <1>11 DEF PoolInv, BrokerUp

\* A completion is reported, with the child's own request in it.
LEMMA ReportPreserves == ASSUME IInv, NEW p \in Pid, ChildReport(p), BrokerUp PROVE IInv'
<1> DEFINE st == [id |-> preq[p], retiring |-> Retiring(p)]
           next == IF Retiring(p) THEN "quit" ELSE "recv"
<1> USE DEF IInv
<1>1. /\ pstate[p] = "report" /\ Supervised
      /\ statusQ' = Append(statusQ, st)
      /\ pstate' = [pstate EXCEPT ![p] = next]
      /\ UNCHANGED <<workerVars, brokerVars, childFds, preq, served, inbox, ackbox, nextPid,
                     crashes, runs>>
  BY DEF ChildReport, PoolInv
<1>2. /\ preq[p] \in Req /\ runs[preq[p]] > 0 /\ childFds[p] = {} /\ inbox[p] = NoReq
      /\ served[p] \in Nat /\ Quota \in Nat
  BY <1>1, PoolAssumption DEF PoolInv, PoolTypeOK, ChildrenAreSound, ChildIsSound
<1>3. /\ st \in StatusRecord /\ next \in {"recv", "quit"}
      /\ next = "quit" => st.retiring
      /\ next = "recv" => Quota = 0 \/ served[p] < Quota
      /\ st.id = preq[p]
  <2>1. Retiring(p) \in BOOLEAN /\ (~Retiring(p) => Quota = 0 \/ served[p] < Quota)
    BY <1>2 DEF Retiring
  <2>2. st \in StatusRecord /\ st.id = preq[p] /\ st.retiring = Retiring(p)
    BY <1>2, <2>1 DEF StatusRecord
  <2>3. next \in {"recv", "quit"} /\ (next = "quit" <=> Retiring(p))
    BY <2>1, Zenon
  <2> QED
    BY <2>1, <2>2, <2>3
<1> HIDE DEF st, next
<1>4. statusQ' \in Seq(StatusRecord) /\ Range(statusQ') = Range(statusQ) \cup {st}
      /\ statusQ' # << >>
  <2>1. statusQ \in Seq(StatusRecord)
    BY DEF PoolInv, PoolTypeOK, StatusRecord
  <2>2. /\ Append(statusQ, st) \in Seq(StatusRecord)
        /\ Range(Append(statusQ, st)) = Range(statusQ) \cup {st}
    BY <1>3, <2>1, RangeOfAppend
  <2>3. Append(statusQ, st) # << >>
    BY <1>3, <2>1, AppendProperties
  <2> QED
    BY <1>1, <2>2, <2>3
<1>5. \A q \in Pid : pstate'[q] = IF q = p THEN next ELSE pstate[q]
  BY <1>1 DEF PoolInv, PoolTypeOK
<1>6. WorkerInv' /\ ProtocolInv' /\ ReadyIsReadable'
  BY <1>1, <1>4 DEF workerVars, WorkerInv, WorkerTypeOK, IdsLeft, ProtocolInv, OneInFlight,
     HandedOut, CancelsAreSettled, AckedHasLeft, ReadyIsReadable, brokerVars
<1>7. PoolTypeOK'
  <2>1. pstate' \in [Pid -> {"unborn", "zombie", "reaped"} \cup Live]
    BY <1>1, <1>3 DEF PoolInv, PoolTypeOK, Live
  <2> QED
    BY <1>1, <1>4, <2>1, Zenon DEF PoolInv, PoolTypeOK, StatusRecord, brokerVars
<1>8. ChildrenAreSound' /\ EveryChildHasASlot'
  <2>1. ASSUME NEW q \in Pid PROVE ChildIsSound(q)'
    <3>1. ChildIsSound(q) /\ ChildIsSound(p)
      BY DEF PoolInv, ChildrenAreSound
    <3> QED
      BY <1>1, <1>2, <1>3, <1>5, <3>1 DEF ChildIsSound
  <2>2. EveryChildHasASlot'
    BY <1>1, <1>3, <1>5 DEF PoolInv, EveryChildHasASlot, brokerVars
  <2> QED
    BY <2>1, <2>2 DEF ChildrenAreSound
<1>9. (UsedIsHandedOut /\ FramesAreTheRunners /\ StartedAtMostOnce /\ CancelFollowsDispatch)'
  BY <1>1 DEF PoolInv, UsedIsHandedOut, FramesAreTheRunners, StartedAtMostOnce,
     CancelFollowsDispatch, workerVars, brokerVars
<1>10. UNCHANGED <<pc, stopping, slots, pending, greatestDispatch, handing, brokerFds, preq,
                   inbox, ackbox, runs, req, dispatchQ>>
  BY <1>1 DEF workerVars, brokerVars
<1>11. HandingIsExact'
  <2>1. HandedSlot'
    BY <1>1, <1>10 DEF Supervised, HandingIsExact, HandedSlot
  <2>2. ASSUME NEW q \in Pid PROVE HandedChild(q)'
    BY <1>1, <1>3, <1>5, <1>10 DEF Supervised, HandingIsExact, HandedChild, Handed
  <2> QED
    BY <2>1, <2>2 DEF HandingIsExact
<1>12. (QueuedOnce /\ QueuedIsFresh /\ FdsAreWaiting /\ KnownIsGreatest /\ OneHandlerEach)'
  BY <1>1, <1>10 DEF Supervised, QueuedOnce, QueuedIsFresh, FdsAreWaiting, KnownIsGreatest,
     OneHandlerEach
<1>13. StatusIsOver'
  <2>1. ASSUME NEW t \in Range(statusQ') PROVE runs'[t.id] > 0
    BY <1>1, <1>2, <1>3, <1>4, <1>10 DEF Supervised, StatusIsOver
  <2>2. ASSUME NEW t \in Range(statusQ'), NEW q \in Pid, preq'[q] = t.id
        PROVE  pstate'[q] \notin {"ack", "run", "report"} /\ (pstate'[q] = "quit" => t.retiring)
    <3>1. CASE t = st
      <4>1. q = p
        BY <1>1, <1>2, <1>3, <1>10, <2>2, <3>1 DEF Supervised, OneHandlerEach, Req, NoReq
      <4> QED
        BY <1>3, <1>5, <3>1, <4>1
    <3>2. CASE t \in Range(statusQ)
      <4>1. q # p
        BY <1>1, <1>10, <2>2, <3>2 DEF Supervised, StatusIsOver
      <4> QED
        BY <1>1, <1>5, <1>10, <2>2, <3>2, <4>1 DEF Supervised, StatusIsOver
    <3> QED
      BY <1>4, <3>1, <3>2
  <2> QED
    BY <2>1, <2>2 DEF StatusIsOver
<1>14. (IdleIsIdle /\ SlotsOwnTheirChildren)'
  <2>1. \A s \in Slot : slots[s].pid # NoPid => slots[s].pid \in Pid
    BY DEF PoolInv, PoolTypeOK, SlotRecord
  <2> QED
    BY <1>1, <1>3, <1>5, <1>10, <2>1
    DEF Supervised, IdleIsIdle, Handed, SlotsOwnTheirChildren, BrokerUp
<1> QED
  BY <1>6, <1>7, <1>8, <1>9, <1>11, <1>12, <1>13, <1>14 DEF PoolInv, Supervised

-----------------------------------------------------------------------------
(***************************************************************************)
(* The broker's steps.                                                     *)
(***************************************************************************)

\* A child is killed and replaced, for whatever reason: the new one is idle
\* and holds nothing, since the broker holds nothing but the pending channels,
\* which the new child closes.
LEMMA RespawnPreserves ==
    ASSUME IInv, BrokerUp, pc # "exit",
           NEW s \in Slot, slots[s].pid # NoPid,
           NEW fds, NEW next \in {"reap", "assign", "top", "status", "cancel", "dispatch"},
           Respawn(s, fds, next),
           handing = NoHanding \/ handing.slot = s, handing' = NoHanding,
           Queue(pending', Req), Range(pending') \subseteq Range(pending), fds = Range(pending'),
           ready' \subseteq {"status", "cancel", "dispatch"},
           UNCHANGED <<req, dispatchQ, frames, statusQ, runs, stopping, greatestDispatch,
                       earlyCancels, crashes>>
    PROVE  PoolInv' /\ pc' \in {next, "exit"}
<1> DEFINE old == slots[s].pid
           new == nextPid
<1> USE DEF IInv
<1>1. /\ old \in Pid /\ nextPid \in 1 .. MaxPids + 1 /\ Supervised
      /\ \A t \in Slot : slots[t].pid \in Pid \cup {NoPid}
      /\ slots \in [Slot -> SlotRecord]
  BY DEF PoolInv, PoolTypeOK, SlotRecord, NoPid
<1>2. /\ \A t \in Slot \ {s} : slots[t].pid # old
      /\ pstate[old] \notin {"unborn", "reaped"} /\ old < new
  <2>1. /\ \A t \in Slot \ {s} : slots[t].pid # old
        /\ pstate[old] \notin {"unborn", "reaped"}
    BY <1>1 DEF Supervised, SlotsOwnTheirChildren
  <2>2. ChildIsSound(old) /\ old \in Nat /\ new \in Nat
    BY <1>1 DEF PoolInv, ChildrenAreSound, Pid
  <2>3. old < new
    BY <2>1, <2>2 DEF ChildIsSound
  <2> QED
    BY <2>1, <2>3
<1>3. \A p \in Pid \ {old} : inbox[p] = NoReq /\ ackbox[p] = NoReq /\ pstate[p] # "ack" /\ ~Handed(p)
  BY <1>1 DEF Supervised, HandingIsExact, HandedChild, Handed
<1>4. InheritedFds(fds) = {}
  BY DEF InheritedFds
<1>5. /\ inbox'  = [inbox  EXCEPT ![old] = NoReq]
      /\ ackbox' = [ackbox EXCEPT ![old] = NoReq]
      /\ preq'   = [preq   EXCEPT ![old] = NoReq]
      /\ served' = [served EXCEPT ![old] = 0]
      /\ brokerFds' = fds
      /\ \/ /\ new \in Pid
            /\ slots' = [slots EXCEPT ![s] = FreshSlot(new)]
            /\ pstate' = [pstate EXCEPT ![old] = "reaped", ![new] = "recv"]
            /\ childFds' = [childFds EXCEPT ![old] = {}, ![new] = {}]
            /\ nextPid' = new + 1 /\ pc' = next
         \/ /\ new = MaxPids + 1
            /\ slots' = [slots EXCEPT ![s] = FreshSlot(NoPid)]
            /\ pstate' = [pstate EXCEPT ![old] = "reaped"]
            /\ childFds' = [childFds EXCEPT ![old] = {}]
            /\ nextPid' = new /\ pc' = "exit"
  <2>1. CASE nextPid <= MaxPids
    BY <1>1, <1>4, <2>1 DEF Respawn, Pid
  <2>2. CASE ~(nextPid <= MaxPids)
    BY <1>1, <2>2, PoolAssumption DEF Respawn
  <2> QED
    BY <2>1, <2>2
<1> HIDE DEF old, new
<1>6. PICK n \in Pid \cup {NoPid} :
          /\ n = NoPid \/ (n = new /\ nextPid' = new + 1 /\ pc' = next)
          /\ n # NoPid \/ (new = MaxPids + 1 /\ nextPid' = nextPid /\ pc' = "exit")
          /\ \A t \in Slot : slots'[t] = IF t = s THEN FreshSlot(n) ELSE slots[t]
          /\ \A p \in Pid : /\ p = n => pstate'[p] = "recv"
                            /\ p # n /\ p = old => pstate'[p] = "reaped"
                            /\ p # n /\ p # old => pstate'[p] = pstate[p]
                            /\ childFds'[p] = IF p \in {old, n} THEN {} ELSE childFds[p]
                            /\ inbox'[p] = NoReq /\ ackbox'[p] = NoReq
                            /\ preq'[p] = IF p = old THEN NoReq ELSE preq[p]
                            /\ served'[p] = IF p = old THEN 0 ELSE served[p]
  <2>1. /\ DOMAIN inbox = Pid /\ DOMAIN ackbox = Pid /\ DOMAIN preq = Pid /\ DOMAIN served = Pid
        /\ DOMAIN pstate = Pid /\ DOMAIN childFds = Pid /\ DOMAIN slots = Slot
        /\ inbox = [p \in Pid |-> inbox[p]] /\ ackbox = [p \in Pid |-> ackbox[p]]
        /\ preq = [p \in Pid |-> preq[p]] /\ served = [p \in Pid |-> served[p]]
        /\ pstate = [p \in Pid |-> pstate[p]] /\ childFds = [p \in Pid |-> childFds[p]]
        /\ slots = [t \in Slot |-> slots[t]]
    BY DEF PoolInv, PoolTypeOK
  <2>2. \A p \in Pid : /\ inbox'[p] = NoReq /\ ackbox'[p] = NoReq
                       /\ preq'[p] = IF p = old THEN NoReq ELSE preq[p]
                       /\ served'[p] = IF p = old THEN 0 ELSE served[p]
    BY <1>3, <1>5, <2>1
  <2>3. CASE new \in Pid /\ pc' = next /\ nextPid' = new + 1
    <3>1. new # NoPid /\ new # old /\ old \in Pid /\ new <= MaxPids
      BY <1>1, <1>2, <2>3 DEF NoPid, Pid, new, old
    <3>2. /\ slots' = [slots EXCEPT ![s] = FreshSlot(new)]
          /\ pstate' = [pstate EXCEPT ![old] = "reaped", ![new] = "recv"]
          /\ childFds' = [childFds EXCEPT ![old] = {}, ![new] = {}]
      BY <1>5, <3>1, PoolAssumption
    <3>3. /\ \A t \in Slot : slots'[t] = IF t = s THEN FreshSlot(new) ELSE slots[t]
          /\ \A p \in Pid : /\ p = new => pstate'[p] = "recv"
                            /\ p # new /\ p = old => pstate'[p] = "reaped"
                            /\ p # new /\ p # old => pstate'[p] = pstate[p]
                            /\ childFds'[p] = IF p \in {old, new} THEN {} ELSE childFds[p]
      BY <2>1, <3>1, <3>2
    <3> QED
      BY <2>2, <2>3, <3>1, <3>3
  <2>4. CASE new = MaxPids + 1 /\ pc' = "exit" /\ nextPid' = new
    <3>1. new \notin Pid /\ NoPid \notin Pid /\ old \in Pid /\ new = nextPid
      BY <1>1, <2>4, PoolAssumption DEF NoPid, Pid, new, old
    <3>2. /\ slots' = [slots EXCEPT ![s] = FreshSlot(NoPid)]
          /\ pstate' = [pstate EXCEPT ![old] = "reaped"]
          /\ childFds' = [childFds EXCEPT ![old] = {}]
      BY <1>5, <3>1
    <3>3. /\ \A t \in Slot : slots'[t] = IF t = s THEN FreshSlot(NoPid) ELSE slots[t]
          /\ \A p \in Pid : /\ p = old => pstate'[p] = "reaped"
                            /\ p # old => pstate'[p] = pstate[p]
                            /\ childFds'[p] = IF p = old THEN {} ELSE childFds[p]
      BY <2>1, <3>1, <3>2
    <3>4. \A p \in Pid : p # NoPid
      BY <3>1
    <3> QED
      BY <2>2, <2>4, <3>1, <3>3, <3>4
  <2> QED
    BY <1>5, <2>3, <2>4
<1>7. /\ n # old /\ n # NoPid => pstate[n] = "unborn" /\ n \in Pid /\ served[n] = 0
      /\ \A p \in Pid : p # n /\ p # old => pstate'[p] = pstate[p]
      /\ pstate'[old] = "reaped"
      /\ n \in Pid => pstate'[n] = "recv"
      /\ NoPid \notin Pid
  <2>1. NoPid \notin Pid /\ old \in Pid /\ new \in Nat /\ new = nextPid /\ (n = NoPid \/ n = new)
    BY <1>1, <1>6 DEF NoPid, Pid, new, old
  <2>2. n # NoPid => n \in Pid /\ n = nextPid /\ pstate[n] = "unborn" /\ served[n] = 0
    <3>1. n # NoPid => n \in Pid /\ ChildIsSound(n)
      BY <1>6 DEF PoolInv, ChildrenAreSound
    <3> QED
      BY <2>1, <3>1 DEF ChildIsSound
  <2>3. n # old
    BY <1>2, <2>1, <2>2
  <2> QED
    BY <1>6, <2>1, <2>2, <2>3
<1>8. PoolTypeOK'
  <2>1. /\ slots' \in [Slot -> SlotRecord]
        /\ nextPid' \in 1 .. MaxPids + 1
    <3>1. FreshSlot(NoPid) \in SlotRecord
      BY DEF FreshSlot, SlotRecord
    <3>2. new \in Pid => FreshSlot(new) \in SlotRecord
      BY DEF FreshSlot, SlotRecord
    <3>3. slots' \in [Slot -> SlotRecord]
      BY <1>1, <1>5, <3>1, <3>2
    <3>4. nextPid' \in 1 .. MaxPids + 1
      BY <1>1, <1>5, PoolAssumption DEF Pid, new
    <3> QED
      BY <3>3, <3>4
  <2>2. /\ pstate' \in [Pid -> {"unborn", "zombie", "reaped"} \cup Live]
        /\ childFds' \in [Pid -> SUBSET Req]
    BY <1>5 DEF PoolInv, PoolTypeOK, Live
  <2>3. /\ inbox' \in [Pid -> Req \cup {NoReq}]
        /\ ackbox' \in [Pid -> Req \cup {NoReq}]
        /\ preq' \in [Pid -> Req \cup {NoReq}]
        /\ served' \in [Pid -> Nat]
    BY <1>5 DEF PoolInv, PoolTypeOK
  <2>4. pending' \in Seq(Req) /\ brokerFds' \subseteq Req
    BY <1>5, QueueElements DEF Queue
  <2>5. pc' \in {"top", "reap", "assign", "ackwait", "ackfail", "poll", "status",
                 "cancel", "dispatch", "exit", "down", "killed"}
    BY <1>6
  <2> QED
    BY <2>1, <2>2, <2>3, <2>4, <2>5 DEF PoolInv, PoolTypeOK
<1>9. ChildrenAreSound'
  <2>1. ASSUME NEW p \in Pid PROVE ChildIsSound(p)'
    <3>1. ChildIsSound(p)
      BY DEF PoolInv, ChildrenAreSound
    <3>2. runs' = runs /\ p \in Nat /\ nextPid \in Nat /\ Quota \in Nat
      BY <1>1, PoolAssumption DEF Pid
    <3>3. p = old => p # n /\ p < nextPid
      BY <1>2, <1>6, <1>7 DEF new, NoPid, Pid
    <3>4. n # NoPid => n = nextPid /\ nextPid' = nextPid + 1
      BY <1>6 DEF new
    <3>5. n = NoPid => nextPid' = nextPid /\ p # n
      BY <1>6, <1>7
    <3>6. CASE p = n
      BY <1>6, <1>7, <3>2, <3>3, <3>4, <3>5, <3>6 DEF ChildIsSound
    <3>7. CASE p = old
      BY <1>6, <1>7, <3>2, <3>3, <3>4, <3>5, <3>7 DEF ChildIsSound
    <3>8. CASE p # n /\ p # old
      <4>1. UNCHANGED <<pstate[p], served[p], preq[p], childFds[p]>> /\ inbox'[p] = NoReq
        BY <1>6, <1>7, <3>8
      <4>2. p >= nextPid' <=> p >= nextPid
        BY <3>2, <3>4, <3>5, <3>8
      <4> QED
        BY <3>1, <3>2, <4>1, <4>2 DEF ChildIsSound
    <3> QED
      BY <3>6, <3>7, <3>8
  <2> QED
    BY <2>1 DEF ChildrenAreSound
<1>10. EveryChildHasASlot'
  <2>1. ASSUME NEW p \in Pid, pstate'[p] \notin {"unborn", "reaped"}
        PROVE  \E t \in Slot : slots'[t].pid = p
    <3>1. CASE p = n
      BY <1>6, <3>1 DEF FreshSlot
    <3>2. CASE p # n
      <4>1. p # old /\ pstate'[p] = pstate[p]
        BY <1>7, <2>1, <3>2
      <4>2. PICK t \in Slot : slots[t].pid = p
        BY <2>1, <4>1 DEF PoolInv, EveryChildHasASlot
      <4> QED
        BY <1>6, <4>1, <4>2 DEF old
    <3> QED
      BY <3>1, <3>2
  <2> QED
    BY <2>1 DEF EveryChildHasASlot
<1>11. (UsedIsHandedOut /\ FramesAreTheRunners /\ StartedAtMostOnce /\ CancelFollowsDispatch)'
  <2>1. brokerFds' \subseteq brokerFds
    BY <1>1, <1>5 DEF Supervised, FdsAreWaiting
  <2> QED
    BY <1>6, <2>1 DEF PoolInv, UsedIsHandedOut, FramesAreTheRunners, StartedAtMostOnce,
       CancelFollowsDispatch, Req, NoReq
<1>12. HandingIsExact'
  <2>1. HandedSlot'
    BY <1>6 DEF HandedSlot
  <2>2. ASSUME NEW p \in Pid PROVE HandedChild(p)'
    BY <1>3, <1>6, <1>7, <2>2 DEF HandedChild
  <2> QED
    BY <2>1, <2>2 DEF HandingIsExact
<1>13. QueuedOnce'
  BY <1>1 DEF Supervised, QueuedOnce
<1>14. QueuedIsFresh'
  <2>1. \A r \in Range(pending') \cup Range(dispatchQ) : r \in Req
    BY <1>1, QueueElements DEF Supervised, QueuedOnce
  <2> QED
    BY <1>1, <1>6, <2>1 DEF Supervised, QueuedIsFresh, Req, NoReq
<1>15. FdsAreWaiting' /\ KnownIsGreatest'
  BY <1>1, <1>5 DEF Supervised, FdsAreWaiting, KnownIsGreatest
<1>16. OneHandlerEach'
  BY <1>1, <1>6 DEF Supervised, OneHandlerEach
<1>17. StatusIsOver'
  <2>1. \A st \in Range(statusQ) : st.id \in Req /\ st.id # NoReq
    <3>1. Range(statusQ) \in SUBSET StatusRecord
      BY RangeOfSeq DEF PoolInv, PoolTypeOK, StatusRecord
    <3> QED
      BY <3>1 DEF StatusRecord, Req, NoReq
  <2>2. ASSUME NEW st \in Range(statusQ), NEW p \in Pid, preq'[p] = st.id
        PROVE  pstate'[p] \notin {"ack", "run", "report"} /\ (pstate'[p] = "quit" => st.retiring)
    <3>1. p # old /\ preq[p] = st.id
      BY <1>6, <2>1, <2>2
    <3>2. CASE p = n
      BY <1>7, <3>2
    <3>3. CASE p # n
      BY <1>1, <1>7, <3>1, <3>3 DEF Supervised, StatusIsOver
    <3> QED
      BY <3>2, <3>3
  <2> QED
    BY <1>1, <2>2 DEF Supervised, StatusIsOver
<1>18. IdleIsIdle'
  <2>1. ASSUME NEW t \in Slot, slots'[t].pid # NoPid, slots'[t].busy = NoReq
        PROVE  /\ pstate'[slots'[t].pid] \in {"recv", "quit", "zombie"}
               /\ pstate'[slots'[t].pid] = "quit" => slots'[t].retiring
    <3>1. CASE t = s
      BY <1>6, <1>7, <2>1, <3>1 DEF FreshSlot
    <3>2. CASE t # s
      <4>1. slots'[t] = slots[t] /\ slots[t].pid \in Pid /\ slots[t].pid # old
        BY <1>1, <1>2, <1>6, <2>1, <3>2 DEF old
      <4>2. ~Handed(slots[t].pid)
        BY <1>3, <4>1
      <4>3. /\ pstate[slots[t].pid] \in {"recv", "quit", "zombie"}
            /\ pstate[slots[t].pid] = "quit" => slots[t].retiring
        BY <1>1, <2>1, <4>1, <4>2 DEF Supervised, IdleIsIdle
      <4>4. slots[t].pid # n
        BY <1>7, <4>1, <4>3
      <4> QED
        BY <1>7, <4>1, <4>3, <4>4
    <3> QED
      BY <3>1, <3>2
  <2> QED
    BY <2>1 DEF IdleIsIdle
<1>19. SlotsOwnTheirChildren'
  <2>1. \A t \in Slot \ {s} : slots[t].pid # NoPid =>
            /\ pstate[slots[t].pid] \notin {"unborn", "reaped"}
            /\ slots[t].busy # NoReq => preq[slots[t].pid] = slots[t].busy
            /\ slots[t].pid # n /\ slots[t].pid # old /\ slots[t].pid \in Pid
    BY <1>1, <1>2, <1>7 DEF Supervised, SlotsOwnTheirChildren
  <2>2. \A t \in Slot \ {s} : slots'[t] = slots[t]
    BY <1>6
  <2>3. slots'[s].pid = n /\ slots'[s].busy = NoReq
    BY <1>6 DEF FreshSlot
  <2>4. ASSUME NEW t \in Slot, slots'[t].pid # NoPid
        PROVE  /\ pstate'[slots'[t].pid] \notin {"unborn", "reaped"}
               /\ slots'[t].busy # NoReq => preq'[slots'[t].pid] = slots'[t].busy
               /\ \A u \in Slot \ {t} : slots'[u].pid # slots'[t].pid
    <3>1. CASE t = s
      BY <1>6, <1>7, <2>1, <2>2, <2>3, <2>4, <3>1
    <3>2. CASE t # s
      <4>1. /\ pstate'[slots[t].pid] = pstate[slots[t].pid]
            /\ preq'[slots[t].pid] = preq[slots[t].pid]
        BY <1>6, <1>7, <2>1, <2>2, <2>4, <3>2
      <4>2. \A u \in Slot \ {t} : slots[u].pid # slots[t].pid
        BY <1>1, <2>2, <2>4, <3>2 DEF Supervised, SlotsOwnTheirChildren
      <4> QED
        BY <2>1, <2>2, <2>3, <2>4, <3>2, <4>1, <4>2
    <3> QED
      BY <3>1, <3>2
  <2> QED
    BY <2>4 DEF SlotsOwnTheirChildren
<1> QED
  BY <1>6, <1>8, <1>9, <1>10, <1>11, <1>12, <1>13, <1>14, <1>15, <1>16, <1>17, <1>18, <1>19
  DEF PoolInv, Supervised

\* A step that does not touch the worker's variables.
LEMMA WorkerUntouched ==
    ASSUME WorkerInv, ProtocolInv, UNCHANGED workerVars PROVE WorkerInv' /\ ProtocolInv'
  BY DEF workerVars, WorkerInv, WorkerTypeOK, IdsLeft, ProtocolInv, OneInFlight, HandedOut,
     CancelsAreSettled, AckedHasLeft

\* Nobody waits for an acknowledgement elsewhere in the loop.
LEMMA NothingHanded ==
    ASSUME IInv, BrokerUp, pc \notin {"ackwait", "ackfail"}
    PROVE  /\ handing = NoHanding /\ Supervised /\ brokerFds = Range(pending)
           /\ Queue(pending, Req) /\ pending \in Seq(Req)
           /\ \A p \in Pid : inbox[p] = NoReq /\ ackbox[p] = NoReq /\ pstate[p] # "ack"
           /\ ready \subseteq {"status", "cancel", "dispatch"}
<1>1. Supervised /\ handing = NoHanding /\ ready \subseteq {"status", "cancel", "dispatch"}
  BY DEF IInv, PoolInv, PoolTypeOK, Supervised, HandingIsExact, HandedSlot
<1>2. brokerFds = Range(pending) /\ Queue(pending, Req) /\ pending \in Seq(Req)
  BY <1>1 DEF Supervised, FdsAreWaiting, QueuedOnce, Queue
<1>3. \A p \in Pid : inbox[p] = NoReq /\ ackbox[p] = NoReq /\ pstate[p] # "ack"
  BY <1>1 DEF Supervised, HandingIsExact, HandedChild, Handed
<1> QED
  BY <1>1, <1>2, <1>3

LEMMA ReapPreserves == ASSUME IInv, BrokerReap PROVE IInv'
<1>1. PICK s \in Slot : slots[s].pid # NoPid /\ Respawn(s, brokerFds, "reap")
  BY DEF BrokerReap
<1>2. /\ pc = "reap" /\ BrokerUp
      /\ UNCHANGED <<workerVars, stopping, pending, earlyCancels, greatestDispatch, ready,
                     handing, statusQ, crashes, runs>>
  BY DEF BrokerReap, BrokerUp
<1>3. /\ handing = NoHanding /\ brokerFds = Range(pending) /\ Queue(pending, Req)
      /\ ready \subseteq {"status", "cancel", "dispatch"}
  BY <1>2, NothingHanded
<1>4. UNCHANGED <<req, dispatchQ, frames>>
  BY <1>2 DEF workerVars
<1>5. PoolInv' /\ pc' \in {"reap", "exit"}
  BY <1>1, <1>2, <1>3, <1>4, RespawnPreserves
<1> QED
  BY <1>2, <1>5, WorkerUntouched DEF IInv, ReadyIsReadable

\* The head of the queue is handed to an idle child that is there ...
LEMMA HandPreserves ==
    ASSUME IInv, BrokerAssign, handing' # handing
    PROVE  IInv'
<1> DEFINE id == Head(pending)
<1> USE DEF IInv
<1>1. PICK s \in Slot :
          /\ FirstIdle(s) /\ pstate[slots[s].pid] \in Live
          /\ inbox' = [inbox EXCEPT ![slots[s].pid] = id]
          /\ handing' = [slot |-> s, id |-> id]
          /\ pc' = "ackwait"
          /\ UNCHANGED <<slots, pstate, preq, served, ackbox, childFds, brokerFds, nextPid>>
  BY DEF BrokerAssign
<1>2. /\ pc = "assign" /\ BrokerUp /\ pending # << >> /\ pending' = Tail(pending)
      /\ UNCHANGED <<workerVars, stopping, earlyCancels, greatestDispatch, ready, statusQ, crashes,
                     runs>>
  BY DEF BrokerAssign, BrokerUp
<1>3. /\ handing = NoHanding /\ Supervised /\ brokerFds = Range(pending)
      /\ Queue(pending, Req) /\ pending \in Seq(Req)
      /\ \A p \in Pid : inbox[p] = NoReq /\ ackbox[p] = NoReq /\ pstate[p] # "ack"
  BY <1>2, NothingHanded
<1> DEFINE child == slots[s].pid
<1>4. /\ child \in Pid /\ child # NoPid /\ slots[s].busy = NoReq /\ pstate[child] = "recv"
  <2>1. child \in Pid /\ child # NoPid /\ slots[s].busy = NoReq /\ ~slots[s].retiring
    BY <1>1 DEF FirstIdle, Assignable, PoolInv, PoolTypeOK, SlotRecord
  <2>2. pstate[child] \in {"recv", "quit", "zombie"} /\ pstate[child] # "quit"
    BY <1>3, <2>1 DEF Supervised, IdleIsIdle, Handed
  <2> QED
    BY <1>1, <2>1, <2>2 DEF Live
<1>5. /\ Queue(pending', Req) /\ pending' \in Seq(Req)
      /\ Range(pending') = Range(pending) \ {id}
      /\ id \in Range(pending) /\ id \in Req
  BY <1>2, <1>3, TailOfQueue, QueueElements DEF Queue
<1>6. handing' = [slot |-> s, id |-> id] /\ handing'.slot = s /\ handing'.id = id
      /\ handing' # NoHanding
  BY <1>1, <1>5 DEF NoHanding, Req, NoReq
<1> HIDE DEF id, child
<1>7. /\ \A p \in Pid : inbox'[p] = IF p = child THEN id ELSE NoReq
      /\ inbox' \in [Pid -> Req \cup {NoReq}]
      /\ UNCHANGED <<pstate, preq, ackbox>>
  BY <1>1, <1>3, <1>4, <1>5 DEF PoolInv, PoolTypeOK, child
<1>8. WorkerInv' /\ ProtocolInv' /\ ReadyIsReadable'
  BY <1>1, <1>2, WorkerUntouched DEF ReadyIsReadable
<1>9. PoolTypeOK'
  <2>1. handing' \in [slot : Slot, id : Req]
    BY <1>5, <1>6
  <2> QED
    BY <1>1, <1>2, <1>5, <1>7, <2>1 DEF PoolInv, PoolTypeOK
<1>10. /\ req[id] # "new" /\ runs[id] = 0 /\ id \notin Range(dispatchQ)
       /\ \A q \in Pid : preq[q] # id
  BY <1>3, <1>5 DEF Supervised, QueuedIsFresh, QueuedOnce
<1>11. ChildrenAreSound' /\ EveryChildHasASlot'
  BY <1>1, <1>2, <1>4, <1>7 DEF PoolInv, ChildrenAreSound, ChildIsSound, EveryChildHasASlot
<1>12. (UsedIsHandedOut /\ FramesAreTheRunners /\ StartedAtMostOnce /\ CancelFollowsDispatch)'
  BY <1>1, <1>2, <1>7, <1>10 DEF PoolInv, UsedIsHandedOut, FramesAreTheRunners,
     StartedAtMostOnce, CancelFollowsDispatch, workerVars, Req, NoReq
<1>13. UNCHANGED <<req, dispatchQ, runs, slots, stopping, greatestDispatch, statusQ, brokerFds>>
  BY <1>1, <1>2 DEF workerVars
<1>14. \A p \in Pid : Handed(p)' <=> p = child
  BY <1>6, <1>13 DEF Handed, child
<1>15. HandingIsExact'
  <2>1. HandedSlot'
    BY <1>1, <1>4, <1>5, <1>6, <1>10, <1>13 DEF HandedSlot, child
  <2>2. ASSUME NEW p \in Pid PROVE HandedChild(p)'
    BY <1>3, <1>6, <1>7, <1>10, <1>13, <1>14 DEF HandedChild
  <2> QED
    BY <2>1, <2>2 DEF HandingIsExact
<1>16. (QueuedOnce /\ QueuedIsFresh /\ FdsAreWaiting /\ KnownIsGreatest /\ OneHandlerEach)'
  BY <1>1, <1>2, <1>3, <1>5, <1>6, <1>7, <1>13 DEF Supervised, QueuedOnce, QueuedIsFresh,
     FdsAreWaiting, KnownIsGreatest, OneHandlerEach
<1>17. StatusIsOver'
  BY <1>3, <1>7, <1>13 DEF Supervised, StatusIsOver
<1>18. IdleIsIdle' /\ SlotsOwnTheirChildren'
  BY <1>2, <1>3, <1>7, <1>13 DEF Supervised, IdleIsIdle, Handed, SlotsOwnTheirChildren
<1> QED
  BY <1>8, <1>9, <1>11, <1>12, <1>15, <1>16, <1>17, <1>18 DEF PoolInv, Supervised

\* ... and refused if the child is gone.
LEMMA RefusePreserves ==
    ASSUME IInv, BrokerAssign, handing' = handing
    PROVE  IInv'
<1> DEFINE id == Head(pending)
<1>1. /\ pc = "assign" /\ BrokerUp /\ pending # << >> /\ pending' = Tail(pending)
      /\ UNCHANGED <<workerVars, stopping, earlyCancels, greatestDispatch, ready, statusQ, crashes,
                     runs>>
  BY DEF BrokerAssign, BrokerUp
<1>2. /\ handing = NoHanding /\ brokerFds = Range(pending) /\ Queue(pending, Req)
      /\ ready \subseteq {"status", "cancel", "dispatch"}
  BY <1>1, NothingHanded
<1>3. /\ Queue(pending', Req) /\ Range(pending') = Range(pending) \ {id}
      /\ id \in Range(pending) /\ id \in Req
  BY <1>1, <1>2, TailOfQueue, QueueElements
<1>4. PICK s \in Slot : FirstIdle(s) /\ Respawn(s, brokerFds \ {id}, "assign")
  <2>1. PICK s \in Slot :
            /\ FirstIdle(s)
            /\ \/ handing' = [slot |-> s, id |-> id]
               \/ Respawn(s, brokerFds \ {id}, "assign")
    BY DEF BrokerAssign
  <2>2. [slot |-> s, id |-> id] # NoHanding
    BY <1>3 DEF NoHanding, Req, NoReq
  <2> QED
    BY <1>2, <2>1, <2>2
<1>5. slots[s].pid # NoPid
  BY <1>4 DEF FirstIdle, Assignable
<1>6. UNCHANGED <<req, dispatchQ, frames>> /\ pc # "exit"
  BY <1>1 DEF workerVars
<1> HIDE DEF id
<1>7. PoolInv' /\ pc' \in {"assign", "exit"}
  BY <1>1, <1>2, <1>3, <1>4, <1>5, <1>6, RespawnPreserves
<1> QED
  BY <1>1, <1>7, WorkerUntouched DEF IInv, ReadyIsReadable

\* The broker gives up on a child it handed a dispatch to.
LEMMA AckFailsPreserves == ASSUME IInv, BrokerAckFails PROVE IInv'
<1>1. /\ pc \in {"ackwait", "ackfail"} /\ BrokerUp /\ pc # "exit"
      /\ Respawn(handing.slot, brokerFds \ {handing.id}, "assign")
      /\ handing' = NoHanding
      /\ UNCHANGED <<workerVars, stopping, pending, earlyCancels, greatestDispatch, ready, statusQ,
                     crashes, runs>>
  BY DEF BrokerAckFails, BrokerUp
<1>2. Supervised /\ handing # NoHanding
  BY <1>1 DEF IInv, PoolInv, Supervised, HandingIsExact, HandedSlot
<1>3. handing.slot \in Slot /\ handing.id \in Req /\ ready \subseteq {"status", "cancel", "dispatch"}
  BY <1>2 DEF IInv, PoolInv, PoolTypeOK
<1>4. /\ slots[handing.slot].pid # NoPid /\ handing.id \notin Range(pending)
      /\ Queue(pending, Req)
  BY <1>2 DEF Supervised, HandingIsExact, HandedSlot, QueuedOnce
<1>5. brokerFds \ {handing.id} = Range(pending)
  BY <1>2, <1>4 DEF Supervised, FdsAreWaiting
<1>6. UNCHANGED <<req, dispatchQ, frames>>
  BY <1>1 DEF workerVars
<1>7. PoolInv' /\ pc' \in {"assign", "exit"}
  BY <1>1, <1>3, <1>4, <1>5, <1>6, RespawnPreserves
<1> QED
  BY <1>1, <1>7, WorkerUntouched DEF IInv, ReadyIsReadable

\* The acknowledgement makes the slot busy with the request of its child.
LEMMA AckArrivesPreserves == ASSUME IInv, BrokerAckArrives PROVE IInv'
<1> DEFINE child == slots[handing.slot].pid
           id == handing.id
           s == handing.slot
<1> USE DEF IInv
<1>1. /\ pc = "ackwait" /\ BrokerUp /\ ackbox[child] = id
      /\ ackbox' = [ackbox EXCEPT ![child] = NoReq]
      /\ slots' = [slots EXCEPT ![s].busy = id]
      /\ brokerFds' = brokerFds \ {id}
      /\ handing' = NoHanding /\ pc' = "assign"
      /\ UNCHANGED <<workerVars, stopping, pending, earlyCancels, greatestDispatch, ready, pstate,
                     preq, served, inbox, childFds, statusQ, nextPid, crashes, runs>>
  BY DEF BrokerAckArrives, BrokerUp
<1>2. Supervised /\ handing # NoHanding
  BY <1>1 DEF PoolInv, Supervised, HandingIsExact, HandedSlot
<1>3. /\ s \in Slot /\ id \in Req /\ id # NoReq /\ child \in Pid /\ child # NoPid
      /\ slots[s] \in SlotRecord /\ slots \in [Slot -> SlotRecord]
  <2>1. s \in Slot /\ id \in Req /\ slots \in [Slot -> SlotRecord]
    BY <1>2 DEF PoolInv, PoolTypeOK
  <2>2. child # NoPid
    BY <1>2 DEF Supervised, HandingIsExact, HandedSlot
  <2> QED
    BY <2>1, <2>2 DEF SlotRecord, Req, NoReq
<1>4. /\ Handed(child) /\ preq[child] = id /\ id \notin Range(pending)
      /\ \A p \in Pid : Handed(p) => p = child
      /\ \A t \in Slot \ {s} : slots[t].pid # child
  BY <1>1, <1>2, <1>3
  DEF Supervised, HandingIsExact, HandedSlot, HandedChild, Handed, SlotsOwnTheirChildren
<1>5. \A p \in Pid : inbox[p] = NoReq /\ pstate[p] # "ack" /\ ackbox'[p] = NoReq
  <2>1. ASSUME NEW p \in Pid, p # child PROVE inbox[p] = NoReq /\ pstate[p] # "ack" /\ ackbox[p] = NoReq
    BY <1>2, <1>4, <2>1 DEF Supervised, HandingIsExact, HandedChild
  <2>2. inbox[child] = NoReq /\ pstate[child] # "ack"
    BY <1>1, <1>2, <1>3 DEF Supervised, HandingIsExact, HandedChild
  <2> QED
    BY <1>1, <1>3, <2>1, <2>2 DEF PoolInv, PoolTypeOK
<1> HIDE DEF child, id, s
<1>6. /\ \A t \in Slot : slots'[t].pid = slots[t].pid /\ slots'[t].retiring = slots[t].retiring
      /\ \A t \in Slot \ {s} : slots'[t].busy = slots[t].busy
      /\ slots'[s].busy = id /\ slots[s].pid = child
      /\ slots' \in [Slot -> SlotRecord]
  BY <1>1, <1>3 DEF SlotRecord, child, s
<1>7. WorkerInv' /\ ProtocolInv' /\ ReadyIsReadable'
  BY <1>1, WorkerUntouched DEF ReadyIsReadable
<1>8. PoolTypeOK'
  <2>1. ackbox' \in [Pid -> Req \cup {NoReq}]
    BY <1>1 DEF PoolInv, PoolTypeOK
  <2> QED
    BY <1>1, <1>6, <2>1 DEF PoolInv, PoolTypeOK
<1>9. ChildrenAreSound' /\ EveryChildHasASlot'
  BY <1>1, <1>6 DEF PoolInv, ChildrenAreSound, ChildIsSound, EveryChildHasASlot
<1>10. (UsedIsHandedOut /\ FramesAreTheRunners /\ StartedAtMostOnce /\ CancelFollowsDispatch)'
  BY <1>1 DEF PoolInv, UsedIsHandedOut, FramesAreTheRunners,
     StartedAtMostOnce, CancelFollowsDispatch, workerVars
<1>11. UNCHANGED <<req, dispatchQ>>
  BY <1>1 DEF workerVars
<1>12. HandingIsExact'
  BY <1>1, <1>5 DEF HandingIsExact, HandedSlot, HandedChild
<1>13. (QueuedOnce /\ QueuedIsFresh /\ FdsAreWaiting /\ KnownIsGreatest /\ OneHandlerEach)'
  BY <1>1, <1>2, <1>4, <1>11 DEF Supervised, QueuedOnce, QueuedIsFresh, FdsAreWaiting,
     KnownIsGreatest, OneHandlerEach, id
<1>14. StatusIsOver'
  BY <1>1, <1>2 DEF Supervised, StatusIsOver
<1>15. IdleIsIdle'
  <2>1. ASSUME NEW t \in Slot, slots'[t].pid # NoPid, slots'[t].busy = NoReq
        PROVE  /\ pstate[slots[t].pid] \in {"recv", "quit", "zombie"}
               /\ pstate[slots[t].pid] = "quit" => slots[t].retiring
    <3>1. t # s /\ slots[t].pid # NoPid /\ slots[t].busy = NoReq /\ slots[t].pid \in Pid
      BY <1>3, <1>6, <2>1 DEF SlotRecord
    <3>2. ~Handed(slots[t].pid)
      BY <1>4, <3>1
    <3> QED
      BY <1>2, <3>1, <3>2 DEF Supervised, IdleIsIdle
  <2> QED
    BY <1>1, <1>6, <2>1 DEF IdleIsIdle
<1>16. SlotsOwnTheirChildren'
  BY <1>1, <1>2, <1>4, <1>6 DEF Supervised, SlotsOwnTheirChildren
<1> QED
  BY <1>7, <1>8, <1>9, <1>10, <1>12, <1>13, <1>14, <1>15, <1>16 DEF PoolInv, Supervised

\* A completion frees the slot of the request it names, and only then.
LEMMA StatusPreserves == ASSUME IInv, BrokerStatus PROVE IInv'
<1> DEFINE st == Head(statusQ)
<1> USE DEF IInv
<1>1. /\ pc = "status" /\ BrokerUp
      /\ slots' = [s \in Slot |-> Completed(slots[s], st)]
      /\ statusQ' = Tail(statusQ) /\ statusQ # << >>
      /\ ready' = ready \ {"status"} /\ pc' = NextReady(ready')
      /\ UNCHANGED <<workerVars, stopping, pending, earlyCancels, greatestDispatch, handing,
                     brokerFds, childVars, nextPid, crashes, runs>>
  BY DEF BrokerStatus, BrokerUp, ReadyIsReadable
<1>2. /\ Supervised /\ handing = NoHanding /\ ready \subseteq {"status", "cancel", "dispatch"}
      /\ \A p \in Pid : inbox[p] = NoReq /\ ackbox[p] = NoReq /\ pstate[p] # "ack"
  BY <1>1, NothingHanded
<1>3. /\ st \in Range(statusQ) /\ st \in StatusRecord
      /\ Tail(statusQ) \in Seq(StatusRecord) /\ Range(Tail(statusQ)) \subseteq Range(statusQ)
  <2>1. statusQ \in Seq(StatusRecord)
    BY DEF PoolInv, PoolTypeOK, StatusRecord
  <2> QED
    BY <1>1, <2>1, RangeOfTail
<1>4. st.id \in Req /\ st.id # NoReq /\ st.retiring \in BOOLEAN
  BY <1>3 DEF StatusRecord, Req, NoReq
<1> HIDE DEF st
<1>5. pc' \in {"top", "cancel", "dispatch", "status"}
  BY <1>1, NextReadyIsReady
<1>6. WorkerInv' /\ ProtocolInv' /\ ReadyIsReadable'
  <2>1. ReadyIsReadable'
    BY <1>1, ServedIsReadable DEF workerVars
  <2> QED
    BY <1>1, <2>1, WorkerUntouched
<1>7. \A s \in Slot : /\ slots'[s].pid = slots[s].pid /\ slots'[s] \in SlotRecord
                      /\ \/ slots'[s] = slots[s]
                         \/ /\ slots[s].pid \in Pid /\ slots[s].busy = st.id
                            /\ slots'[s].busy = NoReq /\ slots'[s].retiring = st.retiring
  <2>1. ASSUME NEW s \in Slot
        PROVE  /\ Completed(slots[s], st).pid = slots[s].pid /\ Completed(slots[s], st) \in SlotRecord
               /\ \/ Completed(slots[s], st) = slots[s]
                  \/ /\ slots[s].pid \in Pid /\ slots[s].busy = st.id
                     /\ Completed(slots[s], st).busy = NoReq
                     /\ Completed(slots[s], st).retiring = st.retiring
    <3>1. slots[s] \in SlotRecord
      BY DEF PoolInv, PoolTypeOK
    <3>2. CASE Serving(slots[s], st.id)
      <4>1. /\ Completed(slots[s], st) = [slots[s] EXCEPT !.busy = NoReq, !.retiring = st.retiring]
            /\ slots[s].pid \in Pid /\ slots[s].busy = st.id
        BY <3>1, <3>2 DEF Completed, Serving, SlotRecord
      <4> QED
        BY <1>4, <3>1, <4>1 DEF SlotRecord
    <3>3. CASE ~Serving(slots[s], st.id)
      BY <3>1, <3>3 DEF Completed
    <3> QED
      BY <3>2, <3>3
  <2> QED
    BY <1>1, <2>1
<1>8. PoolTypeOK'
  <2>1. slots' \in [Slot -> SlotRecord]
    BY <1>1, <1>7
  <2>2. ready' \subseteq {"status", "cancel", "dispatch"}
    BY <1>1, <1>2
  <2> QED
    BY <1>1, <1>3, <1>5, <2>1, <2>2 DEF PoolInv, PoolTypeOK, StatusRecord, childVars
<1>9. UNCHANGED <<stopping, pending, greatestDispatch, handing, brokerFds, pstate, preq, served,
                  inbox, ackbox, childFds, nextPid, runs, req, frames, dispatchQ, earlyCancels>>
  BY <1>1 DEF childVars, workerVars
<1>10. ChildrenAreSound' /\ EveryChildHasASlot'
  <2>1. ChildrenAreSound'
    BY <1>9 DEF PoolInv, ChildrenAreSound, ChildIsSound
  <2>2. EveryChildHasASlot'
    BY <1>7, <1>9 DEF PoolInv, EveryChildHasASlot
  <2> QED
    BY <2>1, <2>2
<1>11. (UsedIsHandedOut /\ FramesAreTheRunners /\ StartedAtMostOnce /\ CancelFollowsDispatch)'
  BY <1>9 DEF PoolInv, UsedIsHandedOut, FramesAreTheRunners, StartedAtMostOnce,
     CancelFollowsDispatch
<1>12. HandingIsExact'
  BY <1>2, <1>5, <1>9 DEF HandingIsExact, HandedSlot, HandedChild
<1>13. (QueuedOnce /\ QueuedIsFresh /\ FdsAreWaiting /\ KnownIsGreatest /\ OneHandlerEach)'
  BY <1>1, <1>2, <1>9 DEF Supervised, QueuedOnce, QueuedIsFresh, FdsAreWaiting,
     KnownIsGreatest, OneHandlerEach
<1>14. StatusIsOver'
  BY <1>1, <1>2, <1>3, <1>9 DEF Supervised, StatusIsOver
<1>15. SlotsOwnTheirChildren'
  BY <1>1, <1>2, <1>7, <1>9 DEF Supervised, SlotsOwnTheirChildren
<1>16. IdleIsIdle'
  <2>1. ASSUME NEW s \in Slot, slots'[s].pid # NoPid, slots'[s].busy = NoReq
        PROVE  /\ pstate[slots[s].pid] \in {"recv", "quit", "zombie"}
               /\ pstate[slots[s].pid] = "quit" => slots'[s].retiring
    <3>1. CASE slots'[s] = slots[s]
      BY <1>2, <2>1, <3>1 DEF Supervised, IdleIsIdle, Handed
    <3>2. CASE slots'[s] # slots[s]
      <4>1. slots[s].pid \in Pid /\ slots[s].busy = st.id /\ slots'[s].retiring = st.retiring
        BY <1>7, <3>2
      <4>2. preq[slots[s].pid] = st.id /\ pstate[slots[s].pid] \notin {"unborn", "reaped"}
        BY <1>1, <1>2, <1>4, <1>7, <2>1, <4>1 DEF Supervised, SlotsOwnTheirChildren
      <4>3. /\ pstate[slots[s].pid] \notin {"ack", "run", "report"}
            /\ pstate[slots[s].pid] = "quit" => st.retiring
        BY <1>2, <1>3, <4>1, <4>2 DEF Supervised, StatusIsOver
      <4>4. pstate[slots[s].pid] \in {"unborn", "zombie", "reaped"} \cup Live
        BY <4>1 DEF PoolInv, PoolTypeOK
      <4> QED
        BY <4>1, <4>2, <4>3, <4>4 DEF Live
    <3> QED
      BY <3>1, <3>2
  <2> QED
    BY <1>7, <1>9, <2>1 DEF IdleIsIdle
<1> QED
  BY <1>6, <1>8, <1>10, <1>11, <1>12, <1>13, <1>14, <1>15, <1>16 DEF PoolInv, Supervised

\* A cancellation is of a request that nobody waits for and that has left the
\* dispatch socket: it kills the child that has it, or takes it out of the
\* queue, or finds it over.
LEMMA CancelPreserves == ASSUME IInv, BrokerCancel PROVE IInv'
<1> DEFINE id == Head(cancelQ)
           next == NextReady(ready')
<1> USE DEF IInv
<1>1. /\ pc = "cancel" /\ BrokerUp /\ pc # "exit"
      /\ ready' = ready \ {"cancel"}
      /\ CancelBusy(id, next) \/ CancelQueued(id, next) \/ CancelUnknown(id, next)
      /\ cancelQ' = Tail(cancelQ) /\ cancelQ # << >>
      /\ UNCHANGED <<worker, waiting, nextId, req, dispatching, workerFds, cancels, dispatchQ,
                     ackQ, frames, stopping, greatestDispatch, handing, statusQ, crashes, runs>>
  BY DEF BrokerCancel, BrokerUp, ReadyIsReadable
<1>2. /\ Supervised /\ handing = NoHanding /\ brokerFds = Range(pending)
      /\ Queue(pending, Req) /\ pending \in Seq(Req)
      /\ ready' \subseteq {"status", "cancel", "dispatch"}
      /\ \A p \in Pid : inbox[p] = NoReq /\ ackbox[p] = NoReq /\ pstate[p] # "ack"
  BY <1>1, NothingHanded
<1>3. id \in Range(cancelQ) /\ id \in Req /\ Tail(cancelQ) \in Seq(Req)
  BY <1>1, RangeOfTail DEF WorkerInv, WorkerTypeOK
<1>4. next \in {"top", "cancel", "dispatch", "status"} /\ (next # "top" => next \in ready')
  BY NextReadyIsReady
<1>5. WorkerInv' /\ ProtocolInv'
  <2>1. WorkerInv'
    BY <1>1, <1>3 DEF WorkerInv, WorkerTypeOK, IdsLeft
  <2>2. ProtocolInv'
    BY <1>1, BrokerProtocol
  <2> QED
    BY <2>1, <2>2
<1>6. pc' = next => ReadyIsReadable'
  BY <1>1, ServedIsReadable
<1>7. UNCHANGED <<stopping, handing, greatestDispatch, statusQ, crashes, runs, req, frames,
                  dispatchQ>>
  BY <1>1
<1> HIDE DEF id, next
<1>8. CASE CancelBusy(id, next)
  <2>1. PICK s \in Slot : Serving(slots[s], id) /\ Respawn(s, brokerFds, next)
    BY <1>8 DEF CancelBusy
  <2>2. slots[s].pid # NoPid /\ pending' = pending /\ earlyCancels' = earlyCancels
    BY <1>8, <2>1 DEF CancelBusy, Serving
  <2>3. PoolInv' /\ pc' \in {next, "exit"}
    BY <1>1, <1>2, <1>4, <1>7, <2>1, <2>2, RespawnPreserves
  <2>4. pc' = "exit" => ReadyIsReadable'
    BY DEF ReadyIsReadable
  <2> QED
    BY <1>5, <1>6, <2>3, <2>4
<1>9. ASSUME /\ Queue(pending', Req) /\ Range(pending') \subseteq Range(pending)
             /\ brokerFds' = Range(pending')
             /\ pc' = next /\ earlyCancels' = earlyCancels
             /\ UNCHANGED <<slots, childVars, nextPid>>
      PROVE  IInv'
  <2>1. pending' \in Seq(Req) /\ brokerFds' \subseteq Req
    BY <1>9, QueueElements DEF Queue
  <2>2. PoolTypeOK'
    BY <1>1, <1>2, <1>4, <1>9, <2>1 DEF PoolInv, PoolTypeOK, childVars
  <2>3. ChildrenAreSound' /\ EveryChildHasASlot'
    BY <1>7, <1>9 DEF PoolInv, ChildrenAreSound, ChildIsSound, EveryChildHasASlot, childVars
  <2>4. (UsedIsHandedOut /\ FramesAreTheRunners /\ StartedAtMostOnce /\ CancelFollowsDispatch)'
    <3>1. brokerFds' \subseteq brokerFds
      BY <1>2, <1>9
    <3> QED
      BY <1>7, <1>9, <3>1 DEF PoolInv, UsedIsHandedOut, FramesAreTheRunners, StartedAtMostOnce,
         CancelFollowsDispatch, childVars
  <2>5. HandingIsExact'
    BY <1>2, <1>4, <1>7, <1>9 DEF HandingIsExact, HandedSlot, HandedChild, childVars
  <2>6. (QueuedOnce /\ QueuedIsFresh /\ FdsAreWaiting /\ KnownIsGreatest /\ OneHandlerEach)'
    BY <1>1, <1>2, <1>7, <1>9 DEF Supervised, QueuedOnce, QueuedIsFresh, FdsAreWaiting,
       KnownIsGreatest, OneHandlerEach, childVars
  <2>7. (StatusIsOver /\ IdleIsIdle /\ SlotsOwnTheirChildren)'
    BY <1>1, <1>2, <1>7, <1>9 DEF Supervised, StatusIsOver, IdleIsIdle, Handed,
       SlotsOwnTheirChildren, childVars
  <2> QED
    BY <1>5, <1>6, <1>9, <2>2, <2>3, <2>4, <2>5, <2>6, <2>7 DEF PoolInv, Supervised
<1>10. CASE CancelQueued(id, next)
  <2>1. PICK i \in 1 .. Len(pending) : /\ pending[i] = id
                                       /\ pending' = RemoveAt(pending, i)
                                       /\ brokerFds' = brokerFds \ {id}
    BY <1>10 DEF CancelQueued
  <2>2. Queue(pending', Req) /\ Range(pending') = Range(pending) \ {id}
    BY <1>2, <2>1, RemoveFromQueue
  <2> QED
    BY <1>2, <1>9, <1>10, <2>1, <2>2 DEF CancelQueued
<1>11. CASE CancelUnknown(id, next)
  <2>1. req[id] # "new" /\ id \notin Range(dispatchQ)
    BY <1>3 DEF ProtocolInv, CancelsAreSettled, AckedHasLeft
  <2>2. id <= greatestDispatch
    BY <1>1, <1>2, <1>3, <2>1 DEF Supervised, KnownIsGreatest
  <2>3. ~(id > greatestDispatch)
    BY <1>3, <2>2 DEF PoolInv, PoolTypeOK, Req, NoReq
  <2> QED
    BY <1>2, <1>9, <1>11, <2>3 DEF CancelUnknown
<1> QED
  BY <1>1, <1>8, <1>10, <1>11 DEF id, next

\* A datagram moves from the socket to the queue, or is dropped.
LEMMA DispatchPreserves == ASSUME IInv, BrokerDispatch PROVE IInv'
<1> DEFINE id == Head(dispatchQ)
<1> USE DEF IInv
<1>1. /\ pc = "dispatch" /\ BrokerUp /\ pc' \in {"top", "exit"} /\ ready' = {}
      /\ dispatchQ # << >> /\ dispatchQ' = Tail(dispatchQ)
      /\ \/ worker = "up" /\ pc' = "top" /\ Enqueue(id)
         \/ /\ worker = "gone" /\ pc' = "exit"
            /\ UNCHANGED <<ackQ, greatestDispatch, earlyCancels, pending, brokerFds>>
      /\ UNCHANGED <<worker, waiting, nextId, req, dispatching, workerFds, cancels, cancelQ,
                     frames, stopping, slots, handing, childVars, statusQ, nextPid, crashes,
                     runs>>
  BY DEF BrokerDispatch, BrokerUp, ReadyIsReadable
<1>2. /\ Supervised /\ handing = NoHanding /\ brokerFds = Range(pending)
      /\ Queue(pending, Req) /\ pending \in Seq(Req)
      /\ \A p \in Pid : inbox[p] = NoReq /\ ackbox[p] = NoReq /\ pstate[p] # "ack"
  BY <1>1, NothingHanded
<1>3. /\ Queue(dispatchQ', Req) /\ dispatchQ' \in Seq(Req)
      /\ Range(dispatchQ') = Range(dispatchQ) \ {id}
      /\ id \in Range(dispatchQ) /\ id \in Req
  BY <1>1, <1>2, TailOfQueue, QueueElements DEF Supervised, QueuedOnce, Queue
<1>4. /\ id \notin Range(pending) /\ req[id] # "new" /\ runs[id] = 0
      /\ \A p \in Pid : preq[p] # id
  BY <1>2, <1>3 DEF Supervised, QueuedOnce, QueuedIsFresh
<1> HIDE DEF id
<1>5. /\ Queue(Append(pending, id), Req)
      /\ Range(Append(pending, id)) = Range(pending) \cup {id}
  <2>1. Queue(pending, Req) /\ id \notin Range(pending) /\ id \in Req
    BY <1>2, <1>3, <1>4
  <2> QED
    BY <2>1, AppendToQueue
<1>6. Append(ackQ, id) \in Seq(Req)
  BY <1>3, AppendProperties DEF WorkerInv, WorkerTypeOK
<1>7. \/ /\ pc' = "exit" /\ worker = "gone"
         /\ UNCHANGED <<ackQ, greatestDispatch, earlyCancels, pending, brokerFds>>
      \/ /\ pc' = "top" /\ ackQ' = Append(ackQ, id) /\ earlyCancels' = earlyCancels
         /\ pending' = Append(pending, id) /\ brokerFds' = brokerFds \cup {id}
         /\ greatestDispatch' \in {greatestDispatch, id}
         /\ greatestDispatch <= greatestDispatch' /\ id <= greatestDispatch'
  <2>1. earlyCancels = {}
    BY DEF PoolInv, CancelFollowsDispatch
  <2>2. greatestDispatch \in Nat /\ id \in Nat
    BY <1>3 DEF PoolInv, PoolTypeOK, Req, NoReq
  <2> QED
    BY <1>1, <2>1, <2>2 DEF Enqueue
<1>8. /\ Queue(pending', Req) /\ pending' \in Seq(Req) /\ brokerFds' = Range(pending')
      /\ \A r \in Range(pending') : r \in Range(pending) \/ r = id
      /\ earlyCancels' = earlyCancels
  <2>1. CASE pending' = pending
    BY <1>2, <1>7, <2>1, <1>5
  <2>2. CASE pending' = Append(pending, id)
    <3>1. Queue(pending', Req) /\ Range(pending') = Range(pending) \cup {id}
      BY <1>5, <2>2
    <3>2. pending' \in Seq(Req)
      BY <3>1 DEF Queue
    <3> QED
      BY <1>2, <1>3, <1>7, <2>2, <3>1, <3>2
  <2> QED
    BY <1>7, <2>1, <2>2
<1>9. WorkerInv'
  BY <1>1, <1>3, <1>6, <1>7 DEF WorkerInv, WorkerTypeOK, IdsLeft
<1>10. ProtocolInv'
  <2>1. dispatchQ # << >> /\ dispatchQ' = Tail(dispatchQ)
        /\ (ackQ' = Append(ackQ, Head(dispatchQ)) \/ worker = "gone")
        /\ UNCHANGED <<worker, nextId, req, dispatching, workerFds, cancels, cancelQ>>
    BY <1>1, <1>7 DEF id
  <2> QED
    BY <2>1, BrokerProtocol
<1>11. ReadyIsReadable'
  BY <1>1 DEF ReadyIsReadable
<1>12. PoolTypeOK'
  <2>1. greatestDispatch' \in Req \cup {NoReq} /\ brokerFds' \subseteq Req
    BY <1>3, <1>7, <1>8, QueueElements DEF PoolInv, PoolTypeOK
  <2> QED
    BY <1>1, <1>8, <2>1 DEF PoolInv, PoolTypeOK, childVars
<1>13. ChildrenAreSound' /\ EveryChildHasASlot'
  BY <1>1 DEF PoolInv, ChildrenAreSound, ChildIsSound, EveryChildHasASlot, childVars
<1>14. (UsedIsHandedOut /\ FramesAreTheRunners /\ StartedAtMostOnce /\ CancelFollowsDispatch)'
  BY <1>1, <1>4, <1>7 DEF PoolInv, UsedIsHandedOut, FramesAreTheRunners, StartedAtMostOnce,
     CancelFollowsDispatch, childVars
<1>15. HandingIsExact'
  BY <1>1, <1>2 DEF HandingIsExact, HandedSlot, HandedChild, childVars
<1>16. QueuedOnce'
  BY <1>2, <1>3, <1>8 DEF Supervised, QueuedOnce
<1>17. QueuedIsFresh'
  BY <1>1, <1>2, <1>3, <1>4, <1>8 DEF Supervised, QueuedIsFresh, childVars
<1>18. FdsAreWaiting'
  BY <1>8 DEF FdsAreWaiting
<1>19. KnownIsGreatest'
  <2>1. greatestDispatch \in Nat /\ greatestDispatch' \in Nat /\ id \in Nat
    BY <1>3, <1>12 DEF PoolInv, PoolTypeOK, Req, NoReq
  <2>2. ASSUME NEW r \in Req, req'[r] # "new", r \notin Range(dispatchQ'), pc' # "exit"
        PROVE  r <= greatestDispatch'
    <3>1. r = id \/ r <= greatestDispatch
      BY <1>1, <1>2, <1>3, <2>2 DEF Supervised, KnownIsGreatest
    <3> QED
      BY <1>7, <2>1, <2>2, <3>1 DEF Req
  <2> QED
    BY <2>2 DEF KnownIsGreatest
<1>20. (OneHandlerEach /\ StatusIsOver /\ IdleIsIdle /\ SlotsOwnTheirChildren)'
  BY <1>1, <1>2 DEF Supervised, OneHandlerEach, StatusIsOver, IdleIsIdle, Handed,
     SlotsOwnTheirChildren, childVars
<1> QED
  BY <1>9, <1>10, <1>11, <1>12, <1>13, <1>14, <1>15, <1>16, <1>17, <1>18, <1>19, <1>20
  DEF PoolInv, Supervised

-----------------------------------------------------------------------------
\* The inductive step, action by action.
LEMMA NextPreserves == IInv /\ [Next]_vars => IInv'
<1> SUFFICES ASSUME IInv, [Next]_vars PROVE IInv'
  OBVIOUS
<1>1. CASE WorkerStep
  BY <1>1, WorkerStepPreserves
<1>2. CASE BrokerStep \/ BrokerSigterm \/ BrokerKilled
  BY <1>2, BookkeepingPreserves, ExitPreserves, ReapPreserves, HandPreserves, RefusePreserves,
     AckArrivesPreserves, AckFailsPreserves, StatusPreserves, CancelPreserves, DispatchPreserves
  DEF BrokerStep
<1>3. ASSUME NEW p \in Pid, ChildStep(p) \/ ChildDies(p)
      PROVE  IInv'
  BY <1>3, ExitingPreserves, ReceivePreserves, AckPreserves, HandlerPreserves, ReportPreserves
  DEF ChildStep
<1>4. CASE UNCHANGED vars
  <2>1. UNCHANGED <<workerVars, brokerVars, childVars, statusQ, nextPid, crashes, runs>>
    BY <1>4 DEF vars, poolVars
  <2>2. WorkerInv' /\ ProtocolInv'
    BY <2>1, WorkerUntouched DEF IInv
  <2>3. ReadyIsReadable' /\ PoolTypeOK'
    BY <2>1 DEF IInv, PoolInv, ReadyIsReadable, PoolTypeOK, workerVars, brokerVars, childVars
  <2>4. /\ (ChildrenAreSound /\ EveryChildHasASlot /\ UsedIsHandedOut)'
        /\ (FramesAreTheRunners /\ StartedAtMostOnce /\ CancelFollowsDispatch)'
    BY <2>1 DEF IInv, PoolInv, ChildrenAreSound, ChildIsSound, EveryChildHasASlot, UsedIsHandedOut,
       FramesAreTheRunners, StartedAtMostOnce, CancelFollowsDispatch, workerVars, brokerVars,
       childVars
  <2>5. ASSUME BrokerUp' PROVE Supervised'
    <3>1. Supervised /\ BrokerUp
      BY <2>1, <2>5 DEF IInv, PoolInv, BrokerUp, brokerVars
    <3>2. HandingIsExact'
      BY <2>1, <3>1 DEF Supervised, HandingIsExact, HandedSlot, HandedChild, Handed, workerVars,
         brokerVars, childVars
    <3>3. (QueuedOnce /\ QueuedIsFresh /\ FdsAreWaiting /\ KnownIsGreatest)'
      BY <2>1, <3>1 DEF Supervised, QueuedOnce, QueuedIsFresh, FdsAreWaiting, KnownIsGreatest,
         workerVars, brokerVars, childVars
    <3>4. (OneHandlerEach /\ StatusIsOver /\ IdleIsIdle /\ SlotsOwnTheirChildren)'
      BY <2>1, <3>1 DEF Supervised, OneHandlerEach, StatusIsOver, IdleIsIdle, Handed,
         SlotsOwnTheirChildren, brokerVars, childVars
    <3> QED
      BY <3>2, <3>3, <3>4 DEF Supervised
  <2> QED
    BY <2>2, <2>3, <2>4, <2>5 DEF IInv, PoolInv
<1> QED
  BY <1>1, <1>2, <1>3, <1>4 DEF Next

\* The invariant holds in every reachable state.
LEMMA Inductive == Spec => []IInv
  BY InitInv, NextPreserves, PTL DEF Spec

\* What the broker believes of its children is true of them: no two slots
\* name one child, no slot names a reaped one, a busy slot's child has that
\* very request, and a child whose quota is used up is not sent another;
\* whatever order completions, exits, cancellations and assignments come in
\* (process/pool.rs).
THEOREM PoolTableIsTrue == Spec => []TableIsTrue
<1>1. IInv => TableIsTrue
  <2> SUFFICES ASSUME IInv PROVE TableIsTrue
    OBVIOUS
  <2>1. TypeOK
    BY DEF IInv, WorkerInv, PoolInv, TypeOK
  <2>2. SlotsOwnTheirChildren
    BY DEF IInv, PoolInv, Supervised, SlotsOwnTheirChildren
  <2>3. RetiredIsNotReused
    BY DEF IInv, PoolInv, ChildrenAreSound, ChildIsSound, RetiredIsNotReused
  <2> QED
    BY <2>1, <2>2, <2>3 DEF TableIsTrue
<1> QED
  BY <1>1, Inductive, PTL

\* No child holds the stream of a request that is not its own, for any number
\* of requests queued when it is forked.
THEOREM PoolStreamsStayPrivate == Spec => []NoForeignStream
<1>1. IInv => NoForeignStream
  <2> SUFFICES ASSUME IInv, NEW p \in Pid, NEW r \in childFds[p] PROVE preq[p] = r
    BY DEF NoForeignStream
  <2>1. childFds[p] = IF pstate[p] \in {"ack", "run"} THEN {preq[p]} ELSE {}
    BY DEF IInv, PoolInv, ChildrenAreSound, ChildIsSound
  <2> QED
    BY <2>1
<1> QED
  BY <1>1, Inductive, PTL

\* The acknowledgement that a worker reads is for the dispatch that holds the
\* lock, whoever vanished in between.
THEOREM AcksAreTheHolders == Spec => []AckIsTheHolders
<1>1. IInv => AckIsTheHolders
  <2> SUFFICES ASSUME IInv, worker = "up" PROVE \A i \in 1 .. Len(ackQ) : ackQ[i] = dispatching
    BY DEF AckIsTheHolders
  <2>1. ackQ = << >> \/ ackQ = <<dispatching>>
    BY DEF IInv, ProtocolInv, OneInFlight
  <2> QED
    BY <2>1
<1> QED
  BY <1>1, Inductive, PTL

\* No cancellation overtakes the dispatch it cancels.
THEOREM CancelsFollowDispatches == Spec => []CancelFollowsDispatch
<1>1. IInv => CancelFollowsDispatch
  BY DEF IInv, PoolInv
<1> QED
  BY <1>1, Inductive, PTL

\* No handler is started twice for a request.
THEOREM PoolStartsOnce == Spec => []StartedAtMostOnce
<1>1. IInv => StartedAtMostOnce
  BY DEF IInv, PoolInv
<1> QED
  BY <1>1, Inductive, PTL

-----------------------------------------------------------------------------
(***************************************************************************)
(* Whom the broker kills.                                                  *)
(***************************************************************************)

\* A replacement reaps the child of its slot and no other.
LEMMA RespawnReapsOld ==
    ASSUME IInv, NEW s \in Slot, NEW fds, NEW next, Respawn(s, fds, next),
           NEW p \in Pid, Killed(p)
    PROVE  p = slots[s].pid
<1>1. pstate \in [Pid -> {"unborn", "zombie", "reaped"} \cup Live]
  BY DEF IInv, PoolInv, PoolTypeOK
<1>2. \/ pstate' = [pstate EXCEPT ![slots[s].pid] = "reaped"]
      \/ pstate' = [pstate EXCEPT ![slots[s].pid] = "reaped", ![nextPid] = "recv"]
  BY <1>1 DEF Respawn
<1> QED
  BY <1>1, <1>2 DEF Killed

\* Of the broker's steps, only four replace a child, and only a cancellation
\* or a broker that is stopping replaces one in the middle of a request.
LEMMA KilledIsCancelled ==
    ASSUME IInv, [Next]_vars, NEW p \in Pid, Killed(p), ~stopping, pc # "exit"
    PROVE  req[preq[p]] \in {"gone", "lost"}
<1>1. /\ pstate[p] \in {"ack", "run"} /\ pstate'[p] = "reaped"
      /\ pstate \in [Pid -> {"unborn", "zombie", "reaped"} \cup Live]
  BY DEF Killed, IInv, PoolInv, PoolTypeOK
<1>2. ~(WorkerStep \/ BrokerSigterm \/ BrokerKilled \/ UNCHANGED vars)
  BY <1>1 DEF WorkerStep, poolVars, vars, childVars, BrokerSigterm, BrokerKilled
<1>3. ~(BrokerTop \/ BrokerReapedAll \/ BrokerAssigned \/ BrokerAckArrives \/ BrokerPoll
        \/ BrokerStatus \/ BrokerDispatch \/ BrokerExit)
  BY <1>1 DEF BrokerTop, BrokerReapedAll, BrokerAssigned, BrokerAckArrives, BrokerPoll,
     BrokerStatus, BrokerDispatch, BrokerExit, childVars
<1>4. ASSUME NEW q \in Pid, ChildStep(q) \/ ChildDies(q) PROVE FALSE
  <2>1. \/ pstate' = pstate
        \/ \E x \in {"zombie", "ack", "run", "report", "quit", "recv"} :
              pstate' = [pstate EXCEPT ![q] = x]
    BY <1>4 DEF ChildStep, ChildReceive, ChildOrphaned, ChildAck, ChildStart, ChildWrites,
       ChildFinish, ChildIncomplete, ChildReport, ChildQuit, ChildDies, poolVars, childVars
  <2> QED
    BY <1>1, <2>1
<1>5. ~BrokerReap
  <2> SUFFICES ASSUME BrokerReap PROVE FALSE
    OBVIOUS
  <2>1. PICK s \in Slot : pstate[slots[s].pid] = "zombie" /\ Respawn(s, brokerFds, "reap")
    BY DEF BrokerReap
  <2> QED
    BY <1>1, <2>1, RespawnReapsOld
<1>6. ~BrokerAssign
  <2> SUFFICES ASSUME BrokerAssign PROVE FALSE
    OBVIOUS
  <2>1. PICK s \in Slot : /\ pstate[slots[s].pid] \notin Live
                          /\ Respawn(s, brokerFds \ {Head(pending)}, "assign")
    BY <1>1 DEF BrokerAssign
  <2> QED
    BY <1>1, <2>1, RespawnReapsOld DEF Live
<1>7. ~BrokerAckFails
  <2> SUFFICES ASSUME BrokerAckFails PROVE FALSE
    OBVIOUS
  <2>1. /\ pc # "ackfail" /\ handing # NoHanding
    BY DEF BrokerAckFails, IInv, PoolInv, BrokerUp, Supervised, HandingIsExact, HandedSlot
  <2>2. /\ handing.slot \in Slot /\ pstate[slots[handing.slot].pid] = "zombie"
        /\ Respawn(handing.slot, brokerFds \ {handing.id}, "assign")
    BY <2>1 DEF BrokerAckFails, IInv, PoolInv, PoolTypeOK
  <2> QED
    BY <1>1, <2>2, RespawnReapsOld
<1>8. CASE BrokerCancel
  <2> DEFINE id == Head(cancelQ)
  <2>1. id \in Req /\ req[id] \in {"gone", "lost"}
    <3>1. cancelQ \in Seq(Req) /\ cancelQ # << >>
      BY <1>8 DEF BrokerCancel, IInv, ReadyIsReadable, WorkerInv, WorkerTypeOK
    <3>2. id \in Range(cancelQ) /\ id \in Req
      BY <3>1, RangeOfTail
    <3> QED
      BY <3>2 DEF IInv, ProtocolInv, CancelsAreSettled
  <2>2. PICK s \in Slot, next \in {NextReady(ready')} :
            Serving(slots[s], id) /\ Respawn(s, brokerFds, next)
    BY <1>1, <1>8 DEF BrokerCancel, CancelBusy, CancelQueued, CancelUnknown, childVars
  <2>3. p = slots[s].pid /\ slots[s].pid # NoPid /\ slots[s].busy = id
    BY <2>2, RespawnReapsOld DEF Serving
  <2>4. BrokerUp /\ id # NoReq
    BY <1>8, <2>1 DEF BrokerCancel, BrokerUp, Req, NoReq
  <2>5. preq[p] = id
    BY <2>3, <2>4 DEF IInv, PoolInv, Supervised, SlotsOwnTheirChildren
  <2> QED
    BY <2>1, <2>5
<1> QED
  BY <1>2, <1>3, <1>4, <1>5, <1>6, <1>7, <1>8 DEF Next, BrokerStep

\* While it is not shutting down the broker kills a child in the middle of a
\* request only for that request's cancellation: for no interleaving of
\* cancellations, completions and new assignments does the kill hit the next
\* request on that child (process/pool.rs).
THEOREM OnlyCancelledIsKilled == Spec => KillsOnlyCancelled
<1>1. IInv /\ [Next]_vars =>
        [\A p \in Pid : Killed(p) /\ ~stopping /\ pc # "exit"
            => req[preq[p]] \in {"gone", "lost"}]_vars
  BY KilledIsCancelled
<1> QED
  BY <1>1, Inductive, PTL DEF Spec, KillsOnlyCancelled

-----------------------------------------------------------------------------
(***************************************************************************)
(* The pool implements RequestService.                                     *)
(***************************************************************************)

\* A handler is executing r.
Runs(r) == \E p \in Pid : pstate[p] = "run" /\ preq[p] = r

\* The status of a request, from four facts about it.
StatusFrom(ended, running, new, queued) ==
    IF ended THEN "finished" ELSE
    IF running THEN "running" ELSE
    IF new THEN "idle" ELSE IF queued THEN "queued" ELSE "dropped"

\* In a state of the pool, the facts that StatusOf asks for exclude each other.
StatusIsFrom(r) ==
    StatusOf(r) = StatusFrom(frames[r] = "end", Runs(r), req[r] = "new", runs[r] = 0 /\ Open(r))
StatusFacts(r) ==
    /\ frames[r] = "end" \/ Runs(r) => runs[r] > 0
    /\ req[r] = "new" => frames[r] # "end" /\ ~Runs(r) /\ runs[r] = 0
    /\ Runs(r) => Open(r)
    /\ runs[r] \in Nat
StatusInv == \A r \in Req : StatusFacts(r) /\ StatusIsFrom(r)

LEMMA StatusOfPool == IInv => StatusInv
<1> SUFFICES ASSUME IInv, NEW r \in Req PROVE StatusFacts(r) /\ StatusIsFrom(r)
  BY DEF StatusInv
<1>1. ASSUME NEW p \in Pid, pstate[p] = "run", preq[p] = r
      PROVE  runs[r] > 0 /\ r \in childFds[p]
  <2>1. ChildIsSound(p)
    BY DEF IInv, PoolInv, ChildrenAreSound
  <2> QED
    BY <1>1, <2>1 DEF ChildIsSound
<1>2. runs[r] \in Nat /\ (runs[r] = 0 => frames[r] = "none")
  BY DEF IInv, PoolInv, PoolTypeOK, FramesAreTheRunners
<1>3. frames[r] = "end" => runs[r] > 0
  BY <1>2
<1>4. req[r] = "new" => frames[r] = "none" /\ ~Runs(r) /\ runs[r] = 0
  BY DEF IInv, PoolInv, UsedIsHandedOut, Runs
<1>5. StatusFacts(r)
  BY <1>1, <1>2, <1>3, <1>4 DEF StatusFacts, Runs, Open
<1>6. StatusIsFrom(r)
  BY <1>4 DEF StatusIsFrom, StatusOf, StatusFrom, Runs
<1> QED
  BY <1>5, <1>6

\* The ids with an open stream, with the dispatch socket as a set.
LEMMA OpenAsSets ==
    ASSUME NEW r, dispatchQ \in Seq(Req)
    PROVE  Open(r) <=> \/ r \in workerFds \cup brokerFds \cup Range(dispatchQ)
                       \/ \E p \in Pid : r \in childFds[p] \/ inbox[p] = r
<1>1. r \in Range(dispatchQ) <=> \E i \in 1 .. Len(dispatchQ) : dispatchQ[i] = r
  BY LenProperties DEF Range
<1> QED
  BY <1>1 DEF Open

\* A replacement opens nothing and starts no handler.
LEMMA RespawnOpensNothing ==
    ASSUME IInv, NEW s \in Slot, NEW fds, NEW next, Respawn(s, fds, next)
    PROVE  /\ brokerFds' = fds
           /\ \A p \in Pid : /\ inbox'[p] \in {inbox[p], NoReq}
                             /\ pstate'[p] \in {"ack", "run"} =>
                                   pstate'[p] = pstate[p] /\ preq'[p] = preq[p]
<1>1. /\ pstate \in [Pid -> {"unborn", "zombie", "reaped"} \cup Live]
      /\ preq \in [Pid -> Req \cup {NoReq}] /\ inbox \in [Pid -> Req \cup {NoReq}]
  BY DEF IInv, PoolInv, PoolTypeOK
<1> DEFINE old == slots[s].pid
<1>2. /\ inbox' = [inbox EXCEPT ![old] = NoReq] /\ preq' = [preq EXCEPT ![old] = NoReq]
      /\ brokerFds' = fds
      /\ \/ pstate' = [pstate EXCEPT ![old] = "reaped"]
         \/ pstate' = [pstate EXCEPT ![old] = "reaped", ![nextPid] = "recv"]
  BY DEF Respawn
<1> HIDE DEF old
<1> QED
  BY <1>1, <1>2

\* What a step of the broker means for the requests: nothing is written, no
\* handler starts, and a stream only moves from the socket to the table.
LEMMA BrokerOpensNothing ==
    ASSUME IInv, BrokerStep \/ BrokerSigterm \/ BrokerKilled
    PROVE  /\ UNCHANGED <<frames, runs, req, workerFds>>
           /\ Range(dispatchQ') \subseteq Range(dispatchQ) /\ dispatchQ' \in Seq(Req)
           /\ brokerFds' \subseteq brokerFds \cup Range(dispatchQ)
           /\ \A p \in Pid : /\ inbox'[p] \in {inbox[p], NoReq} \cup brokerFds
                             /\ pstate'[p] \in {"ack", "run"} =>
                                   pstate'[p] = pstate[p] /\ preq'[p] = preq[p]
<1>1. dispatchQ \in Seq(Req) /\ (pc = "dispatch" => dispatchQ # << >>)
      /\ pstate \in [Pid -> {"unborn", "zombie", "reaped"} \cup Live]
      /\ inbox \in [Pid -> Req \cup {NoReq}]
  BY DEF IInv, WorkerInv, WorkerTypeOK, ReadyIsReadable, PoolInv, PoolTypeOK
<1>2. CASE BrokerTop \/ BrokerReapedAll \/ BrokerAssigned \/ BrokerAckArrives \/ BrokerPoll
           \/ BrokerStatus \/ BrokerSigterm
  BY <1>1, <1>2 DEF BrokerTop, BrokerReapedAll, BrokerAssigned, BrokerAckArrives, BrokerPoll,
     BrokerStatus, BrokerSigterm, workerVars, childVars
<1>3. CASE BrokerReap
  <2>1. PICK s \in Slot : Respawn(s, brokerFds, "reap")
    BY <1>3 DEF BrokerReap
  <2>2. UNCHANGED <<frames, runs, req, workerFds, dispatchQ>>
    BY <1>3 DEF BrokerReap, workerVars
  <2> QED
    BY <1>1, <2>1, <2>2, RespawnOpensNothing
<1>4. CASE BrokerAssign
  <2>1. UNCHANGED <<frames, runs, req, workerFds, dispatchQ>> /\ pc = "assign" /\ pending # << >>
    BY <1>4 DEF BrokerAssign, workerVars
  <2>2. PICK s \in Slot :
           \/ /\ inbox' = [inbox EXCEPT ![slots[s].pid] = Head(pending)]
              /\ UNCHANGED <<pstate, preq, brokerFds>>
           \/ Respawn(s, brokerFds \ {Head(pending)}, "assign")
    BY <1>4 DEF BrokerAssign
  <2>3. Head(pending) \in brokerFds
    <3>1. brokerFds = Range(pending) /\ Queue(pending, Req)
      BY <2>1, NothingHanded DEF BrokerUp
    <3> QED
      BY <2>1, <3>1, TailOfQueue
  <2>4. CASE inbox' = [inbox EXCEPT ![slots[s].pid] = Head(pending)]
             /\ UNCHANGED <<pstate, preq, brokerFds>>
    BY <1>1, <2>1, <2>3, <2>4
  <2>5. CASE Respawn(s, brokerFds \ {Head(pending)}, "assign")
    <3>1. brokerFds' = brokerFds \ {Head(pending)}
      BY <2>5, RespawnOpensNothing
    <3>2. \A p \in Pid : /\ inbox'[p] \in {inbox[p], NoReq}
                         /\ pstate'[p] \in {"ack", "run"} =>
                                pstate'[p] = pstate[p] /\ preq'[p] = preq[p]
      BY <2>5, RespawnOpensNothing
    <3> QED
      BY <1>1, <2>1, <3>1, <3>2
  <2> QED
    BY <2>2, <2>4, <2>5
<1>5. CASE BrokerAckFails
  <2>1. UNCHANGED <<frames, runs, req, workerFds, dispatchQ>>
        /\ Respawn(handing.slot, brokerFds \ {handing.id}, "assign")
    BY <1>5 DEF BrokerAckFails, workerVars
  <2>2. handing.slot \in Slot
    BY <1>5 DEF BrokerAckFails, IInv, PoolInv, PoolTypeOK, BrokerUp, Supervised, HandingIsExact,
       HandedSlot
  <2>3. brokerFds' = brokerFds \ {handing.id}
    BY <2>1, <2>2, RespawnOpensNothing
  <2>4. \A p \in Pid : /\ inbox'[p] \in {inbox[p], NoReq}
                       /\ pstate'[p] \in {"ack", "run"} =>
                                pstate'[p] = pstate[p] /\ preq'[p] = preq[p]
    BY <2>1, <2>2, RespawnOpensNothing
  <2> QED
    BY <1>1, <2>1, <2>3, <2>4
<1>6. CASE BrokerCancel
  <2>1. UNCHANGED <<frames, runs, req, workerFds, dispatchQ>>
    BY <1>6 DEF BrokerCancel
  <2>2. CASE \E s \in Slot, next \in {NextReady(ready')} : Respawn(s, brokerFds, next)
    BY <1>1, <2>1, <2>2, RespawnOpensNothing
  <2>3. CASE brokerFds' \subseteq brokerFds /\ UNCHANGED childVars
    BY <1>1, <2>1, <2>3 DEF childVars
  <2> QED
    BY <1>6, <2>2, <2>3 DEF BrokerCancel, CancelBusy, CancelQueued, CancelUnknown
<1>7. CASE BrokerDispatch
  <2>1. /\ UNCHANGED <<frames, runs, req, workerFds, childVars>> /\ dispatchQ' = Tail(dispatchQ)
        /\ dispatchQ # << >>
        /\ brokerFds' \in {brokerFds, brokerFds \cup {Head(dispatchQ)}}
    BY <1>1, <1>7 DEF BrokerDispatch, Enqueue
  <2>2. /\ Head(dispatchQ) \in Range(dispatchQ) /\ Tail(dispatchQ) \in Seq(Req)
        /\ Range(Tail(dispatchQ)) \subseteq Range(dispatchQ)
    BY <1>1, <2>1, RangeOfTail
  <2> QED
    BY <2>1, <2>2 DEF childVars
<1>8. CASE BrokerExit \/ BrokerKilled
  <2>1. /\ UNCHANGED <<frames, runs, req, workerFds, preq>> /\ dispatchQ' = << >> /\ brokerFds' = {}
        /\ \/ UNCHANGED <<pstate, inbox>>
           \/ /\ pstate' = [p \in Pid |-> IF Terminated(p) THEN "reaped" ELSE pstate[p]]
              /\ inbox' = [p \in Pid |-> IF Terminated(p) THEN NoReq ELSE inbox[p]]
    BY <1>8 DEF BrokerExit, BrokerKilled, childVars
  <2>2. << >> \in Seq(Req) /\ Range(<< >>) = {}
    BY EmptyQueue DEF Queue
  <2> QED
    BY <2>1, <2>2
<1> QED
  BY <1>2, <1>3, <1>4, <1>5, <1>6, <1>7, <1>8 DEF BrokerStep

\* How the facts about a request may change.
Moves(r) ==
    /\ frames[r] = "end" => frames'[r] = "end"
    /\ frames'[r] = "end" => frames[r] = "end" \/ Runs(r)
    /\ Runs(r)' => Runs(r) \/ (runs[r] = 0 /\ Open(r) /\ req[r] # "new")
    /\ runs[r] > 0 => runs'[r] > 0
    /\ req[r] # "new" => req'[r] # "new"
    /\ Open(r)' => Open(r) \/ req[r] = "new"

LEMMA WorkerMoves == ASSUME IInv, WorkerStep, IInv', NEW r \in Req PROVE Moves(r)
<1>1. /\ UNCHANGED <<runs, pstate, preq, brokerFds, childFds, inbox>>
      /\ frames'[r] = "end" <=> frames[r] = "end"
  <2>1. UNCHANGED poolVars /\ WorkerAction(BrokerUp)
    BY DEF WorkerStep, WorkerTask, WorkerAction, TaskAction, Open
  <2> QED
    BY <2>1, WorkerTakesAChunk
    DEF poolVars, brokerVars, childVars, IInv, WorkerInv, WorkerTypeOK, TakesAChunk
<1>2. /\ nextId' \in {nextId, nextId + 1} /\ nextId \in Nat
      /\ dispatchQ' \in Seq(Req) /\ dispatchQ \in Seq(Req)
      /\ workerFds' \subseteq workerFds \cup {nextId}
      /\ \/ dispatchQ' = dispatchQ
         \/ dispatchQ' = Append(dispatchQ, nextId) /\ nextId \in Req
  <2>1. WorkerInv /\ WorkerInv' /\ WorkerAction(BrokerUp) /\ BrokerUp \in BOOLEAN
    BY DEF IInv, WorkerStep, WorkerTask, WorkerAction, TaskAction, BrokerUp, Open
  <2>2. QueuesGrow
    BY <2>1, WorkerStepInv
  <2>3. workerFds' \subseteq workerFds \cup {nextId}
    BY DEF WorkerStep, AcquirePermit, AbandonWait, SendDispatch, ReceiveAck, WorkerTask, ReadStart,
       ReadEnd, ReadEof, ChunkRefused, WriteTimesOut, ClientLeaves, SendCancel, WorkerExit
  <2> QED
    BY <2>1, <2>2, <2>3 DEF QueuesGrow, WorkerInv, WorkerTypeOK
<1>3. req[r] # "new" => req'[r] # "new" /\ r # nextId
  BY <1>2 DEF IInv, ProtocolInv, HandedOut, Req
<1>4. Runs(r)' <=> Runs(r)
  BY <1>1 DEF Runs
<1>5. Open(r)' => Open(r) \/ r = nextId
  <2>1. nextId \in Req => Range(Append(dispatchQ, nextId)) = Range(dispatchQ) \cup {nextId}
    BY <1>2, RangeOfAppend
  <2>2. r \in Range(dispatchQ') => r \in Range(dispatchQ) \/ r = nextId
    <3>1. CASE dispatchQ' = dispatchQ
      BY <3>1
    <3>2. CASE dispatchQ' = Append(dispatchQ, nextId) /\ nextId \in Req
      <4>1. Range(dispatchQ') = Range(dispatchQ) \cup {nextId}
        BY <2>1, <3>2
      <4> QED
        BY <4>1
    <3> QED
      BY <1>2, <3>1, <3>2
  <2>3. Open(r) <=> \/ r \in workerFds \cup brokerFds \cup Range(dispatchQ)
                    \/ \E p \in Pid : r \in childFds[p] \/ inbox[p] = r
    BY <1>2, OpenAsSets
  <2>4. r \in Range(dispatchQ') <=> \E i \in 1 .. Len(dispatchQ') : dispatchQ'[i] = r
    BY <1>2, LenProperties DEF Range
  <2>5. Open(r)' <=> \/ r \in workerFds' \cup brokerFds' \cup Range(dispatchQ')
                     \/ \E p \in Pid : r \in childFds'[p] \/ inbox'[p] = r
    BY <2>4 DEF Open
  <2> QED
    BY <1>1, <1>2, <2>2, <2>3, <2>5
<1> QED
  BY <1>1, <1>3, <1>4, <1>5 DEF Moves

LEMMA BrokerMoves ==
    ASSUME IInv, BrokerStep \/ BrokerSigterm \/ BrokerKilled, IInv', NEW r \in Req
    PROVE  Moves(r)
<1>1. /\ UNCHANGED <<frames, runs, req, workerFds>>
      /\ Range(dispatchQ') \subseteq Range(dispatchQ) /\ dispatchQ' \in Seq(Req)
      /\ brokerFds' \subseteq brokerFds \cup Range(dispatchQ)
      /\ \A p \in Pid : /\ inbox'[p] \in {inbox[p], NoReq} \cup brokerFds
                        /\ pstate'[p] \in {"ack", "run"} =>
                              pstate'[p] = pstate[p] /\ preq'[p] = preq[p]
  BY BrokerOpensNothing
<1>2. Runs(r)' => Runs(r)
  BY <1>1 DEF Runs
<1>3. \A p \in Pid : r \in childFds'[p] => r \in childFds[p]
  <2>1. ASSUME NEW p \in Pid, r \in childFds'[p] PROVE r \in childFds[p]
    <3>1. /\ childFds'[p] = IF pstate'[p] \in {"ack", "run"} THEN {preq'[p]} ELSE {}
          /\ childFds[p] = IF pstate[p] \in {"ack", "run"} THEN {preq[p]} ELSE {}
      BY DEF IInv, PoolInv, ChildrenAreSound, ChildIsSound
    <3> QED
      BY <1>1, <2>1, <3>1
  <2> QED
    BY <2>1
<1>4. Open(r)' => Open(r)
  <2>1. dispatchQ \in Seq(Req) /\ NoReq # r
    BY DEF IInv, WorkerInv, WorkerTypeOK, Req, NoReq
  <2>2. Open(r) <=> \/ r \in workerFds \cup brokerFds \cup Range(dispatchQ)
                    \/ \E p \in Pid : r \in childFds[p] \/ inbox[p] = r
    BY <2>1, OpenAsSets
  <2>3. r \in Range(dispatchQ') <=> \E i \in 1 .. Len(dispatchQ') : dispatchQ'[i] = r
    BY <1>1, LenProperties DEF Range
  <2>4. Open(r)' <=> \/ r \in workerFds' \cup brokerFds' \cup Range(dispatchQ')
                     \/ \E p \in Pid : r \in childFds'[p] \/ inbox'[p] = r
    BY <2>3 DEF Open
  <2> QED
    BY <1>1, <1>3, <2>1, <2>2, <2>4
<1> QED
  BY <1>1, <1>2, <1>4 DEF Moves

LEMMA ChildMoves ==
    ASSUME IInv, NEW p \in Pid, ChildStep(p) \/ ChildDies(p), IInv', NEW r \in Req
    PROVE  Moves(r)
<1>1. /\ pstate \in [Pid -> {"unborn", "zombie", "reaped"} \cup Live]
      /\ preq \in [Pid -> Req \cup {NoReq}] /\ inbox \in [Pid -> Req \cup {NoReq}]
      /\ childFds \in [Pid -> SUBSET Req] /\ runs \in [Req -> Nat]
      /\ frames \in [Req -> {"none", "start", "chunk", "end", "fail"}]
  BY DEF IInv, WorkerInv, WorkerTypeOK, PoolInv, PoolTypeOK
<1>2. UNCHANGED <<req, dispatchQ, workerFds, brokerFds>>
  BY DEF ChildStep, ChildReceive, ChildOrphaned, ChildAck, ChildStart, ChildWrites,
     ChildFinish, ChildIncomplete, ChildReport, ChildQuit, ChildDies, workerVars, poolVars, brokerVars
<1>3. CASE ChildAck(p) /\ BrokerUp
  <2>1. /\ pstate[p] = "ack" /\ pstate' = [pstate EXCEPT ![p] = "run"]
        /\ runs' = [runs EXCEPT ![preq[p]] = @ + 1]
        /\ UNCHANGED <<frames, preq, inbox, childFds>>
    BY <1>3 DEF ChildAck, workerVars
  <2>2. HandedChild(p) /\ ChildIsSound(p)
    BY <1>3 DEF IInv, PoolInv, Supervised, HandingIsExact, ChildrenAreSound
  <2>3. preq[p] = r => runs[r] = 0 /\ Open(r)
    BY <2>1, <2>2 DEF HandedChild, ChildIsSound, Open
  <2>4. preq[p] = r => req[r] # "new"
    BY DEF IInv, PoolInv, UsedIsHandedOut
  <2>5. Runs(r)' => Runs(r) \/ preq[p] = r
    BY <1>1, <2>1 DEF Runs
  <2>6. runs[r] > 0 => runs'[r] > 0
    BY <1>1, <2>1
  <2>7. Open(r)' => Open(r)
    BY <1>2, <2>1 DEF Open
  <2> QED
    BY <1>2, <2>1, <2>3, <2>4, <2>5, <2>6, <2>7 DEF Moves
<1>4. CASE ~(ChildAck(p) /\ BrokerUp)
  <2>1. /\ runs' = runs
        /\ \A q \in Pid : pstate'[q] = "run" => pstate[q] = "run" /\ preq'[q] = preq[q]
    BY <1>1, <1>4 DEF ChildStep, ChildReceive, ChildOrphaned, ChildAck, ChildStart, ChildWrites,
       ChildFinish, ChildIncomplete, ChildReport, ChildQuit, ChildDies, poolVars, childVars
  <2>2. \/ frames' = frames
        \/ /\ frames[preq[p]] = "none" /\ frames' = [frames EXCEPT ![preq[p]] = "start"]
        \/ /\ frames[preq[p]] = "start" /\ frames' = [frames EXCEPT ![preq[p]] = "chunk"]
        \/ /\ pstate[p] = "run" /\ frames' = [frames EXCEPT ![preq[p]] = "end"]
    BY DEF ChildStep, ChildReceive, ChildOrphaned, ChildAck, ChildStart, ChildWrites,
       ChildFinish, ChildIncomplete, ChildReport, ChildQuit, ChildDies, workerVars
  <2>3. \A q \in Pid : /\ r \in childFds'[q] => r \in childFds[q] \/ r = inbox[q]
                       /\ r = inbox'[q] => r = inbox[q]
    <3>1. r # NoReq
      BY DEF Req, NoReq
    <3> QED
      BY <1>1, <3>1 DEF ChildStep, ChildReceive, ChildOrphaned, ChildAck, ChildStart, ChildWrites,
         ChildFinish, ChildIncomplete, ChildReport, ChildQuit, ChildDies, poolVars, childVars
  <2>4. Runs(r)' => Runs(r)
    BY <2>1 DEF Runs
  <2>5. Open(r)' => Open(r)
    BY <1>2, <2>3 DEF Open
  <2>6. /\ frames[r] = "end" => frames'[r] = "end"
        /\ frames'[r] = "end" => frames[r] = "end" \/ Runs(r)
    BY <1>1, <2>2 DEF Runs
  <2> QED
    BY <1>2, <2>1, <2>4, <2>5, <2>6 DEF Moves
<1> QED
  BY <1>3, <1>4

\* Every request takes a step of RequestService, or none.
LEMMA StatusMoves ==
    ASSUME IInv, IInv', StatusInv, StatusInv', [Next]_vars, NEW r \in Req
    PROVE  \/ StatusOf(r)' = StatusOf(r)
           \/ StatusOf(r) = "idle" /\ StatusOf(r)' \in {"queued", "dropped"}
           \/ StatusOf(r) = "queued" /\ StatusOf(r)' \in {"running", "dropped"}
           \/ StatusOf(r) = "running" /\ StatusOf(r)' \in {"finished", "dropped"}
<1>1. Moves(r)
  <2>1. CASE UNCHANGED vars
    BY <2>1 DEF vars, workerVars, poolVars, brokerVars, childVars, Moves, Runs, Open
  <2> QED
    BY <2>1, WorkerMoves, BrokerMoves, ChildMoves DEF Next
<1>2. StatusFacts(r) /\ StatusIsFrom(r)
  BY DEF StatusInv
<1>3. StatusFacts(r)' /\ StatusIsFrom(r)'
  BY DEF StatusInv
<1> QED
  BY <1>1, <1>2, <1>3 DEF Moves, StatusFacts, StatusIsFrom, StatusFrom

\* Every running handler has a slot of its own, so no more run than slots.
RunsAreBounded == Cardinality({r \in Req : StatusOf(r) = "running"}) <= Concurrency

LEMMA RunningHasASlot == IInv => RunsAreBounded
<1> DEFINE R == {r \in Req : StatusOf(r) = "running"}
           Serves(s, r) == pstate[slots[s].pid] = "run" /\ preq[slots[s].pid] = r
           f == [r \in R |-> CHOOSE s \in Slot : Serves(s, r)]
<1> SUFFICES ASSUME IInv PROVE Cardinality(R) <= Concurrency
  BY DEF RunsAreBounded
<1>1. ASSUME NEW r \in R PROVE \E s \in Slot : Serves(s, r)
  <2>1. StatusIsFrom(r)
    BY StatusOfPool DEF StatusInv
  <2>2. PICK p \in Pid : pstate[p] = "run" /\ preq[p] = r
    BY <2>1 DEF StatusIsFrom, StatusFrom, Runs
  <2>3. \E s \in Slot : slots[s].pid = p
    BY <2>2 DEF IInv, PoolInv, EveryChildHasASlot
  <2> QED
    BY <2>2, <2>3
<1>2. \A r \in R : f[r] \in Slot /\ Serves(f[r], r)
  BY <1>1
<1>3. \A r \in R : preq[slots[f[r]].pid] = r
  BY <1>2
<1>4. f \in [R -> Slot]
  BY <1>2
<1>5. f \in Injection(R, Slot)
  <2>1. ASSUME NEW a \in DOMAIN f, NEW b \in DOMAIN f, f[a] = f[b] PROVE a = b
    <3>1. a \in R /\ b \in R
      OBVIOUS
    <3> HIDE DEF f, R
    <3> QED
      BY <1>3, <2>1, <3>1
  <2> HIDE DEF f, R
  <2> QED
    BY <1>4, <2>1 DEF Injection, IsInjective
<1>6. IsFiniteSet(Slot) /\ Cardinality(Slot) = Concurrency
  BY FS_Interval, WorkerAssumption DEF Slot
<1> HIDE DEF f, R
<1> QED
  BY <1>5, <1>6, FS_Injection

\* A client is told something once, and only what is so.
Told == Settled \cup {"pump"}
AnswerMoves(r) ==
    \/ req'[r] = req[r]
    \/ req[r] = "pump" /\ req'[r] = "gone"
    \/ req[r] \notin Told /\ req'[r] \notin Told
    \/ /\ req[r] \notin Told
       /\ \/ req'[r] \in {"gone", "pump"}
          \/ req'[r] = "done" /\ frames[r] = "end"
          \/ req'[r] = "lost" /\ frames'[r] # "end" /\ ~Open(r)'

LEMMA TaskAnswers ==
    ASSUME IInv, WorkerStep, NEW r \in Req PROVE AnswerMoves(r)
<1>1. /\ UNCHANGED <<brokerFds, childFds, inbox>>
      /\ frames'[r] = "end" <=> frames[r] = "end"
  <2>1. UNCHANGED poolVars /\ WorkerAction(BrokerUp)
    BY DEF WorkerStep, WorkerTask, WorkerAction, TaskAction, Open
  <2> QED
    BY <2>1, WorkerTakesAChunk
    DEF poolVars, brokerVars, childVars, IInv, WorkerInv, WorkerTypeOK, TakesAChunk
<1>2. /\ req \in [Req -> {"new"} \cup Pending \cup Settled]
      /\ frames[r] \in {"none", "start", "chunk", "end"}
  BY DEF IInv, WorkerInv, WorkerTypeOK, PoolInv, FramesAreTheRunners
<1>3. UNCHANGED <<workerFds, dispatchQ>> => (Open(r)' <=> Open(r))
  BY <1>1 DEF Open
<1>4. CASE AcquirePermit \/ AbandonWait \/ SendCancel(BrokerUp)
  BY <1>4 DEF AcquirePermit, AbandonWait, SendCancel, AnswerMoves
<1>5. CASE SendDispatch(BrokerUp)
  <2>1. nextId \in Nat
    BY DEF IInv, WorkerInv, WorkerTypeOK
  <2>2. \/ req' = [req EXCEPT ![nextId] = "sent"]
        \/ req' = [req EXCEPT ![nextId] = "lost"] /\ UNCHANGED <<workerFds, dispatchQ>>
    BY <1>5 DEF SendDispatch
  <2>3. CASE r # nextId
    BY <1>2, <2>2, <2>3 DEF AnswerMoves
  <2>4. CASE r = nextId
    <3>1. req[r] = "new"
      BY <2>1, <2>4 DEF IInv, ProtocolInv, HandedOut, Req
    <3>2. ~Open(r)
      <4>1. dispatchQ \in Seq(Req)
        BY DEF IInv, WorkerInv, WorkerTypeOK
      <4>2. r \notin workerFds \cup brokerFds \cup Range(dispatchQ)
        BY <3>1 DEF IInv, ProtocolInv, HandedOut, PoolInv, UsedIsHandedOut
      <4>3. ASSUME NEW p \in Pid PROVE r \notin childFds[p] /\ inbox[p] # r
        <5>1. inbox[p] # r /\ preq[p] # r
          BY <3>1 DEF IInv, PoolInv, UsedIsHandedOut
        <5>2. childFds[p] = IF pstate[p] \in {"ack", "run"} THEN {preq[p]} ELSE {}
          BY DEF IInv, PoolInv, ChildrenAreSound, ChildIsSound
        <5> QED
          BY <5>1, <5>2
      <4> QED
        BY <4>1, <4>2, <4>3, OpenAsSets
    <3>3. frames[r] = "none" /\ req[r] \notin Told
      BY <3>1 DEF IInv, PoolInv, UsedIsHandedOut, Told, Settled
    <3>4. \/ req'[r] = "sent"
          \/ req'[r] = "lost" /\ UNCHANGED <<workerFds, dispatchQ>>
      BY <1>2, <2>2, <2>4
    <3> QED
      BY <1>1, <1>3, <3>2, <3>3, <3>4 DEF AnswerMoves, Told, Settled
  <2> QED
    BY <2>3, <2>4
<1>6. CASE ReceiveAck
  <2>1. dispatching \in Req /\ Head(ackQ) = dispatching /\ req[dispatching] \in {"sent", "gone"}
    BY <1>6, AckIsOwn DEF IInv, ProtocolInv, HandedOut, Req, NoReq
  <2>2. req' = req \/ (req[dispatching] = "sent" /\ req' = [req EXCEPT ![dispatching] = "await"])
    BY <1>2, <1>6, <2>1 DEF ReceiveAck, Acknowledge
  <2> QED
    BY <1>2, <2>1, <2>2 DEF AnswerMoves, Told, Settled
<1>7. ASSUME NEW q \in Req, WorkerTask(q) \/ WriteTimesOut(q) \/ ClientLeaves(q)
      PROVE  AnswerMoves(r)
  <2>1. UNCHANGED <<workerFds, dispatchQ>>
    BY <1>7 DEF WorkerTask, ReadStart, ReadEnd, ReadEof, ChunkRefused, WriteTimesOut, ClientLeaves
  <2>2. \/ req[q] = "pump" /\ req' = [req EXCEPT ![q] = "gone"]
        \/ /\ req[q] \notin Told
           /\ \/ req' = [req EXCEPT ![q] = "stream"] \/ req' = [req EXCEPT ![q] = "pump"]
              \/ req' = [req EXCEPT ![q] = "gone"]
              \/ req' = [req EXCEPT ![q] = "done"] /\ Ended(q)
              \/ req' = [req EXCEPT ![q] = "lost"] /\ ~Ended(q) /\ ~Open(q)
    <3>1. CASE ReadStart(q) \/ ReadEnd(q) \/ ChunkRefused(q) \/ WriteTimesOut(q) \/ ClientLeaves(q)
      BY <3>1 DEF ReadStart, ReadEnd, ChunkRefused, WriteTimesOut, ClientLeaves, Told, Settled
    <3>2. CASE ReadEof(q, Open(q))
      BY <3>2 DEF ReadEof, Told, Settled, Leased
    <3> QED
      BY <1>7, <3>1, <3>2 DEF WorkerTask
  <2>3. CASE q = r
    <3>1. Ended(r) <=> frames[r] = "end"
      BY <1>2 DEF Ended
    <3>2. req'[r] # req[r] => (req[r] = "pump" /\ req'[r] = "gone") \/ req[r] \notin Told
      BY <1>2, <2>2, <2>3
    <3> QED
      BY <1>1, <1>2, <1>3, <2>1, <2>2, <2>3, <3>1, <3>2 DEF AnswerMoves, Told, Settled
  <2>4. CASE q # r
    BY <1>2, <2>2, <2>4 DEF AnswerMoves
  <2> QED
    BY <2>3, <2>4
<1>8. CASE WorkerExit
  BY <1>2, <1>8 DEF WorkerExit, AnswerMoves, Pending, Leased, Told, Settled
<1> QED
  BY <1>4, <1>5, <1>6, <1>7, <1>8 DEF WorkerStep

LEMMA AnswersMove == ASSUME IInv, [Next]_vars, NEW r \in Req PROVE AnswerMoves(r)
<1>1. CASE UNCHANGED vars
  BY <1>1 DEF vars, workerVars, AnswerMoves
<1>2. CASE BrokerStep \/ BrokerSigterm \/ BrokerKilled
  BY <1>2, BrokerOpensNothing DEF AnswerMoves
<1>3. ASSUME NEW p \in Pid, ChildStep(p) \/ ChildDies(p) PROVE AnswerMoves(r)
  BY <1>3 DEF ChildStep, ChildReceive, ChildOrphaned, ChildAck, ChildStart, ChildWrites,
     ChildFinish, ChildIncomplete, ChildReport, ChildQuit, ChildDies, workerVars, AnswerMoves
<1> QED
  BY <1>1, <1>2, <1>3, TaskAnswers DEF Next

\* The pool starts as the service does.
LEMMA InitServes == Init => Service!Init
<1> SUFFICES ASSUME Init PROVE Service!Init
  OBVIOUS
<1>1. ASSUME NEW r \in Req PROVE StatusOf(r) = "idle" /\ AnswerOf(r) = "none"
  <2>1. frames[r] = "none" /\ req[r] = "new" /\ \A p \in Pid : pstate[p] # "run"
    BY DEF Init, WorkerInit
  <2>2. StatusIsFrom(r) /\ ~Runs(r)
    BY <2>1, InitInv, StatusOfPool DEF StatusInv, Runs
  <2> QED
    BY <2>1, <2>2 DEF StatusIsFrom, StatusFrom, AnswerOf
<1> QED
  BY <1>1 DEF Service!Init

\* Every step of the pool is a step of the service, or changes nothing of it.
LEMMA StepServes ==
    ASSUME IInv, IInv', StatusInv, StatusInv', RunsAreBounded', [Next]_vars
    PROVE  Service!Next
<1>1. ASSUME NEW r \in Req PROVE Service!StatusStep(r)
  BY StatusMoves DEF Service!StatusStep
<1>2. ASSUME NEW r \in Req PROVE Service!AnswerStep(r)
  <2>1. AnswerMoves(r)
    BY AnswersMove
  <2>2. /\ StatusIsFrom(r) /\ StatusIsFrom(r)' /\ StatusFacts(r)'
    BY DEF StatusInv
  <2>3. /\ frames[r] = "end" => StatusOf(r) = "finished"
        /\ frames'[r] # "end" /\ ~Open(r)' /\ req'[r] = "lost" => StatusOf(r)' = "dropped"
    BY <2>2 DEF StatusIsFrom, StatusFrom, StatusFacts
  <2>4. /\ req[r] \notin Told => AnswerOf(r) = "none"
        /\ req'[r] \notin Told => AnswerOf(r)' = "none"
        /\ req'[r] = req[r] => AnswerOf(r)' = AnswerOf(r)
        /\ req[r] = "pump" => AnswerOf(r) = "left"
        /\ req'[r] \in {"gone", "pump"} => AnswerOf(r)' = "left"
        /\ req'[r] = "done" => AnswerOf(r)' = "complete"
        /\ req'[r] = "lost" => AnswerOf(r)' = "broken"
    BY DEF AnswerOf, Told, Settled
  <2> QED
    BY <2>1, <2>3, <2>4 DEF AnswerMoves, Service!AnswerStep
<1>3. Service!Cardinality(Service!Running') <= Concurrency
  <2>1. Service!Running' = {r \in Req : StatusOf(r) = "running"}'
    BY DEF Service!Running
  <2>2. Service!Cardinality(Service!Running') = Cardinality(Service!Running')
    BY DEF Service!Cardinality, Cardinality
  <2> QED
    BY <2>1, <2>2 DEF RunsAreBounded
<1> QED
  BY <1>1, <1>2, <1>3 DEF Service!Next

\* The pool implements the request service, for any number of requests and
\* slots: whatever crashes, cancellations, shutdowns and replacements do, a
\* handler is begun at most once for a request and never resumed, no more than
\* Concurrency run, a complete response comes from a handler that finished and
\* a broken one only when none ever will (docs/beyond-php/web.md, "Request
\* isolation"; process/pool.rs).
THEOREM PoolServes == Spec => ImplementsService
<1>1. Spec => [](IInv /\ StatusInv /\ RunsAreBounded)
  BY Inductive, StatusOfPool, RunningHasASlot, PTL
<1>2. IInv /\ StatusInv /\ RunsAreBounded /\ (IInv /\ StatusInv /\ RunsAreBounded)' /\ [Next]_vars
        => Service!Next
  BY StepServes
<1> QED
  BY <1>1, <1>2, InitServes, PTL DEF Spec, ImplementsService, Service!Spec
=============================================================================
