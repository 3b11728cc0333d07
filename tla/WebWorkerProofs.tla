--------------------------- MODULE WebWorkerProofs ---------------------------
(***************************************************************************)
(* Theorems about WebWorker, for any number of connections, any quota and  *)
(* whatever variants Modes admits.                                         *)
(***************************************************************************)
EXTENDS WebWorker, FiniteSetTheorems, TLAPS

\* At most one connection is between accept and spawn.
OneAccepted ==
    \A c \in Conn : conn[c] = "accepted" =>
        /\ pc \in {"accepted", "exited"}
        /\ \A d \in Conn : conn[d] = "accepted" => d = c

\* Only the variant concerned boots, runs a hook or has a broker to lose.
PhaseFits ==
    /\ pc \in {"boot", "undo", "hook"} => mode = "application"
    /\ pc = "pause" \/ broker # "up" => mode = "isolated"
    /\ pc = "hook" => hooks = 1
    /\ hooks = 1 => pc \in {"hook", "exited"}

\* Nothing opens once the drain has ended.
Quiet == \A c \in Conn : ~Open(c)
StaysQuiet == pc \in {"hook", "pause"} \/ code = "recycle" \/ requested = "recycle" => Quiet

\* What a planned exit went through.
RecycleFits ==
    /\ code = "recycle" =>
           /\ pc = "exited"
           /\ mode = "application" => hooks = 1
           /\ mode = "isolated" => broker = "dead"
    /\ requested = "recycle" => pc \in {"pause", "exited"}

\* The loop is left before a second connection can be missed.
UntoldIsLate ==
    /\ pc \in {"select", "accepted"} \/ mode = "application" => Untold = {}
    /\ \A c, d \in Untold : c = d

IInv ==
    /\ TypeOK
    /\ OneAccepted
    /\ PhaseFits
    /\ StaysQuiet
    /\ RecycleFits
    /\ UntoldIsLate
-----------------------------------------------------------------------------
\* Nothing is open, accepted or asked at the start.
LEMMA InitInv == Init => IInv
<1> SUFFICES ASSUME Init PROVE IInv
  OBVIOUS
<1> USE WorkerAssumption DEF Init
<1>1. TypeOK
  <2>1. conn \in [Conn -> {"new", "backlog", "accepted", "fresh", "idle", "body", "handler",
                          "write", "reject", "left", "closed"}]
    OBVIOUS
  <2>2. pc \in {"boot", "top"} /\ served \in 0 .. MaxRequests + 1 /\ hooks \in 0 .. 1
    OBVIOUS
  <2>3. /\ code \in {"none", "recycle", "zero", "failure", "bootstrap", "signal"}
        /\ requested \in {"none", "zero", "recycle"} /\ broker \in {"up", "term", "dead"}
    OBVIOUS
  <2> QED
    BY <2>1, <2>2, <2>3 DEF TypeOK
<1>2. \A c \in Conn : conn[c] = "new"
  OBVIOUS
<1> QED
  BY <1>1, <1>2 DEF IInv, OneAccepted, PhaseFits, StaysQuiet, Quiet, RecycleFits,
     UntoldIsLate, Untold, Open, InRequest

\* The steps of the accept loop, PHP's among them.
LEMMA LoopPreserves ==
    ASSUME IInv, LoopStep \/ PhpStep
    PROVE  IInv'
<1> USE WorkerAssumption DEF IInv, TypeOK, OneAccepted, PhaseFits, StaysQuiet, Quiet,
      RecycleFits, UntoldIsLate, Untold, Open, InRequest,
      watchVars, signalVars, connVars, exitVars
<1>1. CASE BootEnds
  <2> USE <1>1 DEF BootEnds
  <2>1. PhaseFits'
    OBVIOUS
  <2>2. TypeOK'
    <3>1. pc' \in {"top", "undo"}
      OBVIOUS
    <3>2. UNCHANGED <<mode, recycle, unseen, requested, broker, conn, asked, served, hooks,
                      code>>
      OBVIOUS
    <3>3. stop' \in BOOLEAN /\ deferred' \in BOOLEAN
      OBVIOUS
    <3> QED
      BY <3>1, <3>2, <3>3
  <2>3. OneAccepted' /\ StaysQuiet' /\ RecycleFits' /\ UntoldIsLate'
    OBVIOUS
  <2> QED
    BY <2>1, <2>2, <2>3
<1>0. CASE BootUndone
  BY <1>0 DEF BootUndone, Exit
<1>2. CASE LoopTop
  <2> USE DEF StopSeen, CloseListener
  <2>1. CASE StopSeen
    <3> USE <1>2, <2>1 DEF LoopTop, Send
    <3>1. TypeOK'
      OBVIOUS
    <3>2. OneAccepted' /\ PhaseFits' /\ StaysQuiet' /\ RecycleFits'
      OBVIOUS
    <3>3. UntoldIsLate'
      OBVIOUS
    <3> QED
      BY <3>1, <3>2, <3>3
  <2>2. CASE ~StopSeen /\ recycle
    <3> USE <1>2, <2>2 DEF LoopTop
    <3>1. TypeOK' /\ OneAccepted'
      OBVIOUS
    <3>2. PhaseFits' /\ StaysQuiet' /\ RecycleFits' /\ UntoldIsLate'
      OBVIOUS
    <3> QED
      BY <3>1, <3>2
  <2>3. CASE ~StopSeen /\ ~recycle
    BY <1>2, <2>3 DEF LoopTop
  <2> QED
    BY <2>1, <2>2, <2>3
<1>3. CASE SelectTick
  BY <1>3 DEF SelectTick
<1>4. CASE SelectRecycle
  <2> USE <1>4 DEF SelectRecycle, CloseListener
  <2>1. TypeOK' /\ OneAccepted' /\ PhaseFits' /\ StaysQuiet' /\ RecycleFits'
    OBVIOUS
  <2>2. UntoldIsLate'
    BY DEF Main, Conn
  <2> QED
    BY <2>1, <2>2
<1>5. CASE SelectAccept
  BY <1>5 DEF SelectAccept
<1>6. CASE DropAccepted
  BY <1>6 DEF DropAccepted, CloseListener
<1>7. CASE SpawnAccepted
  BY <1>7 DEF SpawnAccepted, Late
<1>8. CASE DrainEnds
  BY <1>8 DEF DrainEnds, Exit, Drained
<1>9. CASE HookEnds
  BY <1>9 DEF HookEnds, AfterHook, Exit
<1> QED
  BY <1>0, <1>1, <1>2, <1>3, <1>4, <1>5, <1>6, <1>7, <1>8, <1>9 DEF LoopStep, PhpStep

\* Signals, and the ends of PHP and of the broker.
LEMMA SignalsPreserve ==
    ASSUME IInv, Sigterm \/ PhpDies \/ BrokerEnds \/ MonitorExits
    PROVE  IInv'
<1> USE WorkerAssumption DEF IInv, TypeOK, OneAccepted, PhaseFits, StaysQuiet, Quiet,
      RecycleFits, UntoldIsLate, Untold, Open, InRequest,
      watchVars, signalVars, connVars, exitVars
<1>1. CASE Sigterm
  <2>1. CASE mode = "worker"
    BY <1>1, <2>1 DEF Sigterm, Exit
  <2>2. CASE mode = "application"
    <3> USE <1>1, <2>2 DEF Sigterm
    <3>1. TypeOK'
      OBVIOUS
    <3>2. OneAccepted' /\ PhaseFits' /\ StaysQuiet' /\ RecycleFits' /\ UntoldIsLate'
      OBVIOUS
    <3> QED
      BY <3>1, <3>2
  <2>3. CASE mode = "isolated"
    <3> USE <1>1, <2>3 DEF Sigterm
    <3>1. TypeOK'
      OBVIOUS
    <3>2. OneAccepted' /\ PhaseFits' /\ StaysQuiet' /\ RecycleFits' /\ UntoldIsLate'
      OBVIOUS
    <3> QED
      BY <3>1, <3>2
  <2> QED
    BY <1>1, <2>1, <2>2, <2>3 DEF Sigterm
<1>2. CASE PhpDies
  BY <1>2 DEF PhpDies, Exit
<1>3. CASE BrokerEnds
  BY <1>3 DEF BrokerEnds
<1>4. CASE MonitorExits
  BY <1>4 DEF MonitorExits, Exit
<1> QED
  BY <1>1, <1>2, <1>3, <1>4

\* A recorded request keeps the types, and tells every open connection or
\* changes nothing.
LEMMA RecordLemma ==
    ASSUME TypeOK, Record
    PROVE  /\ recycle' \in BOOLEAN /\ unseen' \subseteq Conn \cup {Main}
           /\ served' \in 0 .. MaxRequests + 1
           /\ \/ UNCHANGED <<recycle, unseen>>
              \/ \A c \in Conn : Open(c) => c \in asked \cup unseen'
<1> USE WorkerAssumption DEF TypeOK
<1>1. served' \in 0 .. MaxRequests + 1
  BY DEF Record
<1>2. CASE QuotaReached(served')
  BY <1>1, <1>2 DEF Record, Send
<1>3. CASE ~QuotaReached(served')
  BY <1>1, <1>3 DEF Record, watchVars
<1> QED
  BY <1>2, <1>3

\* The steps of a connection's task and of its client.
LEMMA ConnectionPreserves ==
    ASSUME IInv, NEW c \in Conn,
           \/ Arrive(c) \/ RequestArrives(c) \/ BodyEnds(c) \/ BodyRejected(c)
           \/ HandlerReturns(c) \/ ResponseWritten(c) \/ Told(c)
           \/ HeaderTimeout(c) \/ ClientCloses(c) \/ PumpEnds(c)
    PROVE  IInv'
<1> USE WorkerAssumption DEF IInv, TypeOK, OneAccepted, PhaseFits, StaysQuiet, Quiet,
      RecycleFits, UntoldIsLate, Untold, Open, InRequest,
      watchVars, signalVars, connVars, exitVars
<1>1. CASE Arrive(c)
  BY <1>1 DEF Arrive
<1>2. CASE RequestArrives(c)
  BY <1>2 DEF RequestArrives, Yielded
<1>3. CASE BodyEnds(c)
  BY <1>3 DEF BodyEnds, Yielded
<1>4. CASE BodyRejected(c)
  BY <1>4 DEF BodyRejected, Yielded
<1>5. CASE HandlerReturns(c)
  <2>1. conn' = [conn EXCEPT ![c] = "write"] /\ Open(c)
    BY <1>5 DEF HandlerReturns
  <2> QED
    BY <1>5, <2>1, RecordLemma DEF HandlerReturns
<1>6. CASE ResponseWritten(c)
  BY <1>6 DEF ResponseWritten
<1>7. CASE Told(c)
  BY <1>7 DEF Told
<1>8. CASE HeaderTimeout(c)
  BY <1>8 DEF HeaderTimeout
<1>9. CASE ClientCloses(c)
  <2>1. Open(c) /\ \E gone \in {"closed", "left"} : conn' = [conn EXCEPT ![c] = gone]
    BY <1>9 DEF ClientCloses
  <2>2. CASE UNCHANGED <<served, watchVars>>
    BY <1>9, <2>1, <2>2 DEF ClientCloses
  <2>3. CASE Record
    BY <1>9, <2>1, <2>3, RecordLemma DEF ClientCloses
  <2> QED
    BY <1>9, <2>2, <2>3 DEF ClientCloses
<1>10. CASE PumpEnds(c)
  BY <1>10, RecordLemma DEF PumpEnds
<1> QED
  BY <1>1, <1>2, <1>3, <1>4, <1>5, <1>6, <1>7, <1>8, <1>9, <1>10

\* Every step preserves the invariant.
LEMMA NextInv == IInv /\ [Next]_vars => IInv'
<1> SUFFICES ASSUME IInv, [Next]_vars PROVE IInv'
  OBVIOUS
<1>1. CASE LoopStep \/ PhpStep
  BY <1>1, LoopPreserves
<1>2. CASE Sigterm \/ PhpDies \/ BrokerEnds \/ MonitorExits
  BY <1>2, SignalsPreserve
<1>3. CASE \E c \in Conn :
              \/ Arrive(c) \/ RequestArrives(c) \/ BodyEnds(c) \/ BodyRejected(c)
              \/ HandlerReturns(c) \/ ResponseWritten(c) \/ Told(c)
              \/ HeaderTimeout(c) \/ ClientCloses(c) \/ PumpEnds(c)
  BY <1>3, ConnectionPreserves
<1>4. CASE UNCHANGED vars
  BY <1>4 DEF vars, watchVars, signalVars, connVars, exitVars, IInv, TypeOK, OneAccepted,
     PhaseFits, StaysQuiet, Quiet, RecycleFits, UntoldIsLate, Untold, Open, InRequest
<1> QED
  BY <1>1, <1>2, <1>3, <1>4 DEF Next

\* The invariant holds in every behaviour.
LEMMA Invariance == Spec => []IInv
<1> QED
  BY InitInv, NextInv, PTL DEF Spec
-----------------------------------------------------------------------------
\* Type correctness.
THEOREM TypeCorrect == Spec => []TypeOK
<1>1. IInv => TypeOK
  BY DEF IInv
<1> QED
  BY Invariance, <1>1, PTL

\* A planned exit comes after every response, the hook and the broker's end,
\* in each variant and whichever signals and deaths come between.
THEOREM PlannedExits == Spec => []PlannedExitIsClean
<1>1. IInv => PlannedExitIsClean
  BY DEF IInv, StaysQuiet, Quiet, RecycleFits, PlannedExitIsClean, Open
<1> QED
  BY Invariance, <1>1, PTL

\* However many clients connect around the quota, at most one of them is not
\* told of the recycle, and none of an application's.
THEOREM FewAreUntold == Spec => []FewUntold
<1>1. ASSUME IInv PROVE FewUntold
  <2>1. CASE Untold = {}
    BY <2>1, FS_EmptySet DEF FewUntold
  <2>2. CASE Untold # {}
    <3>1. PICK c \in Untold : Untold = {c}
      BY <1>1, <2>2 DEF IInv, UntoldIsLate
    <3>2. mode # "application"
      BY <1>1, <2>2 DEF IInv, UntoldIsLate
    <3> QED
      BY <3>1, <3>2, FS_Singleton DEF FewUntold
  <2> QED
    BY <2>1, <2>2
<1> QED
  BY Invariance, <1>1, PTL
=============================================================================
