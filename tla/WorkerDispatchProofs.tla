------------------------ MODULE WorkerDispatchProofs ------------------------
(***************************************************************************)
(* What every action of WorkerDispatch preserves, whichever broker is at   *)
(* the other end: the types of the worker's variables, and that every      *)
(* waiting task still finds a dispatch id to take.                         *)
(***************************************************************************)
EXTENDS WorkerDispatch, SequencesExt, SequenceTheorems, FiniteSetTheorems, TLAPS

-----------------------------------------------------------------------------
(* Queues without duplicates, seen as sets: what Append, Tail and RemoveAt *)
(* do to the set of queued elements.                                       *)

Queue(q, S) == q \in Seq(S) /\ IsInjective(q)

\* The empty queue.
LEMMA EmptyQueue == ASSUME NEW S PROVE Queue(<< >>, S) /\ Range(<< >>) = {}
  BY EmptySeq DEF Queue, IsInjective, Range

\* A queued element is one of S.
LEMMA QueueElements == ASSUME NEW S, NEW q, Queue(q, S) PROVE Range(q) \subseteq S
  BY ElementOfSeq, LenProperties DEF Queue, Range

\* What a sequence holds after an element was added at the back or taken from
\* the front, whether or not it has repetitions.
LEMMA RangeOfAppend ==
    ASSUME NEW S, NEW q \in Seq(S), NEW x \in S
    PROVE  Append(q, x) \in Seq(S) /\ Range(Append(q, x)) = Range(q) \cup {x}
<1>1. Len(q) \in Nat /\ DOMAIN q = 1 .. Len(q)
  BY LenProperties
<1>2. Append(q, x) \in Seq(S) /\ DOMAIN Append(q, x) = 1 .. Len(q) + 1
  BY <1>1, AppendProperties, LenProperties
<1>3. /\ \A i \in 1 .. Len(q) : Append(q, x)[i] = q[i]
      /\ Append(q, x)[Len(q) + 1] = x
  BY <1>1, AppendProperties
<1> QED
  BY <1>1, <1>2, <1>3 DEF Range

LEMMA RangeOfTail ==
    ASSUME NEW S, NEW q \in Seq(S), q # << >>
    PROVE  /\ Head(q) \in Range(q) /\ Head(q) \in S
           /\ Tail(q) \in Seq(S) /\ Range(Tail(q)) \subseteq Range(q)
<1>1. Len(q) \in Nat \ {0} /\ DOMAIN q = 1 .. Len(q) /\ Head(q) = q[1]
  BY LenProperties, EmptySeq
<1>2. Tail(q) \in Seq(S) /\ DOMAIN Tail(q) = 1 .. Len(q) - 1
  BY <1>1, HeadTailProperties, LenProperties
<1>3. \A i \in 1 .. Len(q) - 1 : Tail(q)[i] = q[i + 1]
  BY <1>1, HeadTailProperties
<1>4. Head(q) \in S
  BY <1>1, ElementOfSeq
<1> QED
  BY <1>1, <1>2, <1>3, <1>4 DEF Range

\* A sequence of one element.
LEMMA Singleton ==
    ASSUME NEW x
    PROVE  /\ Range(<<x>>) = {x} /\ Head(<<x>>) = x /\ Tail(<<x>>) = << >>
           /\ Append(<< >>, x) = <<x>> /\ <<x>> # << >>
  BY DEF Range

\* A new element goes to the back.
LEMMA AppendToQueue ==
    ASSUME NEW S, NEW q, NEW x \in S, Queue(q, S), x \notin Range(q)
    PROVE  Queue(Append(q, x), S) /\ Range(Append(q, x)) = Range(q) \cup {x}
<1>1. q \in Seq(S) /\ Len(q) \in Nat /\ DOMAIN q = 1 .. Len(q)
  BY LenProperties DEF Queue
<1>2. Append(q, x) \in Seq(S) /\ DOMAIN Append(q, x) = 1 .. Len(q) + 1
  BY <1>1, AppendProperties, LenProperties
<1>3. \A i \in 1 .. Len(q) : Append(q, x)[i] = q[i]
  BY <1>1, AppendProperties
<1>4. Append(q, x)[Len(q) + 1] = x
  BY <1>1, AppendProperties
<1>5. \A i \in 1 .. Len(q) : q[i] # x
  BY <1>1 DEF Range
<1>6. IsInjective(Append(q, x))
  BY <1>1, <1>2, <1>3, <1>4, <1>5 DEF Queue, IsInjective
<1>7. Range(Append(q, x)) = Range(q) \cup {x}
  BY <1>1, <1>2, <1>3, <1>4 DEF Range
<1> QED
  BY <1>2, <1>6, <1>7 DEF Queue

\* The head is served.
LEMMA TailOfQueue ==
    ASSUME NEW S, NEW q, Queue(q, S), q # << >>
    PROVE  /\ Head(q) \in Range(q)
           /\ Queue(Tail(q), S)
           /\ Range(Tail(q)) = Range(q) \ {Head(q)}
<1>1. q \in Seq(S) /\ Len(q) \in Nat \ {0} /\ DOMAIN q = 1 .. Len(q)
  BY LenProperties, EmptySeq DEF Queue
<1>2. Tail(q) \in Seq(S) /\ DOMAIN Tail(q) = 1 .. Len(q) - 1
  BY <1>1, HeadTailProperties, LenProperties
<1>3. \A i \in 1 .. Len(q) - 1 : Tail(q)[i] = q[i + 1]
  BY <1>1, HeadTailProperties
<1>4. Head(q) = q[1]
  BY <1>1
<1>5. IsInjective(Tail(q))
  BY <1>1, <1>2, <1>3 DEF Queue, IsInjective
<1>6. ASSUME NEW i \in 2 .. Len(q)
      PROVE  q[i] # q[1] /\ \E j \in 1 .. Len(q) - 1 : Tail(q)[j] = q[i]
  <2>1. q[i] # q[1]
    BY <1>1 DEF Queue, IsInjective
  <2>2. i - 1 \in 1 .. Len(q) - 1 /\ Tail(q)[i - 1] = q[i]
    BY <1>1, <1>3
  <2> QED
    BY <2>1, <2>2
<1>7. Range(Tail(q)) = Range(q) \ {Head(q)}
  <2>1. ASSUME NEW y \in Range(Tail(q)) PROVE y \in Range(q) /\ y # Head(q)
    <3>1. PICK j \in 1 .. Len(q) - 1 : y = Tail(q)[j]
      BY <1>2 DEF Range
    <3>2. y = q[j + 1] /\ j + 1 \in 2 .. Len(q)
      BY <1>1, <1>3, <3>1
    <3>3. j + 1 \in DOMAIN q /\ q[j + 1] # q[1]
      BY <1>1, <1>6, <3>2
    <3> QED
      BY <1>4, <3>2, <3>3 DEF Range
  <2>2. ASSUME NEW y \in Range(q), y # Head(q) PROVE y \in Range(Tail(q))
    <3>1. PICK i \in 1 .. Len(q) : y = q[i]
      BY <1>1 DEF Range
    <3>2. i \in 2 .. Len(q)
      BY <1>1, <1>4, <2>2, <3>1
    <3> QED
      BY <1>2, <1>6, <3>1, <3>2 DEF Range
  <2> QED
    BY <2>1, <2>2
<1>8. Head(q) \in Range(q)
  BY <1>1, <1>4 DEF Range
<1> QED
  BY <1>2, <1>5, <1>7, <1>8 DEF Queue

\* An element leaves from the middle.
LEMMA RemoveFromQueue ==
    ASSUME NEW S, NEW q, Queue(q, S), NEW i \in 1 .. Len(q)
    PROVE  /\ q[i] \in Range(q)
           /\ Queue(RemoveAt(q, i), S)
           /\ Range(RemoveAt(q, i)) = Range(q) \ {q[i]}
<1> DEFINE left == SubSeq(q, 1, i - 1)
           right == SubSeq(q, i + 1, Len(q))
           n == Len(q)
<1>1. q \in Seq(S) /\ n \in Nat \ {0} /\ DOMAIN q = 1 .. n
  BY LenProperties, EmptySeq DEF Queue
<1>2. \A j \in 1 .. n : q[j] \in S
  BY <1>1, ElementOfSeq
<1>3. left \in Seq(S) /\ Len(left) = i - 1 /\ \A j \in 1 .. i - 1 : left[j] = q[j]
  BY <1>1, <1>2, SubSeqProperties
<1>4. right \in Seq(S) /\ Len(right) = n - i /\ \A j \in 1 .. n - i : right[j] = q[i + j]
  <2>1. i + 1 \in Int /\ n \in Int /\ n - (i + 1) + 1 = n - i
    BY <1>1
  <2>2. \A j \in i + 1 .. n : q[j] \in S
    BY <1>1, <1>2
  <2>3. /\ right \in Seq(S)
        /\ Len(right) = IF i + 1 <= n THEN n - (i + 1) + 1 ELSE 0
        /\ \A j \in 1 .. n - (i + 1) + 1 : right[j] = q[(i + 1) + j - 1]
    BY <2>1, <2>2, SubSeqProperties
  <2> HIDE DEF right
  <2>4. Len(right) = n - i
    <3> DEFINE len == Len(q)
    <3> SUFFICES Len(right) = len - i
      OBVIOUS
    <3>1. len \in Nat /\ i \in Nat /\ i <= len
      BY <1>1
    <3>2. Len(right) = IF i + 1 <= len THEN len - (i + 1) + 1 ELSE 0
      BY <2>3
    <3> HIDE DEF len
    <3>3. CASE i + 1 <= len
      BY <3>1, <3>2, <3>3
    <3>4. CASE ~(i + 1 <= len)
      <4>1. len = i
        BY <3>1, <3>4
      <4> QED
        BY <3>1, <3>2, <3>4, <4>1
    <3> QED
      BY <3>3, <3>4
  <2>5. ASSUME NEW j \in 1 .. n - i PROVE right[j] = q[i + j]
    <3>1. (i + 1) + j - 1 = i + j
      BY <1>1
    <3> QED
      BY <2>1, <2>3, <3>1
  <2> QED
    BY <2>3, <2>4, <2>5
<1>5. RemoveAt(q, i) = left \o right
  BY DEF RemoveAt
<1> HIDE DEF left, right
<1>6. /\ RemoveAt(q, i) \in Seq(S)
      /\ Len(RemoveAt(q, i)) = n - 1
      /\ \A j \in 1 .. n - 1 : RemoveAt(q, i)[j] = IF j < i THEN q[j] ELSE q[j + 1]
  <2>1. /\ left \o right \in Seq(S)
        /\ Len(left \o right) = n - 1
        /\ \A j \in 1 .. n - 1 :
              (left \o right)[j] = IF j <= i - 1 THEN left[j] ELSE right[j - (i - 1)]
    <3>1. Len(left) + Len(right) = n - 1
      BY <1>1, <1>3, <1>4
    <3>2. /\ left \o right \in Seq(S)
          /\ Len(left \o right) = Len(left) + Len(right)
          /\ \A j \in 1 .. Len(left) + Len(right) : (left \o right)[j] =
                IF j <= Len(left) THEN left[j] ELSE right[j - Len(left)]
      BY <1>3, <1>4, ConcatProperties
    <3> QED
      BY <1>3, <3>1, <3>2
  <2>2. ASSUME NEW j \in 1 .. n - 1
        PROVE  (left \o right)[j] = IF j < i THEN q[j] ELSE q[j + 1]
    BY <1>1, <1>3, <1>4, <2>1
  <2> QED
    BY <1>5, <2>1, <2>2
<1>7. DOMAIN RemoveAt(q, i) = 1 .. n - 1
  BY <1>6, LenProperties
<1>8. IsInjective(RemoveAt(q, i))
  <2>1. \A a, b \in 1 .. n : q[a] = q[b] => a = b
    BY <1>1 DEF Queue, IsInjective
  <2>2. ASSUME NEW a \in 1 .. n - 1, NEW b \in 1 .. n - 1,
               RemoveAt(q, i)[a] = RemoveAt(q, i)[b]
        PROVE  a = b
    BY <1>1, <1>6, <2>1, <2>2
  <2> QED
    BY <1>7, <2>2 DEF IsInjective
<1>9. Range(RemoveAt(q, i)) = Range(q) \ {q[i]}
  <2>1. ASSUME NEW y \in Range(RemoveAt(q, i)) PROVE y \in Range(q) /\ y # q[i]
    <3>1. PICK j \in 1 .. n - 1 : y = RemoveAt(q, i)[j]
      BY <1>7 DEF Range
    <3>2. PICK k \in 1 .. n : k # i /\ y = q[k]
      BY <1>1, <1>6, <3>1
    <3> QED
      BY <1>1, <3>2 DEF Queue, IsInjective, Range
  <2>2. ASSUME NEW y \in Range(q), y # q[i] PROVE y \in Range(RemoveAt(q, i))
    <3>1. PICK k \in 1 .. n : y = q[k]
      BY <1>1 DEF Range
    <3>2. PICK j \in 1 .. n - 1 : y = RemoveAt(q, i)[j]
      <4>1. CASE k < i
        BY <1>1, <1>6, <3>1, <4>1
      <4>2. CASE k > i
        <5>1. k - 1 \in 1 .. n - 1 /\ ~(k - 1 < i) /\ (k - 1) + 1 = k
          BY <1>1, <4>2
        <5> QED
          BY <1>6, <3>1, <5>1
      <4> QED
        BY <1>1, <2>2, <3>1, <4>1, <4>2
    <3> QED
      BY <1>7, <3>2 DEF Range
  <2> QED
    BY <2>1, <2>2
<1> QED
  BY <1>1, <1>6, <1>8, <1>9 DEF Queue, Range

-----------------------------------------------------------------------------
(* The worker.                                                             *)

IdsLeft == nextId + waiting <= MaxRequests + 1

WorkerInv == WorkerTypeOK /\ IdsLeft

\* An HTTP task or a thread of the worker does something.
TaskAction(r) ==
    \/ ReadStart(r) \/ ReadEnd(r) \/ (\E open \in BOOLEAN : ReadEof(r, open))
    \/ ChunkRefused(r) \/ WriteTimesOut(r) \/ ClientLeaves(r)
WorkerAction(up) ==
    \/ AcquirePermit \/ AbandonWait \/ SendDispatch(up) \/ ReceiveAck
    \/ \E r \in Req : TaskAction(r)
    \/ SendCancel(up) \/ WorkerExit

\* What such a step looks like from the broker's end of the sockets.
QueuesGrow ==
    /\ \/ dispatchQ' = dispatchQ /\ nextId' = nextId
       \/ dispatchQ' = dispatchQ /\ nextId' = nextId + 1
       \/ nextId \in Req /\ dispatchQ' = Append(dispatchQ, nextId) /\ nextId' = nextId + 1
    /\ cancelQ' = cancelQ \/ \E id \in Req : cancelQ' = Append(cancelQ, id)

\* While the worker lives, the dispatch lock covers the one datagram and the
\* one acknowledgement there can be.
OneInFlight ==
    worker = "up" =>
        \/ dispatchQ = << >> /\ ackQ = << >>
        \/ dispatching # NoReq /\ dispatchQ = <<dispatching>> /\ ackQ = << >>
        \/ dispatching # NoReq /\ dispatchQ = << >> /\ ackQ = <<dispatching>>

\* What is under way has an id that was handed out, and its task is not done.
HandedOut ==
    /\ \A r \in Req : req[r] = "new" <=> r >= nextId
    /\ \A r \in Range(dispatchQ) \cup workerFds : req[r] # "new"
    /\ dispatching # NoReq => req[dispatching] \in {"sent", "gone"}

\* Only a request that nobody waits for is cancelled.
CancelsAreSettled ==
    \A r \in Range(cancels) \cup Range(cancelQ) : req[r] \in {"gone", "lost"}

\* A request that is acknowledged, or cancelled, has left the dispatch socket.
AckedHasLeft ==
    \A r \in Range(dispatchQ) :
        req[r] \notin Leased /\ r \notin Range(cancels) \cup Range(cancelQ)

ProtocolInv == OneInFlight /\ HandedOut /\ CancelsAreSettled /\ AckedHasLeft

\* The worker writes nothing to a stream; its pump may take a chunk from one.
TakesAChunk ==
    \/ frames' = frames
    \/ \E r \in Req : frames[r] = "chunk" /\ frames' = [frames EXCEPT ![r] = "start"]

LEMMA WorkerTakesAChunk == ASSUME NEW up, WorkerAction(up) PROVE TakesAChunk
<1>1. ASSUME NEW r \in Req, ChunkRefused(r) PROVE TakesAChunk
  BY <1>1 DEF ChunkRefused, TakesAChunk
<1>2. ASSUME NEW r \in Req, TaskAction(r) PROVE TakesAChunk
  BY <1>1, <1>2 DEF TaskAction, ReadStart, ReadEnd, ReadEof, WriteTimesOut, ClientLeaves,
     TakesAChunk
<1>3. CASE \/ AcquirePermit \/ AbandonWait \/ SendDispatch(up) \/ ReceiveAck
           \/ SendCancel(up) \/ WorkerExit
  BY <1>3 DEF AcquirePermit, AbandonWait, SendDispatch, ReceiveAck, SendCancel, WorkerExit,
     TakesAChunk
<1> QED
  BY <1>2, <1>3 DEF WorkerAction

-----------------------------------------------------------------------------
\* The permits in use are a number, so a permit that is free is one of
\* Concurrency.
LEMMA PermitsAreANumber ==
    ASSUME waiting \in Nat
    PROVE  PermitsInUse \in Nat /\ waiting <= PermitsInUse
<1> DEFINE H == {r \in Req : req[r] \in Pending}
<1>1. IsFiniteSet(Req)
  BY FS_Interval, WorkerAssumption DEF Req
<1>2. IsFiniteSet(H)
  BY <1>1, FS_Subset
<1>3. Cardinality(H) \in Nat
  BY <1>2, FS_CardinalityType
<1>4. PermitsInUse = waiting + Cardinality(H)
  BY DEF PermitsInUse
<1> HIDE DEF H
<1> QED
  BY <1>3, <1>4

\* A worker starts with every id to hand out.
LEMMA WorkerInitInv == WorkerInit => WorkerInv
  BY WorkerAssumption
  DEF WorkerInit, WorkerInv, WorkerTypeOK, IdsLeft, Req, NoReq, Pending, Leased, Settled

\* Every step of the worker keeps its types, and gives no task an id it does
\* not have.
LEMMA WorkerStepInv ==
    ASSUME WorkerInv, NEW up \in BOOLEAN, WorkerAction(up)
    PROVE  WorkerInv' /\ QueuesGrow
<1> USE WorkerAssumption DEF WorkerInv, WorkerTypeOK, IdsLeft
<1>1. CASE AcquirePermit
  BY <1>1, PermitsAreANumber DEF AcquirePermit, QueuesGrow
<1>2. CASE AbandonWait
  BY <1>2 DEF AbandonWait, QueuesGrow
<1>3. CASE SendDispatch(up)
  <2>1. nextId \in Req /\ waiting' \in 0 .. Concurrency /\ IdsLeft'
    BY <1>3 DEF SendDispatch, Req
  <2>2. "lost" \in Settled /\ "sent" \in Pending
    BY DEF Settled, Pending
  <2>3. req' \in [Req -> {"new"} \cup Pending \cup Settled]
    BY <1>3, <2>1, <2>2 DEF SendDispatch
  <2>4. /\ dispatching' \in Req \cup {NoReq}
        /\ workerFds' \subseteq Req
        /\ dispatchQ' \in Seq(Req)
    <3>1. Append(dispatchQ, nextId) \in Seq(Req)
      BY <2>1, AppendProperties
    <3> QED
      BY <1>3, <2>1, <3>1 DEF SendDispatch
  <2>5. QueuesGrow
    BY <1>3, <2>1 DEF SendDispatch, QueuesGrow
  <2> QED
    BY <1>3, <2>1, <2>3, <2>4, <2>5 DEF SendDispatch, Req
<1>4. CASE ReceiveAck
  <2>1. dispatching \in Req /\ ackQ' \in Seq(Req)
    BY <1>4 DEF ReceiveAck
  <2>2. "await" \in Pending /\ "lost" \in Settled
    BY DEF Pending, Leased, Settled
  <2>3. Acknowledge(dispatching, Head(ackQ))
    BY <1>4 DEF ReceiveAck
  <2>4. req' \in [Req -> {"new"} \cup Pending \cup Settled]
    BY <2>1, <2>2, <2>3 DEF Acknowledge
  <2>5. cancels' \in Seq(Req)
    <3>1. Append(cancels, dispatching) \in Seq(Req)
      BY <2>1, AppendProperties
    <3> QED
      BY <2>3, <3>1 DEF Acknowledge
  <2> QED
    BY <1>4, <2>1, <2>4, <2>5 DEF ReceiveAck, QueuesGrow
<1>5. ASSUME NEW r \in Req, TaskAction(r)
      PROVE  WorkerInv' /\ QueuesGrow
  <2>1. Append(cancels, r) \in Seq(Req)
    BY AppendProperties
  <2>2. {"stream", "pump", "done", "lost", "gone"} \subseteq Pending \cup Settled
    BY DEF Pending, Leased, Settled
  <2>3. PICK s \in Pending \cup Settled : req' = [req EXCEPT ![r] = s]
    BY <1>5, <2>2 DEF TaskAction, ReadStart, ReadEnd, ReadEof, ChunkRefused, WriteTimesOut,
       ClientLeaves
  <2>4. cancels' \in Seq(Req)
    BY <1>5, <2>1 DEF TaskAction, ReadStart, ReadEnd, ReadEof, ChunkRefused, WriteTimesOut,
       ClientLeaves, DropLease
  <2>5. UNCHANGED <<worker, waiting, nextId, dispatching, workerFds, dispatchQ, ackQ,
                    cancelQ>>
    BY <1>5 DEF TaskAction, ReadStart, ReadEnd, ReadEof, ChunkRefused, WriteTimesOut, ClientLeaves
  <2>6. frames' \in [Req -> {"none", "start", "chunk", "end", "fail"}]
    BY <1>5 DEF TaskAction, ReadStart, ReadEnd, ReadEof, ChunkRefused, WriteTimesOut, ClientLeaves
  <2> QED
    BY <2>3, <2>4, <2>5, <2>6 DEF QueuesGrow
<1>6. CASE SendCancel(up)
  <2>1. Head(cancels) \in Req /\ Tail(cancels) \in Seq(Req)
    BY <1>6 DEF SendCancel
  <2>2. /\ cancels' \in {Tail(cancels), << >>}
        /\ cancelQ' \in {cancelQ, Append(cancelQ, Head(cancels))}
    BY <1>6, Zenon DEF SendCancel
  <2>3. << >> \in Seq(Req) /\ Append(cancelQ, Head(cancels)) \in Seq(Req)
    BY <2>1, AppendProperties
  <2>4. cancels' \in Seq(Req) /\ cancelQ' \in Seq(Req)
    BY <2>1, <2>2, <2>3
  <2>5. QueuesGrow
    BY <1>6, <2>1, <2>2 DEF SendCancel, QueuesGrow
  <2> QED
    BY <1>6, <2>4, <2>5 DEF SendCancel
<1>7. CASE WorkerExit
  BY <1>7 DEF WorkerExit, QueuesGrow, NoReq, Settled
<1> QED
  BY <1>1, <1>2, <1>3, <1>4, <1>5, <1>6, <1>7 DEF WorkerAction

-----------------------------------------------------------------------------
(***************************************************************************)
(* The protocol of dispatches, acknowledgements and cancellations.         *)
(***************************************************************************)

\* Nothing is under way at the start.
LEMMA WorkerInitProtocol == WorkerInit => ProtocolInv
<1> SUFFICES ASSUME WorkerInit PROVE ProtocolInv
  OBVIOUS
<1>1. Range(dispatchQ) = {} /\ Range(cancels) = {} /\ Range(cancelQ) = {}
  BY EmptyQueue DEF WorkerInit
<1> QED
  BY <1>1, WorkerAssumption
  DEF WorkerInit, ProtocolInv, OneInFlight, HandedOut, CancelsAreSettled, AckedHasLeft, Req, NoReq

\* An HTTP task cancels what it had a lease for, as it settles.
LEMMA TaskProtocol ==
    ASSUME WorkerInv, ProtocolInv, NEW r \in Req, TaskAction(r)
    PROVE  ProtocolInv'
<1> USE DEF WorkerInv, WorkerTypeOK
<1>1. UNCHANGED <<worker, nextId, dispatching, workerFds, dispatchQ, ackQ, cancelQ>>
  BY DEF TaskAction, ReadStart, ReadEnd, ReadEof, ChunkRefused, WriteTimesOut, ClientLeaves
<1>2. PICK s \in {"stream", "pump", "done", "lost", "gone"} : req' = [req EXCEPT ![r] = s]
  BY DEF TaskAction, ReadStart, ReadEnd, ReadEof, ChunkRefused, WriteTimesOut, ClientLeaves
<1>3. /\ req[r] \in Pending
      /\ s \in {"stream", "pump"} => req[r] \in Leased
      /\ s = "done" => req[r] \in Leased
      /\ dispatching = r => s = "gone"
  BY <1>2 DEF TaskAction, ReadStart, ReadEnd, ReadEof, ChunkRefused, WriteTimesOut, ClientLeaves,
     Pending, Leased, ProtocolInv, HandedOut, Req, NoReq
<1>4. \/ cancels' = cancels
      \/ /\ cancels' = Append(cancels, r) /\ req[r] \in Leased /\ s \in {"lost", "gone"}
  BY <1>2 DEF TaskAction, ReadStart, ReadEnd, ReadEof, ChunkRefused, WriteTimesOut, ClientLeaves,
     DropLease, HoldsLease, Leased
<1>5. \/ Range(cancels') = Range(cancels)
      \/ /\ Range(cancels') = Range(cancels) \cup {r}
         /\ req[r] \in Leased /\ s \in {"lost", "gone"}
  BY <1>4, RangeOfAppend
<1>6. Range(cancels) \subseteq Req /\ Range(cancelQ) \subseteq Req /\ Range(dispatchQ) \subseteq Req
  BY RangeOfSeq
<1>7. \A q \in Req : req'[q] = IF q = r THEN s ELSE req[q]
  BY <1>2
<1>8. req[r] \notin {"new", "gone", "lost"} /\ s # "new" /\ (s \in Leased => req[r] \in Leased)
  BY <1>3 DEF Pending, Leased
<1>9. OneInFlight'
  BY <1>1 DEF ProtocolInv, OneInFlight
<1>10. HandedOut'
  <2>1. \A q \in Req : req'[q] = "new" <=> req[q] = "new"
    BY <1>7, <1>8
  <2>2. dispatching \in Req => (req[dispatching] \in {"sent", "gone"}
                                => req'[dispatching] \in {"sent", "gone"})
    BY <1>3, <1>7
  <2> QED
    BY <1>1, <1>6, <2>1, <2>2 DEF ProtocolInv, HandedOut
<1>11. CancelsAreSettled'
  BY <1>1, <1>5, <1>6, <1>7, <1>8 DEF ProtocolInv, CancelsAreSettled
<1>12. AckedHasLeft'
  BY <1>1, <1>5, <1>6, <1>7, <1>8 DEF ProtocolInv, AckedHasLeft
<1> QED
  BY <1>9, <1>10, <1>11, <1>12 DEF ProtocolInv

\* The lock is free only when nothing is in flight, so a second datagram
\* finds the sockets empty.
LEMMA SendProtocol ==
    ASSUME WorkerInv, ProtocolInv, NEW up \in BOOLEAN, SendDispatch(up)
    PROVE  ProtocolInv'
<1> USE DEF WorkerInv, WorkerTypeOK
<1>1. /\ worker = "up" /\ dispatching = NoReq /\ nextId' = nextId + 1 /\ nextId \in Req
      /\ UNCHANGED <<worker, ackQ, cancels, cancelQ>>
  BY WorkerAssumption DEF SendDispatch, LockFree, IdsLeft, Req
<1>2. dispatchQ = << >> /\ ackQ = << >> /\ Range(dispatchQ) = {}
  BY <1>1, EmptyQueue DEF ProtocolInv, OneInFlight
<1>3. Range(cancels) \subseteq Req /\ Range(cancelQ) \subseteq Req
  BY RangeOfSeq
<1>4. nextId \notin Range(cancels) \cup Range(cancelQ)
  BY <1>1, <1>3 DEF ProtocolInv, CancelsAreSettled, HandedOut, Req
<1>5. PICK s \in {"sent", "lost"} :
          /\ req' = [req EXCEPT ![nextId] = s]
          /\ \/ /\ s = "sent" /\ dispatching' = nextId
                /\ workerFds' = workerFds \cup {nextId} /\ dispatchQ' = <<nextId>>
             \/ UNCHANGED <<dispatching, workerFds, dispatchQ>>
  BY <1>2, Singleton DEF SendDispatch
<1>6. \A q \in Req : req'[q] = IF q = nextId THEN s ELSE req[q]
  BY <1>5
<1>7. Range(<<nextId>>) = {nextId} /\ nextId # NoReq
  BY <1>1, Singleton DEF Req, NoReq
<1>8. OneInFlight'
  BY <1>1, <1>2, <1>5, <1>7 DEF OneInFlight
<1>9. HandedOut'
  <2>1. \A r \in Req : req'[r] = "new" <=> r >= nextId'
    BY <1>1, <1>5, <1>6 DEF ProtocolInv, HandedOut, Req
  <2>2. \A r \in Range(dispatchQ') \cup workerFds' : req'[r] # "new"
    BY <1>1, <1>2, <1>5, <1>6, <1>7 DEF ProtocolInv, HandedOut
  <2>3. dispatching' # NoReq => req'[dispatching'] \in {"sent", "gone"}
    BY <1>1, <1>5, <1>6
  <2> QED
    BY <2>1, <2>2, <2>3 DEF HandedOut
<1>10. CancelsAreSettled'
  BY <1>1, <1>3, <1>4, <1>6 DEF ProtocolInv, CancelsAreSettled
<1>11. AckedHasLeft'
  BY <1>1, <1>2, <1>4, <1>5, <1>6, <1>7 DEF AckedHasLeft, Leased
<1> QED
  BY <1>8, <1>9, <1>10, <1>11 DEF ProtocolInv

\* The acknowledgement that is read is the lock holder's own.
LEMMA AckIsOwn ==
    ASSUME WorkerInv, ProtocolInv, ReceiveAck
    PROVE  dispatching \in Req /\ ackQ = <<dispatching>> /\ Head(ackQ) = dispatching
<1>1. worker = "up" /\ dispatching # NoReq /\ ackQ # << >>
  BY DEF ReceiveAck
<1>2. dispatching \in Req
  BY <1>1 DEF WorkerInv, WorkerTypeOK
<1>3. ackQ = <<dispatching>>
  BY <1>1 DEF ProtocolInv, OneInFlight
<1> QED
  BY <1>2, <1>3, Singleton

LEMMA AckProtocol == ASSUME WorkerInv, ProtocolInv, ReceiveAck PROVE ProtocolInv'
<1> USE DEF WorkerInv, WorkerTypeOK
<1> DEFINE r == dispatching
<1>1. /\ r \in Req /\ ackQ = <<r>> /\ Head(ackQ) = r /\ dispatchQ = << >> /\ ackQ' = << >>
      /\ dispatching' = NoReq /\ workerFds' = workerFds \ {r} /\ worker = "up"
      /\ UNCHANGED <<worker, nextId, dispatchQ, cancelQ>>
  BY AckIsOwn, Singleton DEF ReceiveAck, ProtocolInv, OneInFlight
<1>2. Range(dispatchQ') = {}
  BY <1>1, EmptyQueue
<1>3. \/ req[r] = "sent" /\ req' = [req EXCEPT ![r] = "await"] /\ cancels' = cancels
      \/ req[r] = "gone" /\ req' = req /\ cancels' = Append(cancels, r)
  BY <1>1 DEF ReceiveAck, Acknowledge, ProtocolInv, HandedOut
<1>4. \/ Range(cancels') = Range(cancels)
      \/ req[r] = "gone" /\ Range(cancels') = Range(cancels) \cup {r}
  <2>1. Range(Append(cancels, r)) = Range(cancels) \cup {r}
    BY <1>1, RangeOfAppend
  <2> QED
    BY <1>3, <2>1
<1>5. Range(cancels) \subseteq Req /\ Range(cancelQ) \subseteq Req
  BY RangeOfSeq
<1> HIDE DEF r
<1>6. \A q \in Req : req'[q] = req[q] \/ (q = r /\ req[r] = "sent" /\ req'[q] = "await")
  BY <1>1, <1>3
<1>7. OneInFlight'
  BY <1>1 DEF OneInFlight
<1>8. HandedOut'
  BY <1>1, <1>2, <1>6 DEF ProtocolInv, HandedOut
<1>9. CancelsAreSettled'
  BY <1>1, <1>4, <1>5, <1>6 DEF ProtocolInv, CancelsAreSettled
<1>10. AckedHasLeft'
  BY <1>2 DEF AckedHasLeft
<1> QED
  BY <1>7, <1>8, <1>9, <1>10 DEF ProtocolInv

\* Every step of the worker keeps the protocol.
LEMMA WorkerStepProtocol ==
    ASSUME WorkerInv, ProtocolInv, NEW up \in BOOLEAN, WorkerAction(up)
    PROVE  ProtocolInv'
<1> USE DEF WorkerInv, WorkerTypeOK
<1>1. CASE AcquirePermit \/ AbandonWait
  BY <1>1 DEF AcquirePermit, AbandonWait, ProtocolInv, OneInFlight, HandedOut, CancelsAreSettled,
     AckedHasLeft
<1>2. CASE SendCancel(up)
  <2>1. /\ cancels # << >> /\ cancels' \in {Tail(cancels), << >>}
        /\ cancelQ' \in {cancelQ, Append(cancelQ, Head(cancels))}
    BY <1>2, Zenon DEF SendCancel
  <2>2. UNCHANGED <<worker, nextId, req, dispatching, workerFds, dispatchQ, ackQ>>
    BY <1>2 DEF SendCancel
  <2>3. Range(cancels') \cup Range(cancelQ') \subseteq Range(cancels) \cup Range(cancelQ)
    <3>1. Head(cancels) \in Range(cancels) /\ Head(cancels) \in Req
          /\ Range(Tail(cancels)) \subseteq Range(cancels)
      BY <2>1, RangeOfTail
    <3>2. Range(Append(cancelQ, Head(cancels))) = Range(cancelQ) \cup {Head(cancels)}
      BY <3>1, RangeOfAppend
    <3>3. Range(<< >>) = {}
      BY EmptyQueue
    <3> QED
      BY <2>1, <3>1, <3>2, <3>3
  <2> QED
    BY <2>2, <2>3 DEF ProtocolInv, OneInFlight, HandedOut, CancelsAreSettled, AckedHasLeft
<1>3. CASE WorkerExit
  <2>1. /\ worker' = "gone" /\ dispatching' = NoReq /\ workerFds' = {} /\ cancels' = << >>
        /\ UNCHANGED <<nextId, dispatchQ, ackQ, cancelQ>>
        /\ req' = [r \in Req |-> IF req[r] \in Pending THEN "gone" ELSE req[r]]
    BY <1>3 DEF WorkerExit
  <2>2. Range(cancels') = {}
    BY <2>1, EmptyQueue
  <2>3. \A r \in Req : /\ req'[r] = "new" <=> req[r] = "new"
                       /\ req[r] \in {"gone", "lost"} => req'[r] = req[r]
                       /\ req'[r] \notin Leased
    BY <2>1 DEF Pending, Leased
  <2>4. Range(dispatchQ) \subseteq Req /\ Range(cancelQ) \subseteq Req
    BY RangeOfSeq
  <2> QED
    BY <2>1, <2>2, <2>3, <2>4
    DEF ProtocolInv, OneInFlight, HandedOut, CancelsAreSettled, AckedHasLeft
<1> QED
  BY <1>1, <1>2, <1>3, TaskProtocol, SendProtocol, AckProtocol DEF WorkerAction

\* Every step of the broker does too: it takes a dispatch, and acknowledges
\* it, or a cancellation, or drops what is on its way.
LEMMA BrokerProtocol ==
    ASSUME WorkerInv, ProtocolInv,
           UNCHANGED <<worker, nextId, req, dispatching, workerFds, cancels>>,
           cancelQ' = cancelQ \/ (cancelQ # << >> /\ cancelQ' = Tail(cancelQ)),
           \/ dispatchQ' \in {dispatchQ, << >>} /\ ackQ' = ackQ
           \/ /\ dispatchQ # << >> /\ dispatchQ' = Tail(dispatchQ)
              /\ ackQ' = Append(ackQ, Head(dispatchQ)) \/ worker = "gone"
    PROVE  ProtocolInv'
<1> USE DEF WorkerInv, WorkerTypeOK
<1>1. Range(cancelQ') \subseteq Range(cancelQ)
  BY RangeOfTail
<1>2. Range(dispatchQ') \subseteq Range(dispatchQ)
  BY RangeOfTail, EmptyQueue
<1>3. OneInFlight'
  BY Singleton DEF ProtocolInv, OneInFlight
<1> QED
  BY <1>1, <1>2, <1>3 DEF ProtocolInv, HandedOut, CancelsAreSettled, AckedHasLeft
=============================================================================
