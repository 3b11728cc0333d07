--------------------------- MODULE WorkerDispatch ---------------------------
(***************************************************************************)
(* The web worker's half of the isolated-handler protocol                  *)
(* (crates/elephc-web/src/handler_broker.rs).  HTTP tasks of one Tokio     *)
(* worker take a concurrency permit, send the handler end of a fresh       *)
(* stream pair to the broker under a mutex, and read the response frames   *)
(* the handler writes.  A detached task owns the acknowledgement, so an    *)
(* HTTP task may vanish at any point; from the first chunk on another      *)
(* detached task, the pump, owns the rest of the response.                 *)
(*                                                                         *)
(* The module has the worker's state and actions only; HandlerPool and     *)
(* RequestBroker extend it with the process at the other end.              *)
(***************************************************************************)
EXTENDS Naturals, Sequences, FiniteSets

CONSTANTS MaxRequests,   \* bound: dispatch ids handed out by next_id
          Concurrency    \* --handler-concurrency: permits and live handlers

ASSUME WorkerAssumption ==
    /\ MaxRequests \in Nat \ {0}
    /\ Concurrency \in Nat \ {0}

Req   == 1 .. MaxRequests
NoReq == 0

VARIABLES
    worker,        \* "up" or "gone": the web worker process
    waiting,       \* HTTP tasks that hold a permit and wait for the dispatch lock
    nextId,        \* next_id
    req,           \* req[r]: how far the HTTP task of dispatch r got
    dispatching,   \* the id whose ACK owner holds the dispatch lock, or NoReq
    workerFds,     \* ids whose broker_stream copy the worker still holds
    dispatchQ,     \* dispatch datagrams (id and descriptor) on their way to the broker
    ackQ,          \* acknowledgements on their way back
    cancels,       \* cancelled ids in the channel of the cancel-sender thread
    cancelQ,       \* cancelled ids on their way to the broker
    frames         \* frames[r]: what was written to the stream of r; "chunk" is output
                   \* for a client that is gone, "fail" the complete 500 of
                   \* write_failure_response

workerVars == <<worker, waiting, nextId, req, dispatching, workerFds,
                dispatchQ, ackQ, cancels, cancelQ, frames>>

\* A permit is held in these states, and an active lease in all but "sent".  In
\* "stream" the pump feeds the client; in "pump" the client is gone and the
\* pump does not know.
Leased  == {"await", "stream", "pump"}
Pending == {"sent"} \cup Leased
Settled == {"done", "lost", "gone"}

\* The stream has its End frame.  Mutant: any frame will do.
MutEnded(r) == frames[r] # "none"
Ended(r) == frames[r] \in {"end", "fail"}

WorkerTypeOK ==
    /\ worker \in {"up", "gone"}
    /\ waiting \in 0 .. Concurrency
    /\ nextId \in 1 .. MaxRequests + 1
    /\ req \in [Req -> {"new"} \cup Pending \cup Settled]
    /\ dispatching \in Req \cup {NoReq}
    /\ workerFds \subseteq Req
    /\ dispatchQ \in Seq(Req)
    /\ ackQ \in Seq(Req)
    /\ cancels \in Seq(Req)
    /\ cancelQ \in Seq(Req)
    /\ frames \in [Req -> {"none", "start", "chunk", "end", "fail"}]

WorkerInit ==
    /\ worker = "up"
    /\ waiting = 0
    /\ nextId = 1
    /\ req = [r \in Req |-> "new"]
    /\ dispatching = NoReq
    /\ workerFds = {}
    /\ dispatchQ = <<>>
    /\ ackQ = <<>>
    /\ cancels = <<>>
    /\ cancelQ = <<>>
    /\ frames = [r \in Req |-> "none"]

PermitsInUse == waiting + Cardinality({r \in Req : req[r] \in Pending})

(***************************************************************************)
(* dispatch(): permit, lock, id, SCM_RIGHTS datagram.                      *)
(***************************************************************************)
AcquirePermit ==
    /\ worker = "up"
    /\ PermitsInUse < Concurrency
    /\ nextId + waiting <= MaxRequests          \* bound
    /\ waiting' = waiting + 1
    /\ UNCHANGED <<worker, nextId, req, dispatching, workerFds, dispatchQ,
                   ackQ, cancels, cancelQ, frames>>

\* The HTTP task is dropped before it has the lock: no id, no cancellation.
AbandonWait ==
    /\ waiting > 0
    /\ waiting' = waiting - 1
    /\ UNCHANGED <<worker, nextId, req, dispatching, workerFds, dispatchQ,
                   ackQ, cancels, cancelQ, frames>>

\* The guard every sender passes: the lock, held from sendmsg to the ACK.
\* Mutant: the lock is released before the ACK is read.
MutLockFree == TRUE
LockFree == dispatching = NoReq

\* The id is taken under the lock; a dead broker refuses the datagram.
SendDispatch(brokerUp) ==
    /\ worker = "up"
    /\ waiting > 0
    /\ LockFree
    /\ waiting' = waiting - 1
    /\ nextId' = nextId + 1
    /\ \/ /\ brokerUp
          /\ req' = [req EXCEPT ![nextId] = "sent"]
          /\ dispatching' = nextId
          /\ workerFds' = workerFds \cup {nextId}
          /\ dispatchQ' = Append(dispatchQ, nextId)
       \/ /\ ~brokerUp
          /\ req' = [req EXCEPT ![nextId] = "lost"]
          /\ UNCHANGED <<dispatching, workerFds, dispatchQ>>
    /\ UNCHANGED <<worker, ackQ, cancels, cancelQ, frames>>

\* What the ACK owner leaves behind when it releases the lock: a lease for a
\* task that still waits, a cancellation for one that vanished (or for a
\* foreign acknowledgement, which is an error).
\* Mutant: an ACK owner that creates no lease for a vanished task.
MutAcknowledge(r, acked) ==
    /\ req' = [req EXCEPT ![r] = IF @ = "sent" THEN "await" ELSE @]
    /\ UNCHANGED cancels
Acknowledge(r, acked) ==
    IF acked = r /\ req[r] = "sent"
    THEN /\ req' = [req EXCEPT ![r] = "await"]
         /\ UNCHANGED cancels
    ELSE /\ req' = [req EXCEPT ![r] = IF @ = "sent" THEN "lost" ELSE @]
         /\ cancels' = Append(cancels, r)

ReceiveAck ==
    /\ worker = "up"
    /\ dispatching # NoReq
    /\ ackQ # <<>>
    /\ ackQ' = Tail(ackQ)
    /\ workerFds' = workerFds \ {dispatching}
    /\ Acknowledge(dispatching, Head(ackQ))
    /\ dispatching' = NoReq
    /\ UNCHANGED <<worker, waiting, nextId, dispatchQ, cancelQ, frames>>

(***************************************************************************)
(* Reading the response; dropping an active lease sends the exact id.      *)
(***************************************************************************)
\* Mutant: the id of whichever dispatch is under way.
MutDropLease(r) == cancels' = Append(cancels, dispatching)
DropLease(r) == cancels' = Append(cancels, r)

\* Start and the first chunk are read, and the pump is spawned.
ReadStart(r) ==
    /\ req[r] = "await"
    /\ frames[r] # "none"
    /\ req' = [req EXCEPT ![r] = "stream"]
    /\ UNCHANGED <<worker, waiting, nextId, dispatching, workerFds, dispatchQ,
                   ackQ, cancels, cancelQ, frames>>

\* The pump of a client that is gone may find a last chunk before the End.
ReadEnd(r) ==
    /\ Ended(r)
    /\ \/ req[r] = "stream" /\ req' = [req EXCEPT ![r] = "done"] /\ UNCHANGED cancels
       \/ /\ req[r] = "pump"
          /\ req' = [req EXCEPT ![r] = "gone"]
          /\ DropLease(r) \/ UNCHANGED cancels
    /\ UNCHANGED <<worker, waiting, nextId, dispatching, workerFds, dispatchQ,
                   ackQ, cancelQ, frames>>

\* End of file (or EPIPE while writing the request): a 500 before Start, a
\* broken-off body after it.
ReadEof(r, open) ==
    /\ req[r] \in Leased
    /\ ~open
    /\ ~Ended(r)
    /\ req' = [req EXCEPT ![r] = IF @ = "pump" THEN "gone" ELSE "lost"]
    /\ DropLease(r)
    /\ UNCHANGED <<worker, waiting, nextId, dispatching, workerFds, dispatchQ,
                   ackQ, cancelQ, frames>>

\* The pump reads a chunk it cannot hand to a client that is gone.
ChunkRefused(r) ==
    /\ req[r] = "pump"
    /\ frames[r] = "chunk"
    /\ frames' = [frames EXCEPT ![r] = "start"]
    /\ req' = [req EXCEPT ![r] = "gone"]
    /\ DropLease(r)
    /\ UNCHANGED <<worker, waiting, nextId, dispatching, workerFds, dispatchQ,
                   ackQ, cancelQ>>

\* --response-write-timeout: the client is there and does not read.
WriteTimesOut(r) ==
    /\ req[r] = "stream"
    /\ req' = [req EXCEPT ![r] = "gone"]
    /\ DropLease(r)
    /\ UNCHANGED <<worker, waiting, nextId, dispatching, workerFds, dispatchQ,
                   ackQ, cancelQ, frames>>

\* Only an acknowledged request has a lease to drop.
\* Mutant: a lease that exists before the ACK.
MutHoldsLease(r) == req[r] \in Pending
HoldsLease(r) == req[r] \in Leased

\* The client disconnects: the HTTP task goes.  The pump does not watch the
\* client: it keeps the lease until it has something to send.
ClientLeaves(r) ==
    /\ \/ /\ req[r] \in {"sent", "await"}
          /\ req' = [req EXCEPT ![r] = "gone"]
          /\ IF HoldsLease(r) THEN DropLease(r) ELSE UNCHANGED cancels
       \/ /\ req[r] = "stream"
          /\ req' = [req EXCEPT ![r] = "pump"]
          /\ UNCHANGED cancels
    /\ UNCHANGED <<worker, waiting, nextId, dispatching, workerFds, dispatchQ,
                   ackQ, cancelQ, frames>>

\* The cancel-sender thread writes one id to the broker's socket, and gives
\* up for good when there is no broker.
SendCancel(brokerUp) ==
    /\ cancels # <<>>
    /\ IF brokerUp
       THEN cancels' = Tail(cancels) /\ cancelQ' = Append(cancelQ, Head(cancels))
       ELSE cancels' = <<>> /\ UNCHANGED cancelQ
    /\ UNCHANGED <<worker, waiting, nextId, req, dispatching, workerFds, dispatchQ,
                   ackQ, frames>>

\* What getppid() tells the broker.  Mutant: it never asks.
MutParentGone == FALSE
ParentGone == worker = "gone"

\* The monitor thread reaps the broker and exits the process; or a crash.
WorkerExit ==
    /\ worker = "up"
    /\ worker' = "gone"
    /\ waiting' = 0
    /\ req' = [r \in Req |-> IF req[r] \in Pending THEN "gone" ELSE req[r]]
    /\ dispatching' = NoReq
    /\ workerFds' = {}
    /\ cancels' = <<>>
    /\ UNCHANGED <<nextId, dispatchQ, ackQ, cancelQ, frames>>
=============================================================================
