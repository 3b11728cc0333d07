------------------------------ MODULE WebWorker ------------------------------
(***************************************************************************)
(* One web worker: its accept loop, its connections, the --max-requests    *)
(* recycle and its shutdown.  worker.rs serves the default and the         *)
(* application lifecycle in the worker's own thread; isolated_worker.rs    *)
(* has the same loop, with the handlers behind a broker process.           *)
(*                                                                         *)
(* The Tokio runtime has one thread: connection tasks run only where the   *)
(* accept loop awaits, and not at all while PHP runs in the thread.        *)
(* Signals, clients, the broker and the monitor thread interleave freely.  *)
(***************************************************************************)
EXTENDS Naturals, FiniteSets

CONSTANTS Modes,        \* the compiled-in variants to consider
          MaxConns,     \* bound: connections clients ever open
          MaxRequests   \* --max-requests, 0 for never

ASSUME WorkerAssumption ==
    /\ Modes \subseteq {"worker", "application", "isolated"}
    /\ MaxConns \in Nat
    /\ MaxRequests \in Nat

Conn == 1 .. MaxConns
Main == 0                       \* the accept loop, as a receiver of the recycle

VARIABLES
    mode,                  \* the variant that was compiled in
    pc,                    \* where the accept loop stands
    stop, deferred,        \* APPLICATION_STOP; a signal blocked while PHP runs
    recycle, unseen,       \* the watch channel: its value, and who has not seen its last send
    conn, asked,           \* the connections; those told to close (graceful_shutdown)
    served,                \* SERVED, saturated above the quota (bound)
    hooks,                 \* calls of the application's shutdown hook
    requested, broker,     \* REQUESTED_WORKER_EXIT; the broker process
    code                   \* how the worker exited

watchVars  == <<recycle, unseen>>
signalVars == <<stop, deferred, requested, broker>>
connVars   == <<conn, asked, served>>
exitVars   == <<hooks, code>>
vars       == <<mode, pc, watchVars, signalVars, connVars, exitVars>>

\* "fresh": accepted, no request yet; "idle": between two requests; "body":
\* its request is being received; "reject": a 408 or 413 is being written;
\* "write": the response of a handler is; "left": the client of an isolated
\* handler is gone, and its response is still pumped.
InRequest(c) == conn[c] \in {"body", "handler", "write", "reject"}
Open(c)      == conn[c] \in {"fresh", "idle"} \/ InRequest(c)

\* PHP runs in the worker's thread.
InCallback ==
    \/ pc \in {"boot", "undo", "hook"}
    \/ mode # "isolated" /\ \E c \in Conn : conn[c] = "handler"

\* The thread is in the runtime, so a connection's task may run.
Yielded == pc \in {"select", "drain"} /\ ~InCallback

TypeOK ==
    /\ mode \in Modes
    /\ pc \in {"boot", "undo", "top", "select", "accepted", "drain", "hook", "pause", "exited"}
    /\ stop \in BOOLEAN /\ deferred \in BOOLEAN
    /\ recycle \in BOOLEAN /\ unseen \subseteq Conn \cup {Main}
    /\ conn \in [Conn -> {"new", "backlog", "accepted", "fresh", "idle", "body", "handler",
                          "write", "reject", "left", "closed"}]
    /\ asked \subseteq Conn
    /\ served \in 0 .. MaxRequests + 1
    /\ hooks \in 0 .. 1
    /\ requested \in {"none", "zero", "recycle"}
    /\ broker \in {"up", "term", "dead"}
    /\ code \in {"none", "recycle", "zero", "failure", "bootstrap", "signal"}

Init ==
    /\ mode \in Modes
    /\ pc = IF mode = "application" THEN "boot" ELSE "top"
    /\ stop = FALSE /\ deferred = FALSE
    /\ recycle = FALSE /\ unseen = {}
    /\ conn = [c \in Conn |-> "new"] /\ asked = {} /\ served = 0
    /\ hooks = 0 /\ code = "none"
    /\ requested = "none" /\ broker = "up"

\* A task subscribes when it is spawned; a send reaches every subscriber that
\* still listens.
Send == recycle' = TRUE /\ unseen' = {c \in Conn : Open(c) /\ c \notin asked} \cup {Main}

Exit(how) == pc' = "exited" /\ code' = how

\* drop(listener): what is still in its backlog is reset.
CloseListener(now) ==
    conn' = [c \in Conn |-> IF now[c] = "backlog" THEN "closed" ELSE now[c]]

-----------------------------------------------------------------------------
(***************************************************************************)
(* The accept loop.                                                        *)
(***************************************************************************)

\* The post-fork PHP bootstrap of an application; signals wait for its end.
BootEnds ==
    /\ pc = "boot"
    /\ pc' \in {"top", "undo"}
    /\ stop' = (stop \/ deferred) /\ deferred' = FALSE
    /\ UNCHANGED <<mode, watchVars, requested, broker, connVars, exitVars>>

\* A bootstrap that failed: the application is released, its hook not called.
BootUndone ==
    /\ pc = "undo"
    /\ Exit("bootstrap")
    /\ UNCHANGED <<mode, watchVars, signalVars, connVars, hooks>>

\* Mutant: an application that is told to stop does not look.
MutStopSeen == FALSE
StopSeen == mode = "application" /\ stop

LoopTop ==
    /\ pc = "top"
    /\ \/ /\ StopSeen
          /\ Send
          /\ pc' = "drain" /\ CloseListener(conn)
       \/ /\ ~StopSeen /\ recycle
          /\ pc' = "drain" /\ CloseListener(conn)
          /\ UNCHANGED watchVars
       \/ /\ ~StopSeen /\ ~recycle
          /\ pc' = "select"
          /\ UNCHANGED <<watchVars, conn>>
    /\ UNCHANGED <<mode, signalVars, asked, served, exitVars>>

\* select!: the 50 ms tick of an application, the recycle, or a connection,
\* in any order when several are ready.
SelectTick ==
    /\ pc = "select" /\ Yielded
    /\ mode = "application"
    /\ pc' = "top"
    /\ UNCHANGED <<mode, watchVars, signalVars, connVars, exitVars>>

SelectRecycle ==
    /\ pc = "select" /\ Yielded
    /\ Main \in unseen
    /\ unseen' = unseen \ {Main}
    /\ pc' = "drain" /\ CloseListener(conn)
    /\ UNCHANGED <<mode, recycle, signalVars, asked, served, exitVars>>

SelectAccept ==
    /\ pc = "select" /\ Yielded
    /\ \E c \in Conn : conn[c] = "backlog" /\ conn' = [conn EXCEPT ![c] = "accepted"]
    /\ pc' = "accepted"
    /\ UNCHANGED <<mode, watchVars, signalVars, asked, served, exitVars>>

\* "The accept future and quota notification can become ready in the same
\* poll": only an application looks again.  Mutant: it does not either.
MutLate == FALSE
Late == mode = "application" /\ (stop \/ recycle)

\* The late connection is dropped and the loop left, without a send.
DropAccepted ==
    /\ pc = "accepted"
    /\ Late
    /\ pc' = "drain"
    /\ CloseListener([c \in Conn |-> IF conn[c] = "accepted" THEN "closed" ELSE conn[c]])
    /\ UNCHANGED <<mode, watchVars, signalVars, asked, served, exitVars>>

\* Its task subscribes now: an earlier send is not news to it.  Or accept
\* returned an error.
SpawnAccepted ==
    /\ pc = "accepted"
    /\ ~Late
    /\ pc' = "top"
    /\ \E result \in {"fresh", "closed"} :
          conn' = [c \in Conn |-> IF conn[c] = "accepted" THEN result ELSE conn[c]]
    /\ UNCHANGED <<mode, watchVars, signalVars, asked, served, exitVars>>

\* Every task was awaited.  Mutant: only those that were told.
MutDrained == \A c \in asked : ~Open(c)
Drained == \A c \in Conn : ~Open(c)

\* An application runs its hook, an isolated worker asks its broker to end
\* (finish_worker_recycle), a plain one exits.
DrainEnds ==
    /\ pc = "drain" /\ Yielded
    /\ Drained
    /\ \/ mode = "worker" /\ Exit("recycle") /\ UNCHANGED <<hooks, signalVars>>
       \/ /\ mode = "application" /\ pc' = "hook" /\ hooks' = hooks + 1
          /\ UNCHANGED <<code, signalVars>>
       \/ /\ mode = "isolated" /\ pc' = "pause"
          /\ requested' = "recycle"
          /\ broker' = IF broker = "up" THEN "term" ELSE broker
          /\ UNCHANGED <<exitVars, stop, deferred>>
    /\ UNCHANGED <<mode, watchVars, connVars>>

\* Mutant: the drain again.
MutAfterHook == pc' = "drain" /\ UNCHANGED code
AfterHook == Exit("recycle")

HookEnds ==
    /\ pc = "hook"
    /\ AfterHook
    /\ stop' = (stop \/ deferred) /\ deferred' = FALSE
    /\ UNCHANGED <<mode, watchVars, requested, broker, connVars, hooks>>

-----------------------------------------------------------------------------
(***************************************************************************)
(* A connection's task and its client.                                     *)
(***************************************************************************)
Arrive(c) ==
    /\ conn[c] = "new"
    /\ pc \in {"top", "select", "accepted"}
    /\ conn' = [conn EXCEPT ![c] = "backlog"]
    /\ UNCHANGED <<mode, pc, watchVars, signalVars, asked, served, exitVars>>

RequestArrives(c) ==
    /\ Yielded
    /\ conn[c] \in {"fresh", "idle"}
    /\ conn' = [conn EXCEPT ![c] = "body"]
    /\ UNCHANGED <<mode, pc, watchVars, signalVars, asked, served, exitVars>>

\* The body is there and the handler is called, or dispatched to the broker.
BodyEnds(c) ==
    /\ Yielded
    /\ conn[c] = "body"
    /\ conn' = [conn EXCEPT ![c] = "handler"]
    /\ UNCHANGED <<mode, pc, watchVars, signalVars, asked, served, exitVars>>

\* Too large, or too late: no handler runs, nothing is counted.
BodyRejected(c) ==
    /\ Yielded
    /\ conn[c] = "body"
    /\ conn' = [conn EXCEPT ![c] = "reject"]
    /\ UNCHANGED <<mode, pc, watchVars, signalVars, asked, served, exitVars>>

\* Mutant: only the request that reaches the quota broadcasts.
MutQuotaReached(n) == MaxRequests > 0 /\ n = MaxRequests
QuotaReached(n) == MaxRequests > 0 /\ n >= MaxRequests

\* record_completed_request.
Record ==
    /\ served' = IF served > MaxRequests THEN served ELSE served + 1
    /\ IF QuotaReached(served') THEN Send ELSE UNCHANGED watchVars

\* The handler returned, or its broker's answer (a failure's 500 too) is
\* complete; signals held back by the deferral arrive.
HandlerReturns(c) ==
    /\ pc \in {"select", "drain"}
    /\ conn[c] = "handler"
    /\ conn' = [conn EXCEPT ![c] = "write"]
    /\ Record
    /\ stop' = (stop \/ deferred) /\ deferred' = FALSE
    /\ UNCHANGED <<mode, pc, requested, broker, asked, exitVars>>

\* Without keep-alive the connection ends with its response; an unread body
\* may end it too.
ResponseWritten(c) ==
    /\ Yielded
    /\ conn[c] \in {"write", "reject"}
    /\ \/ c \notin asked /\ conn' = [conn EXCEPT ![c] = "idle"]
       \/ /\ c \in asked \/ conn[c] = "reject"
          /\ conn' = [conn EXCEPT ![c] = "closed"]
    /\ UNCHANGED <<mode, pc, watchVars, signalVars, asked, served, exitVars>>

\* changed() of the task's receiver: an idle connection closes at once.
Told(c) ==
    /\ Yielded
    /\ Open(c) /\ c \in unseen /\ c \notin asked
    /\ unseen' = unseen \ {c}
    /\ asked' = asked \cup {c}
    /\ conn' = [conn EXCEPT ![c] = IF @ = "idle" THEN "closed" ELSE @]
    /\ UNCHANGED <<mode, pc, recycle, signalVars, served, exitVars>>

\* The 30 s header timer of a connection without a request.
HeaderTimeout(c) ==
    /\ pc # "exited"
    /\ conn[c] \in {"fresh", "idle"}
    /\ conn' = [conn EXCEPT ![c] = "closed"]
    /\ UNCHANGED <<mode, pc, watchVars, signalVars, asked, served, exitVars>>

\* The client goes.  The handler of a plain worker runs on unaware of it; an
\* isolated one is cancelled uncounted if its response has not begun, and
\* counted if the worker breaks the response off; else its pump goes on.
ClientCloses(c) ==
    /\ Yielded
    /\ Open(c)
    /\ conn[c] = "handler" => mode = "isolated"
    /\ \/ conn' = [conn EXCEPT ![c] = "closed"] /\ UNCHANGED <<served, watchVars>>
       \/ conn[c] = "handler" /\ conn' = [conn EXCEPT ![c] = "closed"] /\ Record
       \/ conn[c] = "handler" /\ conn' = [conn EXCEPT ![c] = "left"]
             /\ UNCHANGED <<served, watchVars>>
    /\ UNCHANGED <<mode, pc, signalVars, asked, exitVars>>

\* pump_response of a client that is gone: the next chunk is refused, or the
\* response ends; no drain waits for it.
PumpEnds(c) ==
    /\ Yielded
    /\ conn[c] = "left"
    /\ conn' = [conn EXCEPT ![c] = "closed"]
    /\ Record
    /\ UNCHANGED <<mode, pc, signalVars, asked, exitVars>>

-----------------------------------------------------------------------------
(***************************************************************************)
(* Signals, crashes, and the broker of an isolated worker.                 *)
(***************************************************************************)

\* SIGTERM: the default action, a flag (later, if PHP runs), or forwarded to
\* the broker.
Sigterm ==
    /\ pc # "exited"
    /\ \/ mode = "worker" /\ Exit("signal") /\ UNCHANGED signalVars
       \/ /\ mode = "application"
          /\ IF InCallback THEN deferred' = TRUE /\ UNCHANGED stop
                           ELSE stop' = TRUE /\ UNCHANGED deferred
          /\ UNCHANGED <<pc, code, requested, broker>>
       \/ /\ mode = "isolated"
          /\ requested' = "zero"
          /\ broker' = IF broker = "up" THEN "term" ELSE broker
          /\ UNCHANGED <<pc, code, stop, deferred>>
    /\ UNCHANGED <<mode, watchVars, connVars, hooks>>

\* A fatal error, or the SIGALRM of --max-execution-time, in PHP code.
PhpDies ==
    /\ pc # "exited"
    /\ InCallback
    /\ Exit("failure")
    /\ UNCHANGED <<mode, watchVars, signalVars, connVars, hooks>>

\* The broker ends with its handlers, asked to or not.
BrokerEnds ==
    /\ mode = "isolated" /\ pc # "exited"
    /\ broker \in {"up", "term"}
    /\ broker' = "dead"
    /\ UNCHANGED <<mode, pc, stop, deferred, requested, watchVars, connVars, exitVars>>

\* The monitor thread reaped it and exits the process with what was requested.
MonitorExits ==
    /\ pc # "exited"
    /\ broker = "dead"
    /\ Exit(IF requested = "none" THEN "failure" ELSE requested)
    /\ UNCHANGED <<mode, watchVars, signalVars, connVars, hooks>>

-----------------------------------------------------------------------------
\* The loop's own steps, and those that wait for the application's PHP code.
LoopStep ==
    \/ LoopTop \/ SelectTick \/ SelectRecycle \/ SelectAccept
    \/ DropAccepted \/ SpawnAccepted \/ DrainEnds
PhpStep == BootEnds \/ BootUndone \/ HookEnds

Next ==
    \/ LoopStep \/ PhpStep
    \/ Sigterm \/ PhpDies \/ BrokerEnds \/ MonitorExits
    \/ \E c \in Conn :
          \/ Arrive(c) \/ RequestArrives(c) \/ BodyEnds(c) \/ BodyRejected(c)
          \/ HandlerReturns(c) \/ ResponseWritten(c) \/ Told(c)
          \/ HeaderTimeout(c) \/ ClientCloses(c) \/ PumpEnds(c)

Spec == Init /\ [][Next]_vars

\* Tokio polls every task that was woken, so the steps of the loop and of the
\* tasks are strongly fair; --body-read-timeout (30 s unless set to 0) ends
\* "body" and the header timer "idle".  Nothing makes PHP code return or a
\* client read: PhpStep, HandlerReturns and ResponseWritten have no fairness.
Fairness ==
    /\ SF_vars(LoopStep)
    /\ WF_vars(BrokerEnds /\ broker = "term")
    /\ WF_vars(MonitorExits)
    /\ \A c \in Conn :
          /\ SF_vars(Told(c))
          /\ SF_vars(BodyEnds(c) \/ BodyRejected(c))
          /\ WF_vars(HeaderTimeout(c))

FairSpec == Spec /\ Fairness

-----------------------------------------------------------------------------
(***************************************************************************)
(* Properties.                                                             *)
(***************************************************************************)

\* A worker that exits as planned has cut no request short: every response
\* is written, an application's hook was called, and called last, and an
\* isolated worker leaves no broker behind.
PlannedExitIsClean ==
    code = "recycle" =>
        /\ \A c \in Conn : ~InRequest(c)
        /\ mode = "application" => hooks = 1
        /\ mode = "isolated" => broker = "dead"

\* At most one connection slips past the recycle untold; an application,
\* which looks again after accept, has none.
Untold == {c \in Conn : recycle /\ Open(c) /\ c \notin asked \cup unseen}
FewUntold == Cardinality(Untold) <= IF mode = "application" THEN 0 ELSE 1

\* What may last for ever without a limit: the bootstrap or the hook, which
\* run without an alarm; a handler, if --max-execution-time is 0; a response
\* nobody reads; one rejected request after another.
PhpHangs         == <>[](pc \in {"boot", "undo", "hook"})
HandlerHangs(c)  == <>[](conn[c] = "handler")
ReaderStalls(c)  == <>[](conn[c] = "write")
OnlyRejected(c)  == []<>(conn[c] = "reject")
SomethingLasts ==
    \/ PhpHangs
    \/ \E c \in Conn : HandlerHangs(c) \/ ReaderStalls(c) \/ OnlyRejected(c)

\* "--max-requests stops new accepts at the quota, asks keep-alive connections
\* to close after their current responses, drains in-flight work"
\* (docs/beyond-php/web.md): a worker whose quota is reached does exit, also
\* with clients that never stop sending, unless some PHP call or some
\* response of its own lasts for ever.
RecycleCompletes == (recycle ~> pc = "exited") \/ SomethingLasts

\* "On SIGTERM or SIGINT, an application worker stops accepting and drains
\* active connections before shutdown" (docs/beyond-php/web-application.md);
\* that PHP calls return and clients read is granted.
StopCompletes == (stop ~> pc = "exited") \/ SomethingLasts

\* With that granted one case is left in which a stop hangs: the loop was
\* left by way of a late connection, which tells nobody.
StopHangsOnlyUntold ==
    (stop ~> (pc = "exited" \/ (pc = "drain" /\ ~recycle))) \/ SomethingLasts
=============================================================================
