# elephc in TLA+

elephc compiles PHP to native code. Most of it is a sequential translator; the
part with behaviour of its own is what surrounds the compiled program and the
compiler when they run: the prefork web server of `crates/elephc-web`
(processes, sockets, signals, timeouts), the object cache that concurrent
compilers share (`src/runtime_cache`), and the memory management and coroutines
of the runtime. This directory specifies the server with its sessions, the cache
and the memory management of objects, checks the specifications with TLC on
small instances, and proves the most important safety properties with TLAPS for
instances of any size.

Paths below are relative to the repository. `map` in `PROJECT.json` gives, for
every definition, the lines it was read from.

## Parts of the system

### Web server

| Part | State | Operations | Talks to | What is hard |
|---|---|---|---|---|
| Master (`server.rs`) | the tracked pids and birth times, `SHUTDOWN`, the count of fast deaths | fork, `waitpid`, crash-loop guard, respawn, teardown | workers by fork, signal, exit status; the init system as PID 1 | signals between two instructions, deaths that race with a shutdown, strangers to reap |
| Worker (`worker.rs`, `isolated_worker.rs`) | the connections, the watch channel of the recycle, `SERVED`, `APPLICATION_STOP`, the exit code asked for | accept, serve a request, broadcast the quota, drain, hook, exit | clients; PHP in its own thread or behind a broker | one thread awaits while signals, clients and other tasks go on; a connection accepted during the broadcast |
| Dispatch (`handler_broker.rs`, `control.rs`) | permits, dispatch lock, ids, leases, the cancel queue | dispatch, acknowledge, cancel, monitor the broker | the broker, by two datagram pairs and one stream per request | HTTP tasks vanish at any await; the broker may be gone |
| Pool broker (`process/pool.rs`) | slots (pid, busy id, retiring), pending requests, early cancellations | reap, assign, replace, cancel, serve statuses, stop | its children, by a control pair each and one status socket | stale completions, kills, quota, death at every step |
| Request broker (`process/request.rs`) | the queue, the map from id to pid | fork a child per request, cancel, reap, stop | its children by fork, kill and `waitpid` | reuse of pids, descriptors inherited over fork |
| Handler child (`process/handler.rs`, `process.rs`) | the request it runs, the requests it served | receive, acknowledge, run, report, exit | the broker; the client's stream | may run for ever, die anywhere |
| Sessions (`session/`) | the session file and its lock, the data read, upload-progress entries | read, write, touch, destroy, gc, progress updates | other requests of the session, by the file | locks on files that have been unlinked; two writers |
| Signal deferral (`elephc-process-context`) | deferral depth, the signals held back, spawn permits | defer, restore, spawn | worker and PHP | a signal during PHP must not be lost |

### Compiler and runtime

| Part | State | What is hard |
|---|---|---|
| Object cache (`src/runtime_cache*`) | objects, checksums, temporaries, leases in one directory | compilers are processes that share nothing but the directory; each may be killed |
| Memory management (`src/codegen_support/runtime/arrays`, `objects/call_destructor.rs`) | reference counts, destructor bits, the collector's marks and pins | PHP destructors that run inside a free or a collection, resurrect, throw and allocate |
| Fibers and generators (`src/codegen_support/runtime/fibers`, `generators`) | state and saved stack of each | transfers of control in any order, forced close |
| Front end, optimizer, code generation, autoload | syntax trees and IR | correctness relates two languages; sequential |
| Eval interpreter (`elephc-magician`), libraries (`elephc-*`) | values | pure computation, or one thread around a foreign library |
| Profiling and monitoring | samples | observation only |

### What makes each part correct

* Master: the pool is whole between two deaths, nothing but a crash loop makes
  it give up, a shutdown takes every worker along and comes to an end.
* Worker: a planned exit cuts nobody off, a reached quota or a stop ends in an
  exit, and as few connections as possible are left out of it.
* Isolation (`docs/beyond-php/web.md`): a handler runs at most once per request,
  at most `--handler-concurrency` at a time; a client that got a whole response
  got it from a handler that finished; a handler is stopped when its lease is
  dropped or it writes for a client that is gone, and only such a one is killed;
  dead children are replaced.
* Sessions: what a request saved is not undone by another request or by the
  progress writer, what was destroyed stays destroyed, and a wait for the lock
  of a session ends.
* Memory: nothing that can still be reached is freed, nothing unreachable is
  left after a collection, a destructor runs once, a collection ends (of programs
  whose destructors leave a property alone while it is being overwritten).
* Cache: what a compiler links is the object it asked for, the directory is
  bounded, what the dead left is collected, and no run fails because of others.

## Modules

| Module | Models | Built on |
|---|---|---|
| `RequestService` | what handler isolation promises for each request: the abstract specification | |
| `WorkerDispatch` | the worker's end of the protocol: permits, dispatch, ACK, lease, cancellation | |
| `HandlerPool` | the pool broker and its children | `WorkerDispatch`; implements `RequestService` |
| `RequestBroker` | the request broker and its children | `WorkerDispatch`; implements `RequestService` |
| `WebMaster` | the master and the life cycle of its workers | |
| `WebWorker` | accept loop, connections, recycle, stop, in all three variants | |
| `RuntimeCache` | the compilers' shared cache of runtime objects | |
| `SessionStore` | session files between handler children and the upload-progress writer | |
| `CycleCollector` | reference counts, the free cascade, the cycle collector, destructors | |
| `WorkerDispatchProofs`, `HandlerPoolProofs`, `RequestBrokerProofs`, `WebMasterProofs`, `WebWorkerProofs`, `RuntimeCacheProofs`, `SessionStoreProofs`, `CycleCollectorProofs` | theorems and proofs | the modules they are named for |

The master forks workers (`WebMaster`); what a worker does in between is
`WebWorker`; its isolated handlers are reached through `WorkerDispatch`, which
`HandlerPool` and `RequestBroker` compose with the process at the other end.
`WebMaster` sees of a worker how it dies; `WebWorker` sees of its broker whether
it is up. `SessionStore` is what the handler children of one worker do to each
other through the session directory; `CycleCollector` is the inside of any one
compiled program.

### WorkerDispatch, HandlerPool, RequestBroker

A request is named by its dispatch id. `req[r]` follows the HTTP task through
`dispatch` (permit, lock, `sendmsg`, ACK) and the response stream; the detached
task that owns the ACK is separate from it, because the HTTP task can be dropped
at any await. Sockets are sequences: datagrams keep their boundaries and order,
the two pairs are independent of each other. A stream is `frames[r]` and the set
of processes that hold a descriptor of it, so that end-of-file is "nobody has it
open any more", including copies a child got through fork.

From its first chunk on a response belongs to a task of its own
(`isolated_worker.rs`, `pump_response`), which waits for the handler and never
watches the client. A disconnect before that drops the lease at once; after it the
request is in state `pump` and keeps its lease and permit until the handler's next
chunk is refused (`ChunkRefused`), the response ends, or its descriptor does. A
client that stays and does not read is cut off by `--response-write-timeout`
(`WriteTimesOut`). So a handler that has begun its output and then neither writes
nor ends is not cancelled by a disconnect: `CancelledStops` claims what the code
gives (see Findings).

Each broker is one thread whose position in the loop is `pc`; a step is what it
does between two points at which others can be noticed: reap, one assignment,
the wait for one ACK, one `poll`, one datagram. Children die of their own
accord (`MaxCrashes`), are killed, or reach their quota; fork may fail; SIGTERM,
the death of the worker and SIGKILL of the broker come at any time.
`PeerCloseWakes` says whether a `recv` that blocks on a datagram pair returns
when the peer closes, which differs between platforms.

### WebMaster

One process for the master, one life cycle per pid. The exit status and the age
of a dead worker are its `cause`. `RaceWindows` turns the three signal races on
one by one: between the look at `SHUTDOWN` and `waitpid`, in a child that has
not yet reset its handlers, and inside the teardown's `waitpid`.

### WebWorker

The three variants share one accept loop, so `mode` is a variable of the
model. The runtime has one thread: connection tasks move only where the loop
awaits (`Yielded`), and nothing moves while PHP runs in the thread, except
signals, which are then held back (`deferred`). A bootstrap that fails releases
the application without its hook (`adapter.php:69-83`). The response of an isolated
handler whose client is gone is still pumped (`left`), and counts towards the quota
when the pump ends; no drain waits for it. The watch channel has a value
and, for each receiver, whether it saw the last send: that is all of its
semantics that matters, and it is where a late subscriber is missed.

### RuntimeCache

One step per call to the file system, for each compiler. Of a file the model
keeps whether it is there, whether it is whole, and its age relative to the
others. A lease is a marker with an advisory lock and two hard links; a lock
belongs to an open file, so a marker can be locked after it was unlinked. Leases
are named by their owner: names are never reused in the code, and a collector
that still has the marker of an earlier lease of the same owner can only remove
names nobody has any more, so it forgets it when the owner takes a new one.
Checksums are abstracted to "this object's or not", and errors of the file
system other than a file that is gone are left out.

### SessionStore

The handler children of one worker, its thread, and the files of the session
directory, under `--web-isolation=pool`: a child keeps its process, and with it
the bridge's state and its descriptors, from one request to the next. (With
`request` every handler is a fresh child, and with `worker` PHP runs on the
worker's thread, so each has fewer interleavings.) A file has data, a lock and an
age; a name refers to a file; a file that has lost its name lives while somebody
has it open or waits for its lock. Data is a set of items, one for each request,
so that a lost update is an item that is missing. A step is one call to the file
system or one wait: `Truncate` and `WriteBack` are two steps because the code
empties the file before it writes it, and `Destroy` and `Destroyed` because it
unlinks before it unlocks.

Behaviour worth knowing, all of it in the model: a second `session_start` of an
active session changes nothing; `session_write_close` answers true even when the
write failed; a session whose `session_regenerate_id` could not open the new file
goes on without a lock and writes by rename (`unlocked`); a destroyed file is
handed, unlinked, to the request that waited for its lock; the collection of old
files unlinks without asking for the lock; an upload that is cut off leaves its
progress entry in the file, and a regenerated id copies it. A failed encoding
writes an empty file and is modelled as a failed write. `exit()` ends the child
without the `finally` that flushes the session, while
`docs/beyond-php/web.md:313-314` says it is "flushed even if the handler exits
early or throws"; the model has what the code does (`Exit`).

Left out: `session.use_strict_mode` (off by default), save handlers written in
PHP, cookies and cache headers, the wire formats, the parsing of multipart
bodies. `--max-execution-time` is 0 by default, so nothing ends a wait.

### CycleCollector

One thread. Of a block the model keeps whether it is in use, its count, bit 31 of
the count word (a destructor or a free is running), bits 14 and 18 of the kind
word (destructor called, pinned), whether its class has a destructor, and its
properties. `stack` is the machine's stack as far as it matters here: destructors
(PHP code), frees before and after their destructor, assignments between the release
of the old value and the end of the write, the collection with the objects of its
chunk still to destruct. `exc` is the slot of a C frame in which
`deep_cleanup` and the collector park what a destructor threw.

PHP code, in the main program and in every destructor, is arbitrary: it may do
any of `New`, `Link`, `Assign`, `Unlink`, `Throw`, `Catch`, `Collect` to what it can name
(`Seen`), without a bound on the length of the program. The program's variables
are the properties of `Root`. `Collect` stands for the automatic safe points and
for `gc_collect_cycles()`; during a free or a collection it does nothing, so the
model has no step for it. The order of destructors within a chunk is by address
in the code and arbitrary in the model.

The collector's passes over the heap (clear, count, mark) call nothing and are
one step together with the scan for destructors; the sweep, which runs no PHP
code, is another. The check of `_gc_release_suppressed` alone is a precaution: a
block whose free is under way has bit 31 set, is therefore a root, and keeps
what it still owns; only when the check of `_gc_collecting` goes too is
`ReachableIsAlive` violated (that is its mutant).

`$o->f = $x` over a property that holds a value is three steps (`Assign`, `Store`,
`Stored`): the new value gains an owner and the old one is released, with whatever
destructors that runs; the new value goes in; the receiver, which something holds
for the length of the write, is let go. In between the slot still names the old
value and no longer owns it (`property_stores.rs:84-91`; `unset` detaches first, and
says why, `runtime_property_writes.rs:2232-2237`). `Meddling` says whether the
destructors that run then may do anything with that property, or throw. If they may,
counts go wrong, blocks in use are freed and garbage stays (run `collector_store` and
finding 4); if they do not, everything holds. The runs `collector` and all theorems
are about the latter (`~Meddling`), so they do not say that every program is safe.
The same order of release and store is in assignments to a global
(`emit_store_result_to_symbol`), which are not modelled. Local variables are cleared,
released and then stored, which is `Unlink` and `Link`.

Left out: compact Throwables (heap kind 6, `throwable_new.rs:160`), which the passes
of the collector skip (`gc_collect_cycles.rs:140-146`, `gc_mark_reachable.rs:89-94`),
so that a cycle through one of them is never collected: `NothingIsLeft` is about
ordinary objects, and the exceptions of the model are ordinary objects too. Also left
out: chains of exceptions (one is in flight at a time), the candidate scan and cached
proofs of application mode, weak maps, arrays, hashes, boxed values and closures
(nodes of the graph that have no destructor), the storage of fibers, generators and
SPL classes, objects of eval.
The x86_64 versions of the routines do the same; `map` names the ARM64 ones.
`docs/internals/memory-model.md:1363` calls resurrection on the ordinary path
unsupported; `object_free_deep.rs:67-78` supports it, and so does the model.

## Runs

| Run | Instance | What it shows |
|---|---|---|
| `pool` | 2 slots, 2 requests, quota 1, 1 crash, 4 pids | the slot table stays true (`TableIsTrue`: types, `SlotsOwnTheirChildren`, `RetiredIsNotReused`), streams stay private, the ACK answers the request that waits for it, cancellations follow their dispatch and kill only the cancelled; the pool implements `RequestService` |
| `pool_live` | 1 slot, 2 requests, quota 2, 1 crash, a platform that wakes | requests settle, a handler stops once its lease is dropped or it writes for a client that is gone, shutdown completes, the dead are reaped |
| `pool_linux` | the same where it does not | **violated**: `DeadChildIsReaped` |
| `request` | 1 handler at a time, 3 requests, 3 pids, 1 fault (a failed fork or a crash) | the id map is exact, streams stay private, `RequestService` is implemented, requests settle, handlers stop as in `pool_live`, shutdown completes |
| `master` | 2 workers, guard at 2, 4 pids, 2 signals in any window, 1 stranger | the tracked set is exact, the guard is right, a teardown that is left alone reaps all, and a shutdown hangs only in two races or while a worker's drain lasts |
| `worker` | 3 variants, 2 connections, quota 1 | planned exits are clean, at most one connection is untold; unless something outside the server's control lasts for ever (`SomethingLasts`), a reached quota ends in an exit and a stop hangs in one case only |
| `worker_stop` | an application without quota | **violated**: `StopCompletes`, which grants that nothing lasts for ever |
| `cache` | 2 compilers, 2 objects, room for 1, 2 attempts, 1 crash | leases are sound, the bound holds, litter is collected, compilations end |
| `session` | 2 children, 2 ids (one known to clients), 2 requests, 3 session calls, 2 rare events or an upload | completed writes survive, the destroyed stays gone, a wait for the lock ends except for four reasons |
| `collector` | 2 objects of 2 properties, programs of any length, no meddling | counts are exact, nothing in use is freed, one destructor call each, a collection leaves no garbage and ends |
| `collector_store` | 2 objects of one property, with meddling | **violated**: `CountsAreExact` |
| `cache_prune` | 2 compilers, 3 objects, room for 2 | **violated**: `RunsAreTolerated` |

### Why the bounds are enough

Every hazard in `PROJECT.json` needs at most two requests (one that is served
and one that waits or is confused with it), two children, and one failure; the
request broker's queue gets a third request so that one can be removed from its
middle. A quota of 1 makes every completion a retirement and a quota of 2 makes
the first one not. Four pids for two slots let both be replaced once, and the
next fork fail. Two workers and a guard at 2 give a streak that one slow death
can break. Two connections are enough for one to be served and one to come late.
Two compilers have every pairwise interleaving, room for one object makes every
second publication prune, and two attempts at a lease let one be lost and let
both be. `cache` was also checked, for safety, with three objects and with room
for two.

Two children and the progress writer give every pair of writers of one session
file, a second id gives regeneration somewhere to go, and five files are never
all in use. A rare event is a kill, a failed call, a file that grows old, a
script that uses `SessionHandler`; two of them in any order, or an upload. Two
objects with two properties each, and the two variables of the program, give cycles
of one and two, garbage that hangs on a cycle or owns an object twice, an object
outside it that holds one inside, an exception, and an assignment in the middle of
another one; a bound of this size is the largest whose liveness is checked in
minutes, and the proofs are for any size.

Deadlock is not checked anywhere (`CHECK_DEADLOCK FALSE`): all these systems may
stop (the server is shut down, the compilers are done, the bounds are reached).
That nothing stops too early is what the liveness properties say.

### Fairness

Nothing says that a PHP call returns (handler, bootstrap, hook), that a client sends,
reads or closes, that a requested drain ends, that a signal comes or that anything
crashes: none of these steps is fair. Limits that exist only where they are configured
are not assumed either: `--max-execution-time` is 0 by default,
`--response-write-timeout` exists only for isolated handlers, and the bootstrap and the
hook run without an alarm. Properties that need one of these name it:
`RequestsSettle` that no handler runs for ever, `RecycleCompletes` and the two
properties of a stop `SomethingLasts`, `ShutdownHangsOnlyInARace` `DrainLasts`.

* Brokers, master, children outside a handler, compilers: processes that are
  runnable get to run, and each has one thing to do next: weak fairness.
* HTTP tasks and the cancel thread: weak fairness of the task that is ready.
* `WebWorker`: the loop and the connections share one thread, and a task is
  ready only when the thread is in the runtime, again and again. Tokio's queue is
  fair, so a task that is ready time and again is polled: strong fairness for
  those steps. A body has a deadline (30 s unless it is set to 0) and a connection
  without a request the header timeout: these end by themselves. `SomethingLasts`
  lists what may not: PHP code of the application, a handler, a response nobody
  reads, and a connection that gets one 408 or 413 after another and so never
  reaches the code that repeats the broadcast.
* `WebMaster`: the master and the first steps of a new worker. A worker that was
  told to stop need not do so: an application drains as long as its clients like.
* `SessionStore`: a script ends, the step after a call is taken, a lock that
  stays free is granted (weak fairness), an upload goes on or is given up.
  `WaitsEnd` names the four ways in which a wait may all the same never end:
  `session_reset` through `SessionHandler` opens and locks a file the same child
  has locked (`file_io.rs:413-415` speaks of avoiding just that); a handler
  registered without `register_shutdown` keeps the lock in an idle child; a
  descriptor is forgotten while it is locked; the progress writer blocks the
  thread that should read the output the lock's holder is blocked in.
* `CycleCollector`: the runtime goes on by itself (weak fairness), and a destructor
  that could return again and again does (strong, because the releases and stores of
  its own assignments keep it from returning in between). `CollectionEnds` excepts
  destructors that allocate again and again: the collector looks for new garbage
  after each round.

## Findings

1. `pool_linux`: after a dispatch was queued on a child's control pair the broker
   waits in `recv_id` for the ACK, without a timeout. If the child dies first,
   the wait never ends on Linux, where a blocked `recv` on a `SOCK_DGRAM` pair
   does not see its peer close: the branch for "closed before acknowledging" is
   unreachable and all other children go unserved. `pool_live` shows that this
   is the only obstacle.
2. `worker_stop`: an application that sees its stop right after an accept leaves
   the loop without the broadcast that the top of the loop makes, and the drain
   waits for keep-alive clients as long as they like, although every PHP call
   returns and every client reads. `StopHangsOnlyUntold` shows that this is the only
   way once that is granted.
3. `cache_prune`: the object just renamed into place is read back under its
   public name; if another compiler's older listing has it removed in between,
   the compilation fails instead of starting over as it does for every later loss.
4. `collector_store`: `$o->f = $x` releases the old value of `f` before it stores
   the new one. A destructor that runs meanwhile and assigns to the same property
   releases the old value a second time; one that throws leaves a freed object in
   the property, or an owner lost. `property_stores.rs:2` promises "balanced
   ownership". With `Meddling` set, `ReachableIsAlive` and `NothingIsLeft` fail too,
   within seconds.

Two more divergences have no run of their own; the properties name them.

* A signal after the master's look at `SHUTDOWN` (`server.rs:290`) and before
  `waitpid` only sets the flag; the shutdown waits for the next death of a worker,
  while `server.rs:103-105` says that the handler makes the signal interrupt the
  `waitpid`. It is the case `pc = "wait"` of `ShutdownHangsOnlyInARace`, and without
  that case the property is violated.
* `docs/beyond-php/web.md:274-275` and `356-359` say that client disconnects
  cancel the exact live request and reclaim isolated handlers. Once the response
  has begun, `pump_response` (`isolated_worker.rs:654-655`) waits for the handler's
  next frame and does not watch the client, so a handler that falls silent keeps
  running, with its slot and its permit, for as long as it likes. `CancelledStops`
  speaks of dropped leases and of handlers that write; with `req[r] = "pump"` alone
  on its left side it is violated.

Further observations. A collector of stale leases unlocks a marker before it removes it, so an owner that waited for the lock may
still find the name, go on, and hold a lease no collector can see; it is sound
(`LeaseIsSound`), but its snapshot stays for ever if its owner is killed, and
`LitterIsCollected` excludes that case (`Found`). And a master whose fork fails
exits at once and leaves the other workers running (`MasterAborts`); no document
promises otherwise. Three more are described above: the four reasons of
`WaitsEnd`, `exit()` and the flush of a session, and what the documentation says of
resurrection.

What some properties do not see: `GivesUpOnlyOnCrashLoop` would not notice a slow
death that fails to reset the streak, only a streak of deaths that are no startup
deaths; `UpdatesSurvive` is about each file, so an update lost because another file
is renamed over the name, or a handler that undoes a progress entry, would not be
seen.

## Proofs

All theorems hold for every value of the constants that the module's `ASSUME`
admits: positive numbers of requests, slots, workers, properties; bounds that are
natural numbers; names that differ from each other and from the markers for "none";
a finite heap and finitely many cached objects; a session directory with room for
the sessions clients already know. The theorems about `CycleCollector` have the
premise `~Meddling` in their statement. There is no other assumption. Each proof
exhibits an inductive invariant, checked by TLC before it was proved, with a lemma
for every group of actions; the theorems follow from `Init => IInv`,
`IInv /\ [Next]_vars => IInv'` and temporal logic. `PROJECT.json` lists them with
the properties they state.

* `WorkerDispatchProofs` has what is shared by both brokers: facts on sequences
  without repetition, the types of the worker's half, and the protocol
  (`ProtocolInv`): one dispatch in flight at a time, a cancellation only for what
  was handed out, an ACK only for what has left the worker.
* `HandlerPoolProofs`: `PoolTableIsTrue`, `PoolStreamsStayPrivate`,
  `AcksAreTheHolders`, `CancelsFollowDispatches`, `PoolStartsOnce`,
  `OnlyCancelledIsKilled` (an action property), `PoolServes`. None of them is
  inductive. The invariant adds that the dispatch being handed over is in exactly
  one place: on its way to the child, being acknowledged, or acknowledged
  (`HandingIsExact`); that a request is fresh until a child has it
  (`QueuedIsFresh`), and then one child has it (`OneHandlerEach`); and that a
  completion is only on its way when the request it names is over
  (`StatusIsOver`). The last is why a stale completion never frees a slot that
  is busy with another request, and why a slot that is idle in the table belongs to
  an idle child (`IdleIsIdle`).
* `RequestBrokerProofs`: `TypeCorrect`, `ActiveMapIsExact`, `StreamsStayPrivate`,
  `NeverStartedTwice`, `ConcurrencyIsCapped`, `BrokerServes`. Neither the map nor
  the streams are inductive: a dispatch may insert an id only because it is not
  there yet. The invariant adds that an id is in one place at a time
  (`QueuedOnce`), that what is queued was never started (`QueuedIsFresh`), that
  the history of starts is the truth about the children (`RunsIsHistory`), that
  the broker holds the descriptors of queued requests only (`FdsArePending`), and
  that what `poll` reported is still there (`ReadyIsReadable`).
* Refinement: `PoolServes` and `BrokerServes` show that each broker, with the
  worker and its children, implements `RequestService` under the mapping
  `StatusOf` of the module. A step concerns one request, and changes its status the
  way the service allows or not at all (`Moves`), with one lemma for each group of
  actions; that at most `Concurrency` requests run is a count of children
  (`RunsAreBounded`).
* `WebMasterProofs`: `TypeCorrect`, `PoolStaysWhole`, `StalePidsAreBounded`,
  `GuardNeedsACrashLoop`, `NoWorkerIsLeft`. The number of children is known only
  together with the position in the loop (`PoolSize`), that a reaped pid is not
  tracked needs the freshness of pids (`FreshPids`), and the guard needs that
  each counted death is a startup death of its own (`StreakIsReal`). For the
  teardown a second invariant (`TeardownInv`) says what a shutdown without a
  second signal leaves in each of its phases.
* `WebWorkerProofs`: `TypeCorrect`, `PlannedExits`, `FewAreUntold`. At most one
  connection is between accept and spawn (`OneAccepted`), and the loop is left
  before a second one can miss the broadcast (`UntoldIsLate`); nothing opens
  after the drain (`StaysQuiet`), which makes the exit code mean what it says.
* `RuntimeCacheProofs`: `LeaseSound`, `CacheStaysBounded`. For the first, owners
  hold the lock from `lock_shared` to the drop (`HoldersLock`), collectors hold
  theirs while they remove (`CollectorsLock`), and nobody holds it together with an
  owner (`LocksExclude`). For the bound, a compiler that publishes an object owes the
  cache a pruning until it lists the directory (`Owes`), and what nobody owes a
  pruning for fits, unless somebody is about to list (`Promise`). A compiler that
  fails without pruning is let off because it was told that a collector took its
  marker, and that collector prunes in its place (`ToldOff`). Once a compiler has
  died the debt may stay unpaid, so nothing is promised (`Dead # {}`); `BoundHolds`
  speaks of the states in which every compiler that began has pruned or failed.
* `SessionStoreProofs`: `WritesSurvive`, `DestroyedIsGone`, in two layers. The
  first invariant says who holds which lock (`LockIsHeld`), that the holder's copy
  contains whatever was written before it (`KeepsWritten`), and that an id nobody was
  told yet belongs to one child, whose file is empty (`IdIsPrivate`,
  `FileIsPrivate`). On top of it, `GoneInv` says where the items of a destroyed
  session are: in no file of that name, and in no copy that could still be
  written to one.
* `CycleCollectorProofs`: `OwnersAreCounted`, `NothingUsedIsFreed`,
  `DestructorsRunOnce`, `CollectionsAreComplete`. The invariant `Good` is stated of
  a heap, a stack, an exception in flight, and a block that has one owner too many
  in its count: the state in the middle of a step, after a reference is given up
  and before `Release` has looked at the block. So each routine is reasoned
  about once, and its callers use the lemma. The count (`Exact`) is the number of
  properties that own the block plus an exception, a pin, the main program.
  An assignment under way owns its receiver and its new value, and the property
  it writes owns nothing until it is stored (`Held`, `Stores`); this is where
  `~Meddling` is needed, and the theorems carry it as a premise.
  It needs to know what lies on what on the stack (`Shape`), that a block is worked
  on once (`Apart`), that bit 31 means just that (`Frames`, `Marks`), that one
  exception is in flight at a time (`OneException`), and what pins belong to
  (`Pins`). For the collector: a block counted by more than the heap's edges is
  held from outside, so what marking leaves has no owner it does not own itself
  (`MarkingIsRight`), which keeps every count exact, and what stays is what can
  be used (`SweptClean`).

Only model-checked, and why:

* All liveness properties: they rest on fairness, which the prover does not handle.
* The four violations: a counterexample is a run, not a theorem.

## Not modelled, and why

* Front end, optimizer, code generation, eval: sequential translators. What
  could be said of them is a relation between the meanings of two languages.
* Libraries, database, TLS and HTTP clients: pure functions or handles around
  foreign code, used by one thread.
* Wire formats (frames, session data, multipart, configuration): parsing without
  interleavings. Where a model needs a frame or an entry it has its kind only.
* The bytes of a response and its bounded channel: the pump's lease, its write
  deadline and how a response ends are in `WorkerDispatch` and `WebWorker`.
* Fibers, generators, spawn permits, and the parts of sessions and memory
  management named with their modules.

## Plan

Order of work: first what every request passes through (dispatch, brokers),
then supervision (master, worker), then the state shared on disk, then the
runtime. Done: the modules above. Next:

1. `ResponsePump`: the bounded channel between broker stream and client, as a
   refinement of the pump's steps in `WorkerDispatch`.
2. Fibers and generators: the state machine of transfers, with forced close.
3. The candidate scan of the collector in application mode, against the full
   scan of `CycleCollector` as its specification.
4. Signal deferral with spawn permits, and its composition with `WebWorker`.
