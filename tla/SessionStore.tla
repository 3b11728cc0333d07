---------------------------- MODULE SessionStore ----------------------------
(***************************************************************************)
(* PHP sessions in files (crates/elephc-web/src/session/file_io.rs and     *)
(* upload_progress.rs, driven by the session functions of                  *)
(* src/web_prelude/build.rs) under --web-isolation=pool: the handler       *)
(* children of one worker run scripts that start, change, close, destroy   *)
(* and regenerate sessions, while the worker's thread writes the progress  *)
(* of an upload into a session file.                                       *)
(*                                                                         *)
(* A session id names a file; the lock (flock) is on the file opened, and  *)
(* a file that lost its name lives on until it is closed.  A session's     *)
(* data is the set of the items in it: each request adds one of its own.   *)
(* The worker has one thread, so a flock it blocks in stops everything it  *)
(* does, the reading of its children's output included.                    *)
(***************************************************************************)
EXTENDS Naturals, FiniteSets

CONSTANTS Children,      \* handler children of the worker
          Sids, NoSid,   \* session ids; the absent id
          Known,         \* the ids clients have at the start
          MaxFiles,      \* bound: files alive at a time
          MaxRequests,   \* bound: requests
          MaxCalls,      \* bound: session calls of all scripts
          MaxProgress,   \* bound: progress entries an upload writes
          MaxRare        \* bound: scripts with SessionHandler, files grown old, failed
                         \* calls and kills, all together; an upload uses it up

ASSUME SessionAssumption ==
    /\ Children # {} /\ NoSid \notin Sids
    /\ {"nobody", "worker"} \cap Children = {}
    /\ Known \subseteq Sids
    /\ {MaxFiles, MaxRequests, MaxCalls, MaxProgress, MaxRare} \subseteq Nat
    /\ IsFiniteSet(Known) /\ Cardinality(Known) <= MaxFiles

NoFile   == 0
Files    == 1 .. MaxFiles
Progress == 0              \* the upload's entry in $_SESSION
Seed     == 1              \* what earlier requests left; request n adds n + 1
Items    == 0 .. MaxRequests + 1
Nobody   == "nobody"
Worker   == "worker"

VARIABLES
    name,        \* the file of each id
    file,        \* data, mtime past gc_maxlifetime, lock; and, ghost, the items of
                 \* completed writes that no failed write cut since
    php,         \* the bridge state and the script of each child
    upload,      \* the tracker of the request whose body the worker drains
    thread,      \* what the worker's thread does in the session file
    issued,      \* ids some client has been sent
    gone,        \* ghost: items that were in an id's file when it was destroyed
    unlocked,    \* ghost: some session was written with no lock held
    spent        \* how much of each bound is used

store    == <<name, file, issued, gone, unlocked>>
vars     == <<store, php, upload, thread, spent>>

Kinds == {"request", "call", "rare"}
Limit == [request |-> MaxRequests, call |-> MaxCalls, rare |-> MaxRare]
Spend(kinds) ==
    /\ \A k \in kinds : spent[k] < Limit[k]
    /\ spent' = [k \in Kinds |-> IF k \in kinds THEN spent[k] + 1 ELSE spent[k]]

Blank == [data |-> {}, old |-> FALSE, lock |-> Nobody, acked |-> {}]

\* elephc_web_session_reset, at the start of every request.
Reset == [pc |-> "idle", op |-> "none", cookie |-> NoSid, id |-> NoSid, active |-> FALSE,
          object |-> FALSE, shutdown |-> TRUE, fd |-> NoFile, wait |-> NoFile,
          session |-> {}, snapshot |-> {}, item |-> 0, found |-> NoSid]

Idle     == [op |-> "none", at |-> NoFile, copy |-> {}]
NoUpload == [sid |-> NoSid, left |-> 0]

File == [data : SUBSET Items, old : BOOLEAN, lock : Children \cup {Worker, Nobody},
         acked : SUBSET Items]
Script ==
    [pc : {"idle", "script", "wait", "cut", "unlinked", "renew", "remove", "send"},
     op : {"none", "start", "peek", "reset", "call", "finish", "renew", "destroy"},
     cookie : Sids \cup {NoSid}, id : Sids \cup {NoSid},
     active : BOOLEAN, object : BOOLEAN, shutdown : BOOLEAN,
     fd : Files \cup {NoFile}, wait : Files \cup {NoFile},
     session : SUBSET Items, snapshot : SUBSET Items,
     item : Items, found : Sids \cup {NoSid}]

TypeOK ==
    /\ name \in [Sids -> Files \cup {NoFile}]
    /\ file \in [Files -> File]
    /\ php \in [Children -> Script]
    /\ upload \in [sid : Sids \cup {NoSid}, left : 0 .. MaxProgress]
    /\ thread \in [op : {"none", "update", "complete", "write"},
                   at : Files \cup {NoFile}, copy : SUBSET Items]
    /\ issued \subseteq Sids
    /\ gone \in [Sids -> SUBSET Items]
    /\ unlocked \in BOOLEAN
    /\ spent \in [Kinds -> Nat] /\ \A k \in Kinds : spent[k] <= Limit[k]

\* Every known id has the file an earlier request left.
Init ==
    /\ name = CHOOSE n \in [Sids -> Files \cup {NoFile}] :
                 /\ \A s \in Sids : n[s] = NoFile <=> s \notin Known
                 /\ \A s, t \in Known : n[s] = n[t] => s = t
    /\ file = [f \in Files |-> IF \E s \in Known : name[s] = f
                               THEN [Blank EXCEPT !.data = {Seed}, !.acked = {Seed}] ELSE Blank]
    /\ php = [c \in Children |-> Reset]
    /\ upload = NoUpload /\ thread = Idle
    /\ issued = Known
    /\ gone = [s \in Sids |-> {}]
    /\ unlocked = FALSE
    /\ spent = [k \in Kinds |-> 0]
-----------------------------------------------------------------------------
\* Files

Named(f) == \E s \in Sids : name[s] = f

\* A file lives while it has a name or some process has it open.
Live(f) ==
    \/ Named(f)
    \/ \E c \in Children : php[c].fd = f \/ php[c].wait = f
    \/ file[f].lock # Nobody
    \/ thread.at = f

\* The file a process creates (bound: MaxFiles).
New(f) == ~ Live(f) /\ f = CHOOSE g \in Files : ~ Live(g)

\* open(O_CREAT): the file of that name, or a new one.
Open(s, f) ==
    IF name[s] # NoFile
    THEN f = name[s] /\ UNCHANGED <<name, file>>
    ELSE /\ New(f)
         /\ name' = [name EXCEPT ![s] = f]
         /\ file' = [file EXCEPT ![f] = Blank]

\* close() of every descriptor the process holds for these files: their locks
\* go, and so does a file that has no name and that nobody waits for.
Awaited(f) == thread.at = f \/ \E c \in Children : php[c].wait = f
Unlocked(fs) ==
    [f \in Files |-> IF f \notin fs THEN file[f]
                     ELSE IF Named(f) \/ Awaited(f) THEN [file[f] EXCEPT !.lock = Nobody]
                     ELSE Blank]
Held(who)    == {f \in Files : file[f].lock = who}

\* release_lock: only the descriptor in SESSION_FD.
Released(c) == Unlocked({php[c].fd} \ {NoFile})

Becomes(c, r) == php' = [php EXCEPT ![c] = r]

\* Nothing but the files' own state, the child and the bounds change.
OnlyFile == UNCHANGED <<name, issued, gone, unlocked, upload, thread>>
-----------------------------------------------------------------------------
\* The child and its script

\* The broker hands its first idle child a request, whose cookie the client
\* was given earlier; its script installs SessionHandler, or uses the files
\* handler.
Begin(c) ==
    /\ php[c].pc = "idle" /\ c = CHOOSE d \in Children : php[d].pc = "idle"
    /\ \E s \in issued \cup {NoSid}, o, d \in BOOLEAN :
          /\ ~ o => d
          /\ Spend({"request"} \cup IF o THEN {"rare"} ELSE {})
          /\ Becomes(c, [Reset EXCEPT !.pc = "script", !.cookie = s, !.object = o, !.shutdown = d,
                                      !.item = spent["request"] + 2])
    /\ file' = Released(c)
    /\ OnlyFile

Running(c) == php[c].pc = "script"
InSession(c) == Running(c) /\ php[c].active

\* The session is over for this script: the descriptor has been closed.
Closed(r) == [r EXCEPT !.pc = "script", !.op = "none", !.active = FALSE, !.fd = NoFile,
                       !.session = {}, !.snapshot = {}]

\* create_id and its check for a collision.
Fresh == {s \in Sids \ issued : name[s] = NoFile /\ \A c \in Children : php[c].id # s}

\* session_start: the id set before, the cookie's, or a new one; then
\* elephc_web_session_read_bytes opens the file.
Start(c, op) ==
    /\ Running(c) /\ ~ php[c].active /\ Spend({"call"})
    /\ LET asked == IF php[c].id # NoSid THEN php[c].id ELSE php[c].cookie
       IN \E s \in IF asked # NoSid THEN {asked} ELSE Fresh, f \in Files :
             /\ Open(s, f)
             /\ Becomes(c, [php[c] EXCEPT !.pc = "wait", !.op = op, !.id = s, !.active = TRUE,
                                             !.wait = f, !.session = {}, !.snapshot = {}])
    /\ UNCHANGED <<issued, gone, unlocked, upload, thread>>

\* No id, a handler whose open fails, or a file that does not open.
StartFails(c) ==
    /\ Running(c) /\ ~ php[c].active /\ Spend({"call", "rare"})
    /\ UNCHANGED <<store, php, upload, thread>>

Waits(c, op) == php[c].pc = "wait" /\ php[c].op = op /\ file[php[c].wait].lock = Nobody
Locked(c)    == [file EXCEPT ![php[c].wait].lock = c]
Read(c)      == file[php[c].wait].data
Resumed(c)   == [php[c] EXCEPT !.pc = "script", !.op = "none", !.wait = NoFile]

\* The names session_gc removes: any but the child's own, if the file is old.
Expired(r) == {s \in Sids \ {r.id} : name[s] # NoFile /\ file[name[s]].old}

\* session_start goes on to the script or, by should_gc, to session_gc.
BecomesOrCollects(c, r) ==
    \/ Becomes(c, r)
    \/ \E s \in Expired(r) : Becomes(c, [r EXCEPT !.pc = "remove", !.found = s])

\* Mutant: the lock goes back once the file is read.
MutStartedReleases(c) ==
    /\ Waits(c, "start")
    /\ Becomes(c, [Resumed(c) EXCEPT !.fd = php[c].wait, !.session = Read(c), !.snapshot = Read(c)])
    /\ issued' = issued \cup {php[c].id}
    /\ UNCHANGED <<name, file, gone, unlocked, upload, thread, spent>>

Started(c) ==
    /\ Waits(c, "start")
    /\ file' = Locked(c)
    /\ BecomesOrCollects(c, [Resumed(c) EXCEPT !.fd = php[c].wait, !.session = Read(c),
                                               !.snapshot = Read(c)])
    /\ issued' = issued \cup {php[c].id}
    /\ UNCHANGED <<name, gone, unlocked, upload, thread, spent>>

\* read_and_close: the lock is taken and given back around the read.
Peeked(c) ==
    /\ Waits(c, "peek")
    /\ BecomesOrCollects(c, Closed(Resumed(c)))
    /\ issued' = issued \cup {php[c].id}
    /\ UNCHANGED <<name, file, gone, unlocked, upload, thread, spent>>

\* The read fails, or the session's cookie cannot be sent any more (session_abort).
StartAborts(c) ==
    /\ Waits(c, "start") \/ Waits(c, "peek")
    /\ Becomes(c, Closed(Resumed(c)))
    /\ Spend({"rare"})
    /\ UNCHANGED <<store, upload, thread>>

Add(c) ==
    /\ InSession(c) /\ php[c].item # 0
    /\ Becomes(c, [php[c] EXCEPT !.session = @ \cup {php[c].item}, !.item = 0])
    /\ UNCHANGED <<store, upload, thread, spent>>

\* echo of more than the response channel takes: elephc_web_write blocks
\* until the worker's thread reads.
Output(c) ==
    /\ Running(c) /\ thread.op # "none"
    /\ Becomes(c, [php[c] EXCEPT !.pc = "send"])
    /\ UNCHANGED <<store, upload, thread, spent>>

Sent(c) ==
    /\ php[c].pc = "send" /\ thread.op = "none"
    /\ Becomes(c, [php[c] EXCEPT !.pc = "script"])
    /\ UNCHANGED <<store, upload, thread, spent>>

\* session_abort, and close of SessionHandler.
Abort(c) ==
    /\ InSession(c) /\ Spend({"call"})
    /\ file' = Released(c)
    /\ Becomes(c, Closed(php[c]))
    /\ OnlyFile

\* session_reset: the files handler decodes its snapshot; SessionHandler's read
\* opens and locks the file again, and the descriptor it held is forgotten.
Restore(c) ==
    /\ InSession(c) /\ Spend({"call"})
    /\ IF php[c].object
       THEN \E f \in Files :
               /\ Open(php[c].id, f)
               /\ Becomes(c, [php[c] EXCEPT !.pc = "wait", !.op = "reset", !.wait = f])
       ELSE /\ Becomes(c, [php[c] EXCEPT !.session = php[c].snapshot])
            /\ UNCHANGED <<name, file>>
    /\ UNCHANGED <<issued, gone, unlocked, upload, thread>>

\* The file cannot be read: the script has an empty session, and saves it.
RestoreFails(c) ==
    /\ InSession(c) /\ php[c].object /\ Spend({"call", "rare"})
    /\ Becomes(c, [php[c] EXCEPT !.session = {}])
    /\ file' = [f \in Files |-> IF f = php[c].fd THEN [file[f] EXCEPT !.acked = {}] ELSE file[f]]
    /\ OnlyFile

Restored(c) ==
    /\ Waits(c, "reset")
    /\ file' = Locked(c)
    /\ Becomes(c, [Resumed(c) EXCEPT !.fd = php[c].wait, !.session = Read(c), !.snapshot = Read(c)])
    /\ OnlyFile /\ UNCHANGED spent
-----------------------------------------------------------------------------
\* Writing

\* What follows a write, by what asked for it; a regeneration whose write
\* failed returns with the session active and no descriptor.
After(r, ok) ==
    CASE r.op = "call"   -> Closed(r)
      [] r.op = "finish" -> Reset
      [] r.op = "renew"  -> [r EXCEPT !.pc = IF ok THEN "renew" ELSE "script", !.fd = NoFile,
                                      !.op = IF ok THEN @ ELSE "none"]

\* Mutant: a held session too is written to a temporary file and renamed.
MutTruncateRenames(c, r, kinds) ==
    /\ r.fd # NoFile
    /\ LET f == CHOOSE g \in Files : ~ Live(g)
       IN /\ name' = [name EXCEPT ![r.id] = f]
          /\ file' = [Released(c) EXCEPT ![f] = [Blank EXCEPT !.data = r.session]]
    /\ Becomes(c, After(r, TRUE))
    /\ Spend(kinds) /\ UNCHANGED unlocked

\* elephc_web_session_write_bytes, in place: ftruncate, and then WriteBack.
Truncate(c, r, kinds) ==
    /\ r.fd # NoFile
    /\ file' = [file EXCEPT ![r.fd] = [@ EXCEPT !.data = {}, !.old = FALSE]]
    /\ Becomes(c, [r EXCEPT !.pc = "cut"])
    /\ Spend(kinds)
    /\ UNCHANGED <<name, unlocked>>

WroteTo(f, d, a) ==
    [Unlocked({f}) EXCEPT ![f] = IF Named(f) \/ Awaited(f) THEN [@ EXCEPT !.data = d, !.acked = a] ELSE @]

\* pwrite, fsync, release_lock; a write that fails leaves what was truncated.
WriteBack(c) ==
    /\ php[c].pc = "cut"
    /\ LET f == php[c].fd
       IN \/ /\ file' = WroteTo(f, php[c].session, file[f].acked \cup (php[c].session \ {Progress}))
             /\ Becomes(c, After(php[c], TRUE))
             /\ UNCHANGED spent
          \/ /\ Spend({"rare"})
             /\ file' = WroteTo(f, {}, {})
             /\ Becomes(c, After(php[c], FALSE))
    /\ UNCHANGED <<name, issued, gone, unlocked, upload, thread>>

\* No descriptor: a temporary file is renamed over the session's.
Replace(c, r, kinds) ==
    /\ r.fd = NoFile
    /\ \/ /\ \E f \in Files :
                /\ New(f)
                /\ name' = [name EXCEPT ![r.id] = f]
                /\ file' = [file EXCEPT ![f] = [Blank EXCEPT !.data = r.session,
                                                             !.acked = r.session \ {Progress}]]
          /\ unlocked' = TRUE
          /\ Becomes(c, After(r, TRUE))
          /\ Spend(kinds)
       \/ /\ Spend(kinds \cup {"rare"})
          /\ Becomes(c, After(r, FALSE))
          /\ UNCHANGED <<name, file, unlocked>>

\* Mutant: touch forgets the lock.
MutTouchKeeps(c, r, kinds) ==
    /\ file' = [file EXCEPT ![r.fd].old = FALSE]
    /\ Becomes(c, [After(r, TRUE) EXCEPT !.fd = r.fd])
    /\ Spend(kinds)
    /\ UNCHANGED <<name, unlocked>>

\* elephc_web_session_touch: the mtime of the file of that name, and the lock.
Touch(c, r, kinds) ==
    /\ file' = [f \in Files |-> [Released(c)[f] EXCEPT !.old = @ /\ f # name[r.id]]]
    /\ Becomes(c, After(r, TRUE))
    /\ Spend(kinds)
    /\ UNCHANGED <<name, unlocked>>

\* session_write_close: lazy_write leaves data that did not change.
Save(c, r, kinds) ==
    /\ IF ~ r.object /\ r.session = r.snapshot
       THEN Touch(c, r, kinds)
       ELSE Truncate(c, r, kinds) \/ Replace(c, r, kinds)
    /\ UNCHANGED <<issued, gone, upload, thread>>

WriteClose(c) ==
    /\ InSession(c)
    /\ Save(c, [php[c] EXCEPT !.op = "call"], {"call"})

\* The script ends or throws: the finally block saves an active session,
\* unless the handler was installed without register_shutdown.
Finish(c) ==
    /\ php[c].pc = "script"
    /\ \/ /\ php[c].active /\ php[c].shutdown
          /\ Save(c, [php[c] EXCEPT !.op = "finish"], {})
       \/ /\ ~ (php[c].active /\ php[c].shutdown)
          /\ Becomes(c, [Reset EXCEPT !.shutdown = php[c].shutdown, !.fd = php[c].fd])
          /\ UNCHANGED <<store, upload, thread, spent>>

\* session_regenerate_id(false) saves the session under its old id first.
Regenerate(c) ==
    /\ InSession(c)
    /\ LET r == [php[c] EXCEPT !.op = "renew"]
       IN Truncate(c, r, {"call"}) \/ Replace(c, r, {"call"})
    /\ UNCHANGED <<issued, gone, upload, thread>>

\* It goes on with a new id and the file of that name, empty.
Renew(c) ==
    /\ php[c].pc = "renew"
    /\ \/ \E s \in Fresh, f \in Files :
             /\ Open(s, f)
             /\ Becomes(c, [php[c] EXCEPT !.pc = "wait", !.id = s, !.wait = f])
             /\ UNCHANGED spent
       \/ /\ Spend({"rare"})
          /\ Becomes(c, [php[c] EXCEPT !.pc = "script", !.op = "none"])
          /\ UNCHANGED <<name, file>>
    /\ UNCHANGED <<issued, gone, unlocked, upload, thread>>

\* The result of that read is not looked at: the session goes on without a
\* descriptor when it fails.  The client gets the cookie after it.
Renewed(c) ==
    /\ Waits(c, "renew")
    /\ \/ /\ file' = Locked(c)
          /\ Becomes(c, [Resumed(c) EXCEPT !.fd = php[c].wait, !.snapshot = Read(c)])
          /\ UNCHANGED spent
       \/ /\ Becomes(c, Resumed(c))
          /\ Spend({"rare"})
          /\ UNCHANGED file
    /\ issued' = issued \cup {php[c].id}
    /\ UNCHANGED <<name, gone, unlocked, upload, thread>>
-----------------------------------------------------------------------------
\* Removing

\* elephc_web_session_destroy, for session_destroy ("destroy") and
\* session_regenerate_id(true) ("renew"): the name goes first, then the lock.
Destroy(c, op) ==
    /\ InSession(c)
    /\ \/ /\ gone' = [gone EXCEPT ![php[c].id] =
                        @ \cup IF name[php[c].id] = NoFile THEN {}
                              ELSE file[name[php[c].id]].data \ {Progress}]
          /\ name' = [name EXCEPT ![php[c].id] = NoFile]
          /\ Becomes(c, [php[c] EXCEPT !.pc = "unlinked", !.op = op])
          /\ Spend({"call"})
          /\ UNCHANGED file
       \/ /\ Spend({"call", "rare"})
          /\ file' = Released(c)
          /\ Becomes(c, IF op = "destroy" THEN [Closed(php[c]) EXCEPT !.id = NoSid]
                                          ELSE [php[c] EXCEPT !.fd = NoFile])
          /\ UNCHANGED <<name, gone>>
    /\ UNCHANGED <<issued, unlocked, upload, thread>>

Destroyed(c) ==
    /\ php[c].pc = "unlinked"
    /\ file' = Released(c)
    /\ Becomes(c, IF php[c].op = "destroy" THEN [Closed(php[c]) EXCEPT !.id = NoSid]
                                           ELSE [php[c] EXCEPT !.pc = "renew", !.fd = NoFile])
    /\ OnlyFile /\ UNCHANGED spent

\* session_gc, called by the script or by the luck of session_start, looks at
\* each file of the directory and removes it by its name in a later step.
Collect(c) ==
    /\ InSession(c) /\ Spend({"call"})
    /\ \E s \in Expired(php[c]) : Becomes(c, [php[c] EXCEPT !.pc = "remove", !.found = s])
    /\ UNCHANGED <<store, upload, thread>>

Remove(c) ==
    /\ php[c].pc = "remove"
    /\ name' = [name EXCEPT ![php[c].found] = NoFile]
    /\ \E s \in {NoSid} \cup (Expired(php[c]) \ {php[c].found}) :
          Becomes(c, [php[c] EXCEPT !.pc = IF s = NoSid THEN "script" ELSE @, !.found = s])
    /\ UNCHANGED <<file, issued, gone, unlocked, upload, thread, spent>>

\* gc_maxlifetime passes over a file nobody writes.
Age(f) ==
    /\ Named(f) /\ ~ file[f].old /\ Spend({"rare"})
    /\ file' = [file EXCEPT ![f].old = TRUE]
    /\ UNCHANGED <<name, issued, gone, unlocked, php, upload, thread>>
-----------------------------------------------------------------------------
\* The worker's thread: Tracker::rmw, called from drain_with_progress

Arrive(s) ==
    /\ upload.sid = NoSid /\ thread.op = "none"
    /\ spent["rare"] = 0 /\ spent' = [spent EXCEPT !["rare"] = Limit["rare"]]
    /\ upload' = [sid |-> s, left |-> MaxProgress]
    /\ UNCHANGED <<store, php, thread>>

\* An update is due, the first or another, or the body is complete and its
\* entry is cleaned up.
Update ==
    /\ thread.op = "none" /\ upload.left > 0
    /\ \E f \in Files : Open(upload.sid, f) /\ thread' = [Idle EXCEPT !.op = "update", !.at = f]
    /\ upload' = [upload EXCEPT !.left = @ - 1]
    /\ UNCHANGED <<issued, gone, unlocked, php, spent>>

Complete ==
    /\ thread.op = "none" /\ upload.sid # NoSid
    /\ \E f \in Files : Open(upload.sid, f) /\ thread' = [Idle EXCEPT !.op = "complete", !.at = f]
    /\ upload' = NoUpload
    /\ UNCHANGED <<issued, gone, unlocked, php, spent>>

\* The flock is granted: read, edit, ftruncate.
Rewrite ==
    /\ thread.op \in {"update", "complete"} /\ file[thread.at].lock = Nobody
    /\ LET d == file[thread.at].data
       IN thread' = [thread EXCEPT !.op = "write",
                        !.copy = IF thread.op = "update" THEN d \cup {Progress} ELSE d \ {Progress}]
    /\ file' = [file EXCEPT ![thread.at] =
                   [@ EXCEPT !.data = {}, !.old = FALSE, !.lock = Worker]]
    /\ UNCHANGED <<name, issued, gone, unlocked, php, upload, spent>>

Rewritten ==
    /\ thread.op = "write"
    /\ \/ /\ file' = WroteTo(thread.at, thread.copy, file[thread.at].acked)
          /\ UNCHANGED spent
       \/ /\ Spend({"rare"})
          /\ file' = WroteTo(thread.at, {}, {})
    /\ thread' = Idle
    /\ UNCHANGED <<name, issued, gone, unlocked, php, upload>>

\* The client disconnects, or the body is over the limit: nothing is cleaned up.
Abandon ==
    /\ upload.sid # NoSid /\ thread.op = "none"
    /\ upload' = NoUpload
    /\ UNCHANGED <<store, php, thread, spent>>
-----------------------------------------------------------------------------
\* Processes end: the kernel closes what they had open

Cut(who) == {f \in Files : \/ who \in Children /\ php[who].pc = "cut" /\ php[who].fd = f
                           \/ who = Worker /\ thread.op = "write" /\ thread.at = f}
Ends(ws) ==
    /\ LET cut == UNION {Cut(w) : w \in ws}
       IN file' = [f \in Files |-> IF f \in cut THEN [Unlocked({f})[f] EXCEPT !.acked = {}]
                                   ELSE Unlocked(UNION {Held(w) : w \in ws})[f]]
    /\ php' = [c \in Children |-> IF c \in ws THEN Reset ELSE php[c]]
    /\ UNCHANGED <<name, issued, gone, unlocked>>

\* exit() ends the child at once: no finally block runs.
Exit(c) ==
    /\ php[c].pc = "script"
    /\ Ends({c})
    /\ UNCHANGED <<upload, thread, spent>>

\* The broker kills a cancelled handler, or its execution time is over; it
\* starts another child.
Kill(c) ==
    /\ php[c].pc # "idle" /\ Spend({"rare"})
    /\ Ends({c})
    /\ UNCHANGED <<upload, thread>>

\* The worker dies, its broker and children with it; the master starts another.
KillWorker ==
    /\ Spend({"rare"})
    /\ Ends(Children \cup {Worker})
    /\ upload' = NoUpload /\ thread' = Idle
-----------------------------------------------------------------------------
Operation(c) ==
    \/ Start(c, "start") \/ Start(c, "peek") \/ StartFails(c)
    \/ Add(c) \/ Output(c) \/ Abort(c) \/ Restore(c) \/ RestoreFails(c)
    \/ WriteClose(c) \/ Regenerate(c)
    \/ Destroy(c, "destroy") \/ Destroy(c, "renew") \/ Collect(c)
    \/ Finish(c) \/ Exit(c)

\* What the child does on its own once the call is made.
Step(c) ==
    \/ Started(c) \/ Peeked(c) \/ StartAborts(c) \/ Restored(c) \/ Renewed(c)
    \/ Sent(c) \/ WriteBack(c) \/ Renew(c) \/ Destroyed(c) \/ Remove(c)

Draining == Update \/ Complete \/ Rewrite \/ Rewritten \/ Abandon

Next ==
    \/ \E c \in Children : Begin(c) \/ Operation(c) \/ Step(c) \/ Kill(c)
    \/ Draining \/ KillWorker
    \/ \E s \in issued : Arrive(s)
    \/ \E f \in Files : Age(f)

Spec == Init /\ [][Next]_vars

\* Scripts end, a lock that stays free is granted, and an upload goes on or ends.
Fairness ==
    /\ \A c \in Children : WF_vars(Operation(c)) /\ WF_vars(Step(c))
    /\ WF_vars(Draining)

FairSpec == Spec /\ Fairness
-----------------------------------------------------------------------------
\* Properties

Rewriting(f) == \E w \in Children \cup {Worker} : f \in Cut(w)

\* What a completed write put into a session file stays in it whatever other
\* requests, the upload's progress writer and dead processes do, until a write
\* fails or is killed in the middle, or session_reset fails to read: the lock
\* taken by session_start is held over the read, the script and the write.
UpdatesSurvive ==
    /\ TypeOK
    /\ \A f \in Files : Rewriting(f) \/ file[f].acked \subseteq file[f].data

\* What session_destroy removed never comes back under its id, though requests
\* that waited for the file's lock still read and write the file: they have it
\* without a name.  Only a write that no descriptor backs, after a failed
\* session_regenerate_id, may bring it back.
DestroyedStaysGone ==
    unlocked \/ \A s \in Sids : name[s] = NoFile \/ file[name[s]].data \cap gone[s] = {}

\* The ways a wait for a session's lock may never end.
WaitsForItself == \E c \in Children : php[c].pc = "wait" /\ file[php[c].wait].lock = c
KeptAfterEnd   == \E c \in Children :
    ~ php[c].shutdown /\ php[c].pc = "idle" /\ php[c].fd # NoFile
Forgotten      == \E c \in Children : Held(c) \ {php[c].fd} # {}
WorkerWaits    == \E c \in Children :
    /\ thread.op \in {"update", "complete"}
    /\ file[thread.at].lock = c /\ php[c].pc = "send"

HangsForAReason == WaitsForItself \/ KeptAfterEnd \/ Forgotten \/ WorkerWaits

\* A child or the worker's thread that waits for a session's lock gets it,
\* unless the holder waits for itself (session_reset through SessionHandler),
\* kept the lock past its request (register_shutdown off), forgot it, or sends
\* output the waiting worker does not read.
WaitsEnd ==
    /\ \A c \in Children : php[c].pc = "wait" ~> php[c].pc # "wait" \/ HangsForAReason
    /\ thread.op \in {"update", "complete"} ~>
          thread.op \notin {"update", "complete"} \/ HangsForAReason
============================================================================
