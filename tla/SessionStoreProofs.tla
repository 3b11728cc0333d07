------------------------- MODULE SessionStoreProofs -------------------------
(***************************************************************************)
(* Theorems about SessionStore, for any number of children, ids, files,    *)
(* requests and failures: completed writes survive, and what was destroyed *)
(* stays away.                                                             *)
(*                                                                         *)
(* The first invariant says who holds which lock, that the holder's copy   *)
(* of the session contains everything that was written before it, and that *)
(* an id nobody was told yet belongs to one child, whose file is empty.    *)
(* The second says where the items of a destroyed session are: in no file  *)
(* that has its name, and in no copy that could still be written to it.    *)
(***************************************************************************)
EXTENDS SessionStore, FiniteSetTheorems, TLAPS

\* What the script's position says of its call and of its session.
PcIsRight(c) ==
    /\ php[c].pc = "cut" => php[c].fd # NoFile /\ php[c].op \in {"call", "finish", "renew"}
    /\ php[c].pc = "wait" => php[c].wait # NoFile
                             /\ php[c].op \in {"start", "peek", "reset", "renew"}
    /\ php[c].pc # "wait" => php[c].wait = NoFile
    /\ php[c].pc = "unlinked" => php[c].op \in {"destroy", "renew"}
    /\ php[c].pc = "renew" => php[c].fd = NoFile /\ php[c].op = "renew"
    /\ php[c].pc \in {"wait", "cut", "unlinked", "renew"} => php[c].active
    /\ php[c].active => php[c].id \in Sids /\ php[c].pc # "idle"
    /\ ~ php[c].active /\ php[c].pc # "idle" => php[c].fd = NoFile

\* The descriptor a child remembers is locked.
LockIsHeld(c) == php[c].fd # NoFile => file[php[c].fd].lock = c

\* Nothing that was written to the file is missing in what the holder of its
\* lock may write back.
KeepsWritten(c) ==
    php[c].active /\ php[c].fd # NoFile =>
        file[php[c].fd].acked \subseteq php[c].session \cap php[c].snapshot

\* Cookies and sessions in use have ids that some client was sent.
IdIsKnown(c) ==
    /\ php[c].cookie \in issued \cup {NoSid}
    /\ php[c].active /\ (php[c].pc = "wait" => php[c].op = "reset") => php[c].id \in issued

\* An id no client was sent yet is one child's only.
IdIsPrivate(c) ==
    php[c].id # NoSid /\ php[c].id \notin issued =>
        \A d \in Children \ {c} : php[d].id # php[c].id

\* A regeneration waits for the lock of a file only it has: nothing was
\* written to it.
Renewing(c) == php[c].pc = "wait" /\ php[c].op = "renew"
FileIsPrivate(c) ==
    Renewing(c) =>
        /\ php[c].id \notin issued
        /\ \A s \in Sids : name[s] = php[c].wait => s = php[c].id
        /\ \A d \in Children : php[d].fd # php[c].wait
        /\ \A d \in Children \ {c} : php[d].wait # php[c].wait
        /\ file[php[c].wait].acked = {}

ThreadIsRight ==
    /\ thread.op = "none" <=> thread.at = NoFile
    /\ thread.op = "write" => file[thread.at].lock = Worker
                              /\ file[thread.at].acked \subseteq thread.copy
    /\ upload.left > 0 => upload.sid # NoSid
    /\ upload.sid \in issued \cup {NoSid}

FileIsWhole(f) ==
    /\ Progress \notin file[f].acked
    /\ Rewriting(f) \/ file[f].acked \subseteq file[f].data

\* What one child contributes to the invariant.
ChildInv(c) ==
    /\ PcIsRight(c)
    /\ LockIsHeld(c)
    /\ KeepsWritten(c)
    /\ IdIsKnown(c)
    /\ IdIsPrivate(c)
    /\ FileIsPrivate(c)

IInv ==
    /\ TypeOK
    /\ ThreadIsRight
    /\ \A f \in Files : FileIsWhole(f)
    /\ \A c \in Children : ChildInv(c)
-----------------------------------------------------------------------------
(***************************************************************************)
(* What the step of a child leaves alone.                                  *)
(***************************************************************************)

Kept(f) == file'[f].data = file[f].data /\ file'[f].acked = file[f].acked

\* The files in use, but for the one whose descriptor it has, keep what they
\* hold; a lock it gets was free.
FilesStep(c) ==
    \A f \in Files :
       /\ Live(f) /\ f # php[c].fd =>
             /\ Kept(f)
             /\ \/ file'[f].lock = file[f].lock
                \/ file[f].lock = Nobody /\ file'[f].lock = c
       /\ ~ Live(f) => /\ file'[f].lock = Nobody
                       /\ Progress \notin file'[f].acked
                       /\ file'[f].acked \subseteq file'[f].data
       /\ f = php[c].fd => /\ Progress \notin file'[f].acked
                           /\ \/ php'[c].pc = "cut" /\ php'[c].fd = f
                              \/ file'[f].acked \subseteq file'[f].data

\* An id gets no file but a new one.
NamesStep == \A s \in Sids : name'[s] \in {name[s], NoFile} \/ ~ Live(name'[s])

\* The child gets an id of its own, one that is known or a fresh one, and a
\* file of that id.
IdsStep(c) ==
    /\ issued \subseteq issued'
    /\ issued' \subseteq issued \cup {php[c].id}
    /\ php'[c].id \in {php[c].id, NoSid} \cup issued \cup Fresh
    /\ \/ php'[c].fd \in {php[c].fd, NoFile}
       \/ php'[c].fd = php[c].wait
    /\ \/ php'[c].wait = NoFile
       \/ ~ Live(php'[c].wait)
       \/ \E s \in issued \cup {php[c].id} : s \in Sids /\ php'[c].wait = name[s]

ScriptStep(c) ==
    /\ \A d \in Children \ {c} : php'[d] = php[d]
    /\ UNCHANGED <<upload, thread>>
    /\ FilesStep(c)
    /\ NamesStep
    /\ IdsStep(c)

\* What is left to show of the child itself.
SelfInv(c) ==
    /\ PcIsRight(c)
    /\ LockIsHeld(c)
    /\ KeepsWritten(c)
    /\ IdIsKnown(c)
    /\ FileIsPrivate(c)

LEMMA OpenIsLive ==
    ASSUME IInv
    PROVE  /\ \A c \in Children : php[c].fd # NoFile => Live(php[c].fd) /\ file[php[c].fd].lock = c
           /\ \A c \in Children : php[c].pc = "wait" => Live(php[c].wait)
           /\ thread.at # NoFile => Live(thread.at)
           /\ Nobody \notin Children /\ Worker \notin Children
  BY SessionAssumption DEF IInv, ChildInv, LockIsHeld, Live, Nobody, Worker

LEMMA OthersKeep ==
    ASSUME IInv, TypeOK', NEW c \in Children, ScriptStep(c), NEW d \in Children \ {c}
    PROVE  ChildInv(d)'
<1> USE DEF IInv, ChildInv
<1>1. php'[d] = php[d] /\ PcIsRight(d) /\ TypeOK
  BY DEF ScriptStep
<1>2. PcIsRight(d)'
  BY <1>1 DEF PcIsRight
<1>3. ASSUME php[d].fd # NoFile
      PROVE  /\ php[d].fd \in Files /\ Kept(php[d].fd)
             /\ file'[php[d].fd].lock = d
  <2>1. php[d].fd \in Files /\ Live(php[d].fd) /\ file[php[d].fd].lock = d /\ d # Nobody
    BY <1>3, OpenIsLive DEF TypeOK, Script
  <2>2. php[c].fd # php[d].fd
    BY <1>3, <2>1, OpenIsLive
  <2> QED
    BY <2>1, <2>2 DEF ScriptStep, FilesStep
<1>4. LockIsHeld(d)' /\ KeepsWritten(d)'
  BY <1>1, <1>3 DEF LockIsHeld, KeepsWritten, Kept
<1>5. IdIsKnown(d)'
  BY <1>1 DEF IdIsKnown, ScriptStep, IdsStep
<1>6. IdIsPrivate(d)'
  <2> SUFFICES ASSUME php[d].id # NoSid, php[d].id \notin issued', NEW e \in Children \ {d}
               PROVE  php'[e].id # php[d].id
    BY <1>1 DEF IdIsPrivate
  <2>1. php[d].id \notin issued /\ php[e].id # php[d].id
    BY DEF IdIsPrivate, ScriptStep, IdsStep
  <2>2. CASE e # c
    BY <2>1, <2>2 DEF ScriptStep
  <2>3. CASE e = c
    <3>1. php[d].id \notin Fresh
      BY DEF Fresh
    <3> QED
      BY <2>1, <2>3, <3>1 DEF ScriptStep, IdsStep
  <2> QED
    BY <2>2, <2>3
<1>7. FileIsPrivate(d)'
  <2> SUFFICES ASSUME Renewing(d) PROVE FileIsPrivate(d)'
    BY <1>1 DEF FileIsPrivate, Renewing
  <2>1. /\ php[d].wait \in Files /\ Live(php[d].wait) /\ php[d].active /\ php[d].id \in Sids
        /\ php[d].wait # NoFile
    BY OpenIsLive DEF TypeOK, Script, PcIsRight, Renewing
  <2>2. /\ php[d].id \notin issued
        /\ \A s \in Sids : name[s] = php[d].wait => s = php[d].id
        /\ \A e \in Children : php[e].fd # php[d].wait
        /\ \A e \in Children \ {d} : php[e].wait # php[d].wait
        /\ file[php[d].wait].acked = {}
    BY DEF FileIsPrivate
  <2>3. php[d].id # php[c].id
    BY <2>1, <2>2, SessionAssumption DEF IdIsPrivate
  <2>4. php[d].id \notin issued'
    BY <2>2, <2>3 DEF ScriptStep, IdsStep
  <2>5. \A s \in Sids : name'[s] = php[d].wait => s = php[d].id
    BY <2>1, <2>2 DEF ScriptStep, NamesStep
  <2>6. \A e \in Children : php'[e].fd # php[d].wait
    BY <2>1, <2>2 DEF ScriptStep, IdsStep
  <2>7. \A e \in Children \ {d} : php'[e].wait # php[d].wait
    <3>1. php'[c].wait # php[d].wait
      BY <2>1, <2>2, <2>3 DEF ScriptStep, IdsStep
    <3> QED
      BY <2>2, <3>1 DEF ScriptStep
  <2>8. file'[php[d].wait].acked = {}
    BY <2>1, <2>2 DEF ScriptStep, FilesStep, Kept
  <2> QED
    BY <1>1, <2>4, <2>5, <2>6, <2>7, <2>8 DEF FileIsPrivate
<1> QED
  BY <1>2, <1>4, <1>5, <1>6, <1>7

LEMMA ScriptStepKeeps ==
    ASSUME IInv, TypeOK', NEW c \in Children, ScriptStep(c), SelfInv(c)'
    PROVE  IInv'
<1> USE DEF IInv
<1>1. TypeOK /\ ChildInv(c)
  OBVIOUS
<1>2. \A d \in Children \ {c} : ChildInv(d)'
  BY OthersKeep
<1>3. IdIsPrivate(c)'
  <2> SUFFICES ASSUME php'[c].id # NoSid, php'[c].id \notin issued', NEW d \in Children \ {c}
               PROVE  php[d].id # php'[c].id
    BY DEF IdIsPrivate, ScriptStep
  <2>1. php'[c].id \notin issued /\ php'[c].id \in {php[c].id} \cup Fresh
    BY DEF ScriptStep, IdsStep
  <2> QED
    BY <2>1 DEF ChildInv, IdIsPrivate, Fresh
<1>4. ChildInv(c)'
  BY <1>3 DEF ChildInv, SelfInv
<1>5. ThreadIsRight'
  <2>1. thread.op = "write" => /\ thread.at \in Files /\ Live(thread.at)
                               /\ file[thread.at].lock = Worker /\ Worker # Nobody
                               /\ thread.at # php[c].fd
    BY OpenIsLive, SessionAssumption DEF ThreadIsRight, TypeOK, Nobody, Worker
  <2>2. thread.op = "write" => file'[thread.at].lock = Worker /\ Kept(thread.at)
    BY <2>1 DEF ScriptStep, FilesStep
  <2>3. issued \subseteq issued' /\ thread' = thread /\ upload' = upload
    BY DEF ScriptStep, IdsStep
  <2> QED
    BY <2>2, <2>3 DEF ThreadIsRight, Kept
<1>6. ASSUME NEW f \in Files PROVE FileIsWhole(f)'
  <2>1. FileIsWhole(f) /\ thread' = thread
    BY DEF ScriptStep
  <2>2. CASE ~ Live(f)
    BY <2>2 DEF ScriptStep, FilesStep, FileIsWhole
  <2>3. CASE f = php[c].fd
    BY <2>3 DEF ScriptStep, FilesStep, FileIsWhole, Rewriting, Cut
  <2>4. CASE Live(f) /\ f # php[c].fd
    <3>1. Kept(f)
      BY <2>4 DEF ScriptStep, FilesStep
    <3>2. Rewriting(f) => Rewriting(f)'
      <4>1. f \notin Cut(c)
        BY <2>4, SessionAssumption DEF Cut, Worker
      <4>2. ASSUME NEW d \in Children \cup {Worker}, d # c, f \in Cut(d) PROVE f \in Cut(d)'
        BY <2>1, <4>2 DEF Cut, ScriptStep
      <4> QED
        BY <4>1, <4>2 DEF Rewriting
    <3> QED
      BY <2>1, <3>1, <3>2 DEF FileIsWhole, Kept
  <2> QED
    BY <2>2, <2>3, <2>4
<1> QED
  BY <1>2, <1>4, <1>5, <1>6
-----------------------------------------------------------------------------
(***************************************************************************)
(* The operators the actions are built from.                               *)
(***************************************************************************)

\* Only a file that is being rewritten lacks what was written to it, and the
\* one who rewrites it has its lock.
LEMMA WholeFiles ==
    ASSUME IInv
    PROVE  /\ \A f \in Files : Progress \notin file[f].acked
           /\ \A f \in Files : file[f].lock = Nobody => file[f].acked \subseteq file[f].data
           /\ \A c \in Children : php[c].fd # NoFile /\ php[c].pc # "cut" =>
                  file[php[c].fd].acked \subseteq file[php[c].fd].data
<1>1. ASSUME NEW f \in Files, Rewriting(f)
      PROVE  \/ \E d \in Children : php[d].pc = "cut" /\ php[d].fd = f /\ file[f].lock = d
             \/ file[f].lock = Worker
  BY <1>1, SessionAssumption
  DEF Rewriting, Cut, IInv, ChildInv, LockIsHeld, ThreadIsRight, TypeOK, Worker, NoFile, Files
<1>2. Worker # Nobody /\ \A d \in Children : d # Nobody /\ d # Worker
  BY SessionAssumption DEF Nobody, Worker
<1>3. \A f \in Files : file[f].lock = Nobody => ~ Rewriting(f)
  BY <1>1, <1>2
<1>4. ASSUME NEW c \in Children, php[c].fd # NoFile, php[c].pc # "cut"
      PROVE  php[c].fd \in Files /\ ~ Rewriting(php[c].fd)
  <2>1. php[c].fd \in Files /\ file[php[c].fd].lock = c
    BY <1>4 DEF IInv, ChildInv, LockIsHeld, TypeOK, Script
  <2> QED
    BY <1>1, <1>2, <1>4, <2>1
<1> QED
  BY <1>3, <1>4 DEF IInv, FileIsWhole

LEMMA BecomesIs ==
    ASSUME TypeOK, NEW c \in Children, NEW r \in Script, Becomes(c, r)
    PROVE  /\ php' \in [Children -> Script]
           /\ php'[c] = r
           /\ \A d \in Children \ {c} : php'[d] = php[d]
  BY DEF Becomes, TypeOK

LEMMA BlankIsFile == Blank \in File /\ Blank.data = {} /\ Blank.acked = {} /\ Blank.lock = Nobody
  BY DEF Blank, File

LEMMA OpenIs ==
    ASSUME IInv, NEW s \in Sids, NEW f \in Files, Open(s, f)
    PROVE  /\ name' \in [Sids -> Files \cup {NoFile}]
           /\ file' \in [Files -> File]
           /\ \A g \in Files : file'[g] = file[g] \/ (g = f /\ ~ Live(f) /\ file'[f] = Blank)
           /\ NamesStep
           /\ f = name[s] \/ ~ Live(f)
           /\ \A t \in Sids : name'[t] = name[t] \/ (t = s /\ name'[t] = f)
           /\ ~ Live(f) => file'[f] = Blank /\ \A t \in Sids : name'[t] = f => t = s
<1> USE BlankIsFile DEF IInv, TypeOK
<1>1. CASE name[s] # NoFile
  BY <1>1 DEF Open, NamesStep, Live, Named
<1>2. CASE name[s] = NoFile
  BY <1>2 DEF Open, New, NamesStep, Live, Named
<1> QED
  BY <1>1, <1>2

\* Files that keep their state, or are created, meet FilesStep.
LEMMA OpenedFiles ==
    ASSUME IInv, NEW c \in Children, php[c].pc # "cut",
           \A g \in Files : file'[g] = file[g] \/ (~ Live(g) /\ file'[g] = Blank)
    PROVE  FilesStep(c)
<1>1. ASSUME NEW f \in Files, f = php[c].fd
      PROVE  Progress \notin file'[f].acked /\ file'[f].acked \subseteq file'[f].data
  BY <1>1, WholeFiles, OpenIsLive, BlankIsFile DEF NoFile, Files
<1>2. ASSUME NEW f \in Files, ~ Live(f)
      PROVE  /\ file'[f].lock = Nobody /\ Progress \notin file'[f].acked
             /\ file'[f].acked \subseteq file'[f].data
  BY <1>2, WholeFiles, BlankIsFile DEF Live
<1>3. ASSUME NEW f \in Files, Live(f) PROVE file'[f] = file[f]
  BY <1>3
<1> QED
  BY <1>1, <1>2, <1>3 DEF FilesStep, Kept

LEMMA UnlockedIs ==
    ASSUME TypeOK, NEW fs
    PROVE  /\ Unlocked(fs) \in [Files -> File]
           /\ \A f \in Files : f \notin fs => Unlocked(fs)[f] = file[f]
           /\ \A f \in Files : f \in fs =>
                 /\ Unlocked(fs)[f].lock = Nobody
                 /\ \/ Unlocked(fs)[f].data = file[f].data /\ Unlocked(fs)[f].acked = file[f].acked
                    \/ Unlocked(fs)[f].data = {} /\ Unlocked(fs)[f].acked = {}
  BY BlankIsFile DEF Unlocked, TypeOK, File

\* Giving back the one lock a child remembers.
LEMMA ReleasedIs ==
    ASSUME IInv, NEW c \in Children, php[c].pc # "cut", file' = Released(c)
    PROVE  file' \in [Files -> File] /\ FilesStep(c)
<1> DEFINE fs == {php[c].fd} \ {NoFile}
<1>1. TypeOK /\ file' = Unlocked(fs)
  BY DEF Released, IInv
<1> HIDE DEF fs
<1>2. /\ file' \in [Files -> File]
      /\ \A f \in Files : f \notin fs => file'[f] = file[f]
      /\ \A f \in Files : f \in fs =>
            \/ file'[f].data = file[f].data /\ file'[f].acked = file[f].acked
            \/ file'[f].data = {} /\ file'[f].acked = {}
  BY <1>1, UnlockedIs
<1>3. ASSUME NEW f \in Files, f = php[c].fd
      PROVE  Progress \notin file'[f].acked /\ file'[f].acked \subseteq file'[f].data
  BY <1>2, <1>3, WholeFiles DEF fs, NoFile, Files
<1>4. ASSUME NEW f \in Files, f # php[c].fd PROVE file'[f] = file[f]
  BY <1>2, <1>4 DEF fs
<1>5. ASSUME NEW f \in Files, ~ Live(f)
      PROVE  f # php[c].fd /\ file[f].lock = Nobody /\ Progress \notin file[f].acked
             /\ file[f].acked \subseteq file[f].data
  BY <1>5, WholeFiles DEF Live
<1> QED
  BY <1>2, <1>3, <1>4, <1>5 DEF FilesStep, Kept

\* A process takes a lock nobody has.
LEMMA LockedIs ==
    ASSUME IInv, NEW c \in Children, php[c].pc = "wait",
           file[php[c].wait].lock = Nobody, file' = Locked(c)
    PROVE  /\ file' \in [Files -> File]
           /\ FilesStep(c)
           /\ php[c].wait \in Files
           /\ file'[php[c].wait].lock = c
           /\ Kept(php[c].wait)
           /\ file[php[c].wait].acked \subseteq file[php[c].wait].data
<1>1. /\ php[c].wait \in Files /\ Live(php[c].wait) /\ php[c].wait # NoFile
      /\ php[c].wait # php[c].fd
  BY OpenIsLive DEF IInv, ChildInv, PcIsRight, LockIsHeld, TypeOK, Script, Files, NoFile
<1>2. /\ file' \in [Files -> File]
      /\ file'[php[c].wait].lock = c /\ Kept(php[c].wait)
      /\ \A f \in Files : f # php[c].wait => file'[f] = file[f]
  BY <1>1 DEF Locked, IInv, TypeOK, File, Kept
<1>3. ASSUME NEW f \in Files, f = php[c].fd
      PROVE  Progress \notin file'[f].acked /\ file'[f].acked \subseteq file'[f].data
  BY <1>1, <1>2, <1>3, WholeFiles DEF NoFile, Files
<1>4. ASSUME NEW f \in Files, ~ Live(f)
      PROVE  f # php[c].wait /\ file[f].lock = Nobody /\ Progress \notin file[f].acked
             /\ file[f].acked \subseteq file[f].data
  BY <1>1, <1>4, WholeFiles DEF Live
<1> QED
  BY <1>1, <1>2, <1>3, <1>4, WholeFiles DEF FilesStep, Kept

SpentOK == spent \in [Kinds -> Nat] /\ \A k \in Kinds : spent[k] <= Limit[k]

LEMMA SpendIs ==
    ASSUME TypeOK, NEW kinds, Spend(kinds)
    PROVE  SpentOK'
<1>1. \A k \in Kinds : Limit[k] \in Nat
  BY SessionAssumption DEF Kinds, Limit
<1> QED
  BY <1>1 DEF Spend, SpentOK, TypeOK

LEMMA TypesStep ==
    ASSUME TypeOK, UNCHANGED <<upload, thread, gone>>,
           name' \in [Sids -> Files \cup {NoFile}], file' \in [Files -> File],
           php' \in [Children -> Script], issued' \subseteq Sids, unlocked' \in BOOLEAN, SpentOK'
    PROVE  TypeOK'
  BY DEF TypeOK, SpentOK

\* The start state of a bridge, and what a closed session leaves.
LEMMA ResetIs == Reset \in Script
  BY SessionAssumption DEF Reset, Script, Items, Files, NoFile

LEMMA ClosedIs == ASSUME NEW r \in Script PROVE Closed(r) \in Script
  BY DEF Closed, Script, Files, NoFile

\* A child that ends up with no session and no descriptor has nothing to show.
LEMMA WithoutSession ==
    ASSUME NEW c \in Children, ~ php'[c].active, php'[c].fd = NoFile, php'[c].wait = NoFile,
           php'[c].pc \in {"idle", "script", "remove", "send"},
           php'[c].cookie \in issued' \cup {NoSid}
    PROVE  SelfInv(c)'
  BY DEF SelfInv, PcIsRight, LockIsHeld, KeepsWritten, IdIsKnown, FileIsPrivate, Renewing

LEMMA BeginKeeps == ASSUME IInv, NEW c \in Children, Begin(c) PROVE IInv'
<1>1. TypeOK /\ php[c].pc = "idle"
  BY DEF IInv, Begin
<1>2. PICK s \in issued \cup {NoSid}, o \in BOOLEAN, d \in BOOLEAN :
         /\ Spend({"request"} \cup IF o THEN {"rare"} ELSE {})
         /\ Becomes(c, [Reset EXCEPT !.pc = "script", !.cookie = s, !.object = o, !.shutdown = d,
                                     !.item = spent["request"] + 2])
  BY DEF Begin
<1> DEFINE r == [Reset EXCEPT !.pc = "script", !.cookie = s, !.object = o, !.shutdown = d,
                              !.item = spent["request"] + 2]
<1>3. spent["request"] + 2 \in Items
  <2>1. spent["request"] \in Nat /\ spent["request"] < MaxRequests /\ MaxRequests \in Nat
    BY <1>2, SessionAssumption DEF Spend, Limit, Kinds, IInv, TypeOK
  <2> QED
    BY <2>1 DEF Items
<1>4. r \in Script
  BY <1>1, <1>3, ResetIs DEF Script, TypeOK
<1>5. /\ ~ r.active /\ r.fd = NoFile /\ r.wait = NoFile /\ r.pc = "script" /\ r.cookie = s
      /\ r.id = NoSid
  BY DEF Reset
<1> HIDE DEF r
<1>6. /\ php' \in [Children -> Script] /\ php'[c] = r
      /\ \A e \in Children \ {c} : php'[e] = php[e]
  BY <1>1, <1>2, <1>4, BecomesIs DEF r
<1>7. UNCHANGED <<name, issued, gone, unlocked, upload, thread>> /\ file' = Released(c)
  BY DEF Begin, OnlyFile
<1>8. SpentOK'
  BY <1>1, <1>2, SpendIs
<1>9. file' \in [Files -> File] /\ FilesStep(c)
  BY <1>1, <1>7, ReleasedIs
<1>10. TypeOK'
  BY <1>1, <1>6, <1>7, <1>8, <1>9, TypesStep DEF TypeOK
<1>11. ScriptStep(c)
  BY <1>5, <1>6, <1>7, <1>9 DEF ScriptStep, IdsStep, NamesStep
<1>12. SelfInv(c)'
  BY <1>5, <1>6, <1>7, WithoutSession
<1> QED
  BY <1>10, <1>11, <1>12, ScriptStepKeeps

\* session_start opens the file and waits for its lock.
LEMMA StartKeeps ==
    ASSUME IInv, NEW c \in Children, NEW op \in {"start", "peek"}, Start(c, op) PROVE IInv'
<1> DEFINE asked == IF php[c].id # NoSid THEN php[c].id ELSE php[c].cookie
<1>1. TypeOK /\ ChildInv(c) /\ php[c] \in Script /\ php[c].pc = "script" /\ ~ php[c].active
  BY DEF IInv, Start, Running, TypeOK
<1>2. PICK s \in (IF asked # NoSid THEN {asked} ELSE Fresh), f \in Files :
         /\ Open(s, f)
         /\ Becomes(c, [php[c] EXCEPT !.pc = "wait", !.op = op, !.id = s, !.active = TRUE,
                                      !.wait = f, !.session = {}, !.snapshot = {}])
  BY DEF Start
<1> DEFINE r == [php[c] EXCEPT !.pc = "wait", !.op = op, !.id = s, !.active = TRUE,
                               !.wait = f, !.session = {}, !.snapshot = {}]
<1>3. s \in Sids /\ s \in {php[c].id} \cup issued \cup Fresh
  BY <1>1 DEF Script, Fresh, ChildInv, IdIsKnown
<1>4. r \in Script
  BY <1>1, <1>3 DEF Script
<1>5. /\ r.active /\ r.fd = php[c].fd /\ r.wait = f /\ r.pc = "wait" /\ r.op = op
      /\ r.cookie = php[c].cookie /\ r.id = s
  BY <1>1 DEF Script
<1> HIDE DEF r
<1>6. /\ php' \in [Children -> Script] /\ php'[c] = r
      /\ \A e \in Children \ {c} : php'[e] = php[e]
  BY <1>1, <1>2, <1>4, BecomesIs DEF r
<1>7. /\ name' \in [Sids -> Files \cup {NoFile}] /\ file' \in [Files -> File] /\ NamesStep
      /\ \A g \in Files : file'[g] = file[g] \/ (~ Live(g) /\ file'[g] = Blank)
      /\ f = name[s] \/ ~ Live(f)
  BY <1>2, <1>3, OpenIs
<1>8. UNCHANGED <<issued, gone, unlocked, upload, thread>> /\ SpentOK'
  BY <1>1, SpendIs DEF Start
<1>9. FilesStep(c)
  BY <1>1, <1>7, OpenedFiles
<1>10. TypeOK'
  BY <1>1, <1>6, <1>7, <1>8, TypesStep DEF TypeOK
<1>11. s \in Fresh => ~ Live(f)
  BY <1>7 DEF Fresh, Files, NoFile
<1>12. ScriptStep(c)
  BY <1>3, <1>5, <1>6, <1>7, <1>8, <1>9, <1>11 DEF ScriptStep, IdsStep
<1>13. SelfInv(c)'
  <2>1. PcIsRight(c)' /\ LockIsHeld(c)' /\ KeepsWritten(c)' /\ FileIsPrivate(c)'
    BY <1>1, <1>3, <1>5, <1>6
    DEF ChildInv, PcIsRight, LockIsHeld, KeepsWritten, FileIsPrivate, Renewing, Files, NoFile
  <2>2. IdIsKnown(c)'
    BY <1>1, <1>5, <1>6, <1>8 DEF ChildInv, IdIsKnown
  <2> QED
    BY <2>1, <2>2 DEF SelfInv
<1> QED
  BY <1>10, <1>12, <1>13, ScriptStepKeeps

\* The step of a child that becomes r, put together.
LEMMA BecomesKeeps ==
    ASSUME IInv, NEW c \in Children, NEW r \in Script, Becomes(c, r),
           UNCHANGED <<upload, thread>>, SpentOK',
           name' \in [Sids -> Files \cup {NoFile}], NamesStep,
           file' \in [Files -> File], FilesStep(c),
           gone' \in [Sids -> SUBSET Items], unlocked' \in BOOLEAN,
           issued' = issued \/ (issued' = issued \cup {php[c].id} /\ php[c].active),
           r.id \in {php[c].id, NoSid} \cup Fresh,
           r.fd \in {php[c].fd, php[c].wait, NoFile},
           \/ r.wait = NoFile \/ ~ Live(r.wait)
           \/ php[c].active /\ r.wait = name[php[c].id],
           SelfInv(c)'
    PROVE  IInv'
<1>1. TypeOK /\ ChildInv(c) /\ (php[c].active => php[c].id \in Sids)
  BY DEF IInv, ChildInv, PcIsRight
<1>2. /\ php' \in [Children -> Script] /\ php'[c] = r
      /\ \A e \in Children \ {c} : php'[e] = php[e]
  BY <1>1, BecomesIs
<1>3. TypeOK'
  BY <1>1, <1>2 DEF TypeOK, SpentOK
<1>4. ScriptStep(c)
  BY <1>1, <1>2 DEF ScriptStep, IdsStep
<1> QED
  BY <1>3, <1>4, ScriptStepKeeps

\* A child whose session, descriptor and id do not change, at a point of its
\* script that says nothing about them.
LEMMA SameSession ==
    ASSUME IInv, NEW c \in Children, NEW r, php'[c] = r, file' = file,
           issued' \in {issued, issued \cup {php[c].id}},
           php[c].pc \in {"script", "send", "remove"}, r.pc \in {"script", "send", "remove"},
           r.wait = NoFile, r.fd = php[c].fd, r.id = php[c].id, r.active = php[c].active,
           r.cookie = php[c].cookie,
           r.active /\ r.fd # NoFile => file[r.fd].acked \subseteq r.session \cap r.snapshot
    PROVE  SelfInv(c)'
<1>1. ChildInv(c) /\ php[c].pc # "wait" /\ r.pc # "wait"
  BY DEF IInv
<1>2. PcIsRight(c)' /\ LockIsHeld(c)' /\ KeepsWritten(c)' /\ IdIsKnown(c)' /\ FileIsPrivate(c)'
  BY <1>1 DEF ChildInv, PcIsRight, LockIsHeld, KeepsWritten, IdIsKnown, FileIsPrivate, Renewing
<1> QED
  BY <1>2 DEF SelfInv

\* The steps that only move the script: an assignment to the session, output,
\* the collector's search and its removals.
LEMMA ScriptMoves ==
    ASSUME IInv, NEW c \in Children, Add(c) \/ Output(c) \/ Sent(c) \/ Collect(c) \/ Remove(c)
    PROVE  IInv'
<1>1. TypeOK /\ ChildInv(c) /\ php[c] \in Script
  BY DEF IInv, TypeOK
<1>2. /\ UNCHANGED <<file, issued, gone, unlocked, upload, thread>>
      /\ php[c].pc \in {"script", "send", "remove"} /\ php[c].wait = NoFile
  BY <1>1
  DEF Add, Output, Sent, Collect, Remove, store, Running, InSession, ChildInv, PcIsRight
<1>3. name' \in [Sids -> Files \cup {NoFile}] /\ NamesStep
  BY <1>1 DEF Add, Output, Sent, Collect, Remove, store, TypeOK, NamesStep
<1>4. SpentOK'
  BY <1>1, SpendIs DEF Add, Output, Sent, Collect, Remove, TypeOK, SpentOK
<1>5. PICK r \in Script :
         /\ Becomes(c, r)
         /\ r.pc \in {"script", "send", "remove"}
         /\ r.wait = NoFile /\ r.fd = php[c].fd /\ r.id = php[c].id /\ r.active = php[c].active
         /\ r.cookie = php[c].cookie /\ r.snapshot = php[c].snapshot
         /\ php[c].session \subseteq r.session
  <2>1. CASE Add(c)
    <3> DEFINE r == [php[c] EXCEPT !.session = @ \cup {php[c].item}, !.item = 0]
    <3>1. r \in Script
      <4>1. php[c].session \cup {php[c].item} \in SUBSET Items /\ 0 \in Items
        BY <1>1, SessionAssumption DEF Script, Items
      <4> QED
        BY <1>1, <4>1 DEF Script
    <3> QED
      BY <1>1, <1>2, <2>1, <3>1 DEF Add, InSession, Running, Script
  <2>2. CASE Output(c) \/ Sent(c)
    <3>1. PICK pc \in {"script", "send"} : Becomes(c, [php[c] EXCEPT !.pc = pc])
      BY <2>2 DEF Output, Sent
    <3>2. [php[c] EXCEPT !.pc = pc] \in Script
      BY <1>1 DEF Script
    <3> QED
      BY <1>1, <1>2, <3>1, <3>2 DEF Script
  <2>3. CASE Collect(c) \/ Remove(c)
    <3>1. PICK pc \in {"script", "remove"}, s \in Sids \cup {NoSid} :
             Becomes(c, [php[c] EXCEPT !.pc = pc, !.found = s])
      BY <2>3 DEF Collect, Remove, Expired
    <3>2. [php[c] EXCEPT !.pc = pc, !.found = s] \in Script
      BY <1>1 DEF Script
    <3> QED
      BY <1>1, <1>2, <3>1, <3>2 DEF Script
  <2> QED
    BY <2>1, <2>2, <2>3
<1>6. SelfInv(c)'
  <2>1. php'[c] = r
    BY <1>1, <1>5, BecomesIs
  <2>2. r.active /\ r.fd # NoFile => file[r.fd].acked \subseteq r.session \cap r.snapshot
    BY <1>1, <1>5 DEF ChildInv, KeepsWritten
  <2> QED
    BY <1>2, <1>5, <2>1, <2>2, SameSession
<1>7. FilesStep(c)
  BY <1>2, OpenedFiles
<1> QED
  BY <1>1, <1>2, <1>3, <1>4, <1>5, <1>6, <1>7, BecomesKeeps DEF TypeOK

\* Nothing changes but a bound.
LEMMA StartFailsKeeps == ASSUME IInv, NEW c \in Children, StartFails(c) PROVE IInv'
<1>1. TypeOK /\ php[c] \in Script /\ php[c].pc = "script" /\ ChildInv(c)
  BY DEF IInv, TypeOK, StartFails, Running
<1>2. UNCHANGED <<name, file, issued, gone, unlocked, upload, thread, php>> /\ SpentOK'
  BY <1>1, SpendIs DEF StartFails, store
<1>3. Becomes(c, php[c]) /\ php'[c] = php[c]
  BY <1>1, <1>2 DEF Becomes, TypeOK
<1>4. SelfInv(c)'
  BY <1>1, <1>2, <1>3, SameSession DEF ChildInv, PcIsRight, KeepsWritten
<1>5. FilesStep(c)
  BY <1>1, <1>2, OpenedFiles
<1> QED
  BY <1>1, <1>2, <1>3, <1>4, <1>5, BecomesKeeps DEF TypeOK, NamesStep, ChildInv, PcIsRight

\* A child that waited gets the lock, and reads what the file holds or knows
\* that nothing was written to it.
LEMMA LockTaken ==
    ASSUME IInv, NEW c \in Children, php[c].pc = "wait", file[php[c].wait].lock = Nobody,
           file' = Locked(c), issued \subseteq issued', php[c].id \in issued',
           NEW r, php'[c] = r, r.pc \in {"script", "remove"}, r.wait = NoFile, r.active,
           r.fd = php[c].wait, r.id = php[c].id, r.cookie = php[c].cookie,
           \/ file[php[c].wait].data \subseteq r.session \cap r.snapshot
           \/ file[php[c].wait].acked = {}
    PROVE  SelfInv(c)'
<1>1. ChildInv(c) /\ php[c].active
  BY DEF IInv, ChildInv, PcIsRight
<1>2. /\ file'[php[c].wait].lock = c
      /\ file'[php[c].wait].acked \subseteq file[php[c].wait].data
      /\ file'[php[c].wait].acked = file[php[c].wait].acked
  BY LockedIs DEF Kept
<1>3. PcIsRight(c)' /\ LockIsHeld(c)' /\ IdIsKnown(c)' /\ FileIsPrivate(c)'
  BY <1>1, <1>2 DEF ChildInv, PcIsRight, LockIsHeld, IdIsKnown, FileIsPrivate, Renewing
<1>4. KeepsWritten(c)'
  BY <1>2 DEF KeepsWritten
<1> QED
  BY <1>3, <1>4 DEF SelfInv

\* What session_start or session_reset read goes to the script.
LEMMA ReadIs ==
    ASSUME TypeOK, NEW c \in Children, php[c].wait \in Files
    PROVE  /\ Read(c) \in SUBSET Items
           /\ Resumed(c) \in Script
           /\ [Resumed(c) EXCEPT !.fd = php[c].wait, !.session = Read(c), !.snapshot = Read(c)]
                 \in Script
           /\ [Resumed(c) EXCEPT !.fd = php[c].wait, !.snapshot = Read(c)] \in Script
<1>1. Read(c) \in SUBSET Items
  BY DEF Read, TypeOK, File
<1>2. Resumed(c) \in Script
  <2>1. php[c] \in Script
    BY DEF TypeOK
  <2> QED
    BY <2>1 DEF Resumed, Script
<1> HIDE DEF Resumed
<1> QED
  BY <1>1, <1>2 DEF Script

LEMMA ReadsKeep ==
    ASSUME IInv, NEW c \in Children, Started(c) \/ Restored(c) PROVE IInv'
<1> DEFINE q == [Resumed(c) EXCEPT !.fd = php[c].wait, !.session = Read(c), !.snapshot = Read(c)]
<1>1. TypeOK /\ ChildInv(c) /\ php[c] \in Script
  BY DEF IInv, TypeOK
<1>2. /\ UNCHANGED <<name, gone, unlocked, upload, thread, spent>> /\ file' = Locked(c)
      /\ php[c].pc = "wait" /\ file[php[c].wait].lock = Nobody
      /\ issued' \in {issued, issued \cup {php[c].id}}
  BY DEF Started, Restored, Waits, OnlyFile
<1>3. php[c].id \in issued' /\ php[c].active
  BY <1>1 DEF Started, Restored, Waits, ChildInv, PcIsRight, IdIsKnown, OnlyFile
<1>4. file' \in [Files -> File] /\ FilesStep(c) /\ php[c].wait \in Files
  BY <1>2, LockedIs
<1>5. /\ q \in Script /\ q.pc = "script" /\ q.wait = NoFile /\ q.active /\ q.fd = php[c].wait
      /\ q.id = php[c].id /\ q.cookie = php[c].cookie
      /\ q.session = file[php[c].wait].data /\ q.snapshot = file[php[c].wait].data
  <2>1. q \in Script
    BY <1>1, <1>4, ReadIs
  <2>2. Read(c) = file[php[c].wait].data
    BY DEF Read
  <2> QED
    BY <1>1, <1>3, <2>1, <2>2 DEF Script, Resumed
<1>6. PICK r \in Script :
         /\ Becomes(c, r)
         /\ r.pc \in {"script", "remove"} /\ r.wait = NoFile /\ r.active /\ r.fd = php[c].wait
         /\ r.id = php[c].id /\ r.cookie = php[c].cookie
         /\ file[php[c].wait].data \subseteq r.session \cap r.snapshot
  <2>1. Becomes(c, q) \/ \E s \in Sids : Becomes(c, [q EXCEPT !.pc = "remove", !.found = s])
    BY DEF Started, Restored, BecomesOrCollects, Expired
  <2> HIDE DEF q
  <2>2. CASE Becomes(c, q)
    BY <1>5, <2>2
  <2>3. CASE \E s \in Sids : Becomes(c, [q EXCEPT !.pc = "remove", !.found = s])
    <3>1. PICK s \in Sids : Becomes(c, [q EXCEPT !.pc = "remove", !.found = s])
      BY <2>3
    <3> DEFINE x == [q EXCEPT !.pc = "remove", !.found = s]
    <3>2. /\ x \in Script
          /\ x.pc = "remove" /\ x.wait = NoFile /\ x.active /\ x.fd = php[c].wait
          /\ x.id = php[c].id /\ x.cookie = php[c].cookie
          /\ x.session = q.session /\ x.snapshot = q.snapshot
      BY <1>5 DEF Script
    <3> HIDE DEF x
    <3> QED
      BY <1>5, <3>1, <3>2 DEF x
  <2> QED
    BY <2>1, <2>2, <2>3
<1>7. php'[c] = r
  BY <1>1, <1>6, BecomesIs
<1>8. SelfInv(c)'
  BY <1>2, <1>3, <1>6, <1>7, LockTaken
<1> QED
  BY <1>1, <1>2, <1>3, <1>4, <1>6, <1>8, BecomesKeeps DEF TypeOK, NamesStep, SpentOK

\* read_and_close and a failed start end the session where it began.
LEMMA PeekedKeeps ==
    ASSUME IInv, NEW c \in Children, Peeked(c) \/ StartAborts(c) PROVE IInv'
<1> DEFINE q == Closed(Resumed(c))
<1>1. TypeOK /\ ChildInv(c) /\ php[c] \in Script
  BY DEF IInv, TypeOK
<1>2. /\ UNCHANGED <<name, file, gone, unlocked, upload, thread>> /\ SpentOK'
      /\ php[c].pc = "wait"
      /\ issued' \in {issued, issued \cup {php[c].id}}
  BY <1>1, SpendIs DEF Peeked, StartAborts, Waits, store, TypeOK, SpentOK
<1>3. php[c].wait \in Files /\ php[c].active
  BY <1>1, <1>2 DEF ChildInv, PcIsRight, Script
<1>4. /\ q \in Script /\ ~ q.active /\ q.fd = NoFile /\ q.wait = NoFile /\ q.pc = "script"
      /\ q.id = php[c].id /\ q.cookie = php[c].cookie
  <2>1. Resumed(c) \in Script
    BY <1>1, <1>3, ReadIs
  <2>2. q \in Script
    BY <2>1, ClosedIs
  <2> QED
    BY <1>1, <2>1, <2>2 DEF Script, Closed, Resumed
<1>5. PICK r \in Script :
         /\ Becomes(c, r)
         /\ ~ r.active /\ r.fd = NoFile /\ r.wait = NoFile /\ r.pc \in {"script", "remove"}
         /\ r.id = php[c].id /\ r.cookie = php[c].cookie
  <2>1. Becomes(c, q) \/ \E s \in Sids : Becomes(c, [q EXCEPT !.pc = "remove", !.found = s])
    BY DEF Peeked, StartAborts, BecomesOrCollects, Expired
  <2> HIDE DEF q
  <2>2. CASE Becomes(c, q)
    BY <1>4, <2>2
  <2>3. CASE \E s \in Sids : Becomes(c, [q EXCEPT !.pc = "remove", !.found = s])
    <3>1. PICK s \in Sids : Becomes(c, [q EXCEPT !.pc = "remove", !.found = s])
      BY <2>3
    <3> DEFINE x == [q EXCEPT !.pc = "remove", !.found = s]
    <3>2. /\ x \in Script
          /\ x.pc = "remove" /\ x.wait = NoFile /\ ~ x.active /\ x.fd = NoFile
          /\ x.id = php[c].id /\ x.cookie = php[c].cookie
      BY <1>4 DEF Script
    <3> HIDE DEF x
    <3> QED
      BY <1>4, <3>1, <3>2 DEF x
  <2> QED
    BY <2>1, <2>2, <2>3
<1>6. php'[c] = r
  BY <1>1, <1>5, BecomesIs
<1>7. SelfInv(c)'
  BY <1>1, <1>2, <1>5, <1>6, WithoutSession DEF ChildInv, IdIsKnown
<1>8. FilesStep(c)
  BY <1>2, OpenedFiles
<1> QED
  BY <1>1, <1>2, <1>3, <1>5, <1>7, <1>8, BecomesKeeps DEF TypeOK, NamesStep

\* session_abort gives the lock back and keeps nothing.
LEMMA AbortKeeps == ASSUME IInv, NEW c \in Children, Abort(c) PROVE IInv'
<1> DEFINE r == Closed(php[c])
<1>1. TypeOK /\ ChildInv(c) /\ php[c] \in Script /\ php[c].pc = "script"
  BY DEF IInv, TypeOK, Abort, InSession, Running
<1>2. /\ UNCHANGED <<name, issued, gone, unlocked, upload, thread>> /\ SpentOK'
      /\ file' = Released(c) /\ Becomes(c, r)
  BY <1>1, SpendIs DEF Abort, OnlyFile
<1>3. r \in Script
  BY <1>1, ClosedIs
<1>4. /\ ~ r.active /\ r.fd = NoFile /\ r.wait = NoFile /\ r.pc = "script"
      /\ r.id = php[c].id /\ r.cookie = php[c].cookie
  BY <1>1, <1>3 DEF Script, Closed, ChildInv, PcIsRight
<1> HIDE DEF r
<1>5. file' \in [Files -> File] /\ FilesStep(c)
  BY <1>1, <1>2, ReleasedIs
<1>6. SelfInv(c)'
  <2>1. php'[c] = r
    BY <1>1, <1>2, <1>3, BecomesIs
  <2> QED
    BY <1>1, <1>2, <1>4, <2>1, WithoutSession DEF ChildInv, IdIsKnown
<1> QED
  BY <1>1, <1>2, <1>3, <1>4, <1>5, <1>6, BecomesKeeps DEF TypeOK, NamesStep

\* session_reset: the snapshot is as good as the session; the file is opened again.
LEMMA RestoreKeeps == ASSUME IInv, NEW c \in Children, Restore(c) PROVE IInv'
<1>1. TypeOK /\ ChildInv(c) /\ php[c] \in Script /\ php[c].pc = "script" /\ php[c].active
  BY DEF IInv, TypeOK, Restore, InSession, Running
<1>2. php[c].id \in Sids /\ php[c].id \in issued /\ php[c].wait = NoFile
  BY <1>1 DEF ChildInv, PcIsRight, IdIsKnown
<1>3. UNCHANGED <<issued, gone, unlocked, upload, thread>> /\ SpentOK'
  BY <1>1, SpendIs DEF Restore
<1>4. CASE php[c].object
  <2>1. PICK f \in Files :
           /\ Open(php[c].id, f)
           /\ Becomes(c, [php[c] EXCEPT !.pc = "wait", !.op = "reset", !.wait = f])
    BY <1>4 DEF Restore
  <2> DEFINE r == [php[c] EXCEPT !.pc = "wait", !.op = "reset", !.wait = f]
  <2>2. /\ r \in Script /\ r.pc = "wait" /\ r.op = "reset" /\ r.wait = f /\ r.active
        /\ r.fd = php[c].fd /\ r.id = php[c].id /\ r.cookie = php[c].cookie
        /\ r.session = php[c].session /\ r.snapshot = php[c].snapshot
    BY <1>1 DEF Script
  <2> HIDE DEF r
  <2>3. Becomes(c, r)
    BY <2>1 DEF r
  <2>4. /\ name' \in [Sids -> Files \cup {NoFile}] /\ file' \in [Files -> File] /\ NamesStep
        /\ \A g \in Files : file'[g] = file[g] \/ (~ Live(g) /\ file'[g] = Blank)
        /\ f = name[php[c].id] \/ ~ Live(f)
    BY <1>2, <2>1, OpenIs
  <2>5. FilesStep(c)
    BY <1>1, <2>4, OpenedFiles
  <2>6. SelfInv(c)'
    <3>1. php'[c] = r
      BY <1>1, <2>2, <2>3, BecomesIs
    <3>2. php[c].fd # NoFile => file'[php[c].fd] = file[php[c].fd]
      BY <1>1, <2>4, OpenIsLive DEF Script
    <3>3. PcIsRight(c)' /\ LockIsHeld(c)' /\ KeepsWritten(c)' /\ FileIsPrivate(c)'
      BY <1>1, <1>2, <2>2, <3>1, <3>2
      DEF ChildInv, PcIsRight, LockIsHeld, KeepsWritten, FileIsPrivate, Renewing, Files, NoFile
    <3>4. IdIsKnown(c)'
      BY <1>1, <1>2, <1>3, <2>2, <3>1 DEF ChildInv, IdIsKnown
    <3> QED
      BY <3>3, <3>4 DEF SelfInv
  <2> QED
    BY <1>1, <1>3, <2>2, <2>3, <2>4, <2>5, <2>6, BecomesKeeps DEF TypeOK
<1>5. CASE ~ php[c].object
  <2> DEFINE r == [php[c] EXCEPT !.session = php[c].snapshot]
  <2>1. /\ r \in Script /\ r.pc = "script" /\ r.wait = NoFile /\ r.active
        /\ r.fd = php[c].fd /\ r.id = php[c].id /\ r.cookie = php[c].cookie
        /\ r.session = php[c].snapshot /\ r.snapshot = php[c].snapshot
    BY <1>1, <1>2 DEF Script
  <2>2. Becomes(c, r) /\ UNCHANGED <<name, file>>
    BY <1>5 DEF Restore
  <2> HIDE DEF r
  <2>3. php'[c] = r
    BY <1>1, <2>1, <2>2, BecomesIs
  <2>4. SelfInv(c)'
    <3>1. r.active /\ r.fd # NoFile => file[r.fd].acked \subseteq r.session \cap r.snapshot
      BY <1>1, <2>1 DEF ChildInv, KeepsWritten
    <3> QED
      BY <1>1, <1>3, <2>1, <2>2, <2>3, <3>1, SameSession
  <2>5. FilesStep(c)
    BY <1>1, <2>2, OpenedFiles
  <2> QED
    BY <1>1, <1>3, <2>1, <2>2, <2>4, <2>5, BecomesKeeps DEF TypeOK, NamesStep
<1> QED
  BY <1>4, <1>5

\* A failed session_reset forgets what was written: nothing is owed any more.
LEMMA RestoreFailsKeeps == ASSUME IInv, NEW c \in Children, RestoreFails(c) PROVE IInv'
<1> DEFINE r == [php[c] EXCEPT !.session = {}]
<1>1. TypeOK /\ ChildInv(c) /\ php[c] \in Script /\ php[c].pc = "script" /\ php[c].active
  BY DEF IInv, TypeOK, RestoreFails, InSession, Running
<1>2. /\ UNCHANGED <<name, issued, gone, unlocked, upload, thread>> /\ SpentOK' /\ Becomes(c, r)
      /\ file' = [f \in Files |-> IF f = php[c].fd THEN [file[f] EXCEPT !.acked = {}] ELSE file[f]]
  BY <1>1, SpendIs DEF RestoreFails, OnlyFile
<1>3. /\ r \in Script /\ r.pc = "script" /\ r.wait = NoFile /\ r.active
      /\ r.fd = php[c].fd /\ r.id = php[c].id /\ r.cookie = php[c].cookie
  BY <1>1 DEF Script, ChildInv, PcIsRight
<1> HIDE DEF r
<1>4. php'[c] = r
  BY <1>1, <1>2, <1>3, BecomesIs
<1>5. file' \in [Files -> File]
  BY <1>1, <1>2 DEF TypeOK, File
<1>6. \A f \in Files : file'[f] = file[f] \/ (f = php[c].fd /\ file'[f].acked = {}
                                              /\ file'[f].lock = file[f].lock)
  BY <1>1, <1>2 DEF TypeOK, File
<1>7. FilesStep(c)
  <2>1. ASSUME NEW f \in Files, ~ Live(f)
        PROVE  f # php[c].fd /\ file[f].lock = Nobody /\ Progress \notin file[f].acked
               /\ file[f].acked \subseteq file[f].data
    BY <2>1, WholeFiles DEF Live
  <2>2. ASSUME NEW f \in Files, f = php[c].fd PROVE file'[f].acked = {}
    BY <1>1, <1>2, <2>2 DEF TypeOK, File
  <2> QED
    BY <1>6, <2>1, <2>2 DEF FilesStep, Kept
<1>8. SelfInv(c)'
  <2>1. php[c].fd # NoFile => /\ php[c].fd \in Files /\ file'[php[c].fd].acked = {}
                              /\ file'[php[c].fd].lock = file[php[c].fd].lock
    BY <1>1, <1>2 DEF TypeOK, Script, File
  <2>2. PcIsRight(c)' /\ LockIsHeld(c)' /\ KeepsWritten(c)' /\ FileIsPrivate(c)' /\ IdIsKnown(c)'
    BY <1>1, <1>2, <1>3, <1>4, <2>1
    DEF ChildInv, PcIsRight, LockIsHeld, KeepsWritten, FileIsPrivate, Renewing, IdIsKnown
  <2> QED
    BY <2>2 DEF SelfInv
<1> QED
  BY <1>1, <1>2, <1>3, <1>5, <1>7, <1>8, BecomesKeeps DEF TypeOK, NamesStep

\* A regeneration goes on with its own empty file, or without one.
LEMMA RenewedKeeps == ASSUME IInv, NEW c \in Children, Renewed(c) PROVE IInv'
<1>1. TypeOK /\ ChildInv(c) /\ php[c] \in Script /\ php[c].pc = "wait" /\ Renewing(c)
  BY DEF IInv, TypeOK, Renewed, Waits, Renewing
<1>2. /\ UNCHANGED <<name, gone, unlocked, upload, thread>>
      /\ file[php[c].wait].lock = Nobody /\ issued' = issued \cup {php[c].id}
  BY DEF Renewed, Waits
<1>3. php[c].wait \in Files /\ php[c].active /\ php[c].id \in Sids /\ file[php[c].wait].acked = {}
  BY <1>1 DEF ChildInv, PcIsRight, FileIsPrivate, Script
<1>4. CASE file' = Locked(c) /\ UNCHANGED spent
           /\ Becomes(c, [Resumed(c) EXCEPT !.fd = php[c].wait, !.snapshot = Read(c)])
  <2> DEFINE r == [Resumed(c) EXCEPT !.fd = php[c].wait, !.snapshot = Read(c)]
  <2>1. /\ r \in Script /\ r.pc = "script" /\ r.wait = NoFile /\ r.active /\ r.fd = php[c].wait
        /\ r.id = php[c].id /\ r.cookie = php[c].cookie
    <3>1. Resumed(c) \in Script /\ r \in Script
      BY <1>1, <1>3, ReadIs
    <3> QED
      BY <1>1, <1>3, <3>1 DEF Script, Resumed
  <2> HIDE DEF r
  <2>2. Becomes(c, r)
    BY <1>4 DEF r
  <2>3. file' \in [Files -> File] /\ FilesStep(c)
    BY <1>1, <1>2, <1>4, LockedIs
  <2>4. SelfInv(c)'
    <3>1. php'[c] = r
      BY <1>1, <2>1, <2>2, BecomesIs
    <3> QED
      BY <1>1, <1>2, <1>3, <1>4, <2>1, <3>1, LockTaken
  <2> QED
    BY <1>1, <1>2, <1>3, <1>4, <2>1, <2>2, <2>3, <2>4, BecomesKeeps DEF TypeOK, NamesStep, SpentOK
<1>5. CASE file' = file /\ Spend({"rare"}) /\ Becomes(c, Resumed(c))
  <2> DEFINE r == Resumed(c)
  <2>1. /\ r \in Script /\ r.pc = "script" /\ r.wait = NoFile /\ r.active /\ r.fd = php[c].fd
        /\ r.id = php[c].id /\ r.cookie = php[c].cookie
        /\ r.session = php[c].session /\ r.snapshot = php[c].snapshot
    <3>1. r \in Script
      BY <1>1, <1>3, ReadIs
    <3> QED
      BY <1>1, <1>3, <3>1 DEF Script, Resumed
  <2> HIDE DEF r
  <2>2. Becomes(c, r) /\ SpentOK'
    BY <1>1, <1>5, SpendIs DEF r
  <2>3. FilesStep(c)
    BY <1>1, <1>5, OpenedFiles
  <2>4. SelfInv(c)'
    <3>1. php'[c] = r
      BY <1>1, <2>1, <2>2, BecomesIs
    <3>2. PcIsRight(c)' /\ LockIsHeld(c)' /\ KeepsWritten(c)' /\ FileIsPrivate(c)' /\ IdIsKnown(c)'
      BY <1>1, <1>2, <1>3, <1>5, <2>1, <3>1
      DEF ChildInv, PcIsRight, LockIsHeld, KeepsWritten, FileIsPrivate, Renewing, IdIsKnown
    <3> QED
      BY <3>2 DEF SelfInv
  <2> QED
    BY <1>1, <1>2, <1>3, <1>5, <2>1, <2>2, <2>3, <2>4, BecomesKeeps DEF TypeOK, NamesStep
<1> QED
  BY <1>4, <1>5 DEF Renewed
-----------------------------------------------------------------------------
(***************************************************************************)
(* Writing.                                                                *)
(***************************************************************************)

\* The call a write is part of: the child's state but for the name of the call.
Calls(c, r) ==
    /\ r \in Script
    /\ r.op \in {"call", "finish", "renew"}
    /\ r.pc = php[c].pc /\ r.active = php[c].active /\ r.id = php[c].id
    /\ r.cookie = php[c].cookie /\ r.fd = php[c].fd /\ r.wait = php[c].wait
    /\ r.session = php[c].session /\ r.snapshot = php[c].snapshot
    /\ r.item = php[c].item

LEMMA CallsIs ==
    ASSUME TypeOK, NEW c \in Children, NEW op \in {"call", "finish", "renew"}
    PROVE  Calls(c, [php[c] EXCEPT !.op = op])
<1>1. php[c] \in Script
  BY DEF TypeOK
<1> QED
  BY <1>1 DEF Calls, Script

\* Whatever a write was for, the descriptor is closed after it.
LEMMA AfterIs ==
    ASSUME NEW r \in Script, NEW ok \in BOOLEAN, r.op \in {"call", "finish", "renew"},
           r.wait = NoFile
    PROVE  /\ After(r, ok) \in Script
           /\ After(r, ok).fd = NoFile
           /\ After(r, ok).wait = NoFile
           /\ After(r, ok).id \in {r.id, NoSid}
           /\ After(r, ok).cookie \in {r.cookie, NoSid}
           /\ \/ ~ After(r, ok).active /\ After(r, ok).pc \in {"idle", "script"}
              \/ /\ After(r, ok).id = r.id
                 /\ \/ After(r, ok).pc = "renew" /\ After(r, ok).op = "renew"
                                                 /\ After(r, ok).active = r.active
                    \/ After(r, ok).pc = "script" /\ After(r, ok).active = r.active
<1>1. CASE r.op = "call"
  <2>1. After(r, ok) = Closed(r) /\ Closed(r) \in Script
    BY <1>1, ClosedIs DEF After
  <2>2. /\ Closed(r).fd = NoFile /\ Closed(r).wait = r.wait /\ Closed(r).id = r.id
        /\ Closed(r).cookie = r.cookie /\ ~ Closed(r).active /\ Closed(r).pc = "script"
    BY DEF Closed, Script
  <2> QED
    BY <2>1, <2>2
<1>2. CASE r.op = "finish"
  <2>1. After(r, ok) = Reset
    BY <1>2 DEF After
  <2> QED
    BY <2>1, ResetIs DEF Reset
<1>3. CASE r.op = "renew"
  <2>1. CASE ok
    <3>1. After(r, ok) = [r EXCEPT !.pc = "renew", !.fd = NoFile, !.op = "renew"]
      BY <1>3, <2>1 DEF After
    <3> QED
      BY <1>3, <3>1 DEF Script
  <2>2. CASE ~ ok
    <3>1. After(r, ok) = [r EXCEPT !.pc = "script", !.fd = NoFile, !.op = "none"]
      BY <1>3, <2>2 DEF After
    <3> QED
      BY <1>3, <3>1 DEF Script
  <2> QED
    BY <2>1, <2>2
<1> QED
  BY <1>1, <1>2, <1>3

LEMMA AfterSelf ==
    ASSUME IInv, NEW c \in Children, php[c].pc \in {"script", "cut"}, php[c].active,
           NEW r, Calls(c, r), NEW ok \in BOOLEAN, php'[c] = After(r, ok),
           issued' = issued
    PROVE  SelfInv(c)'
<1> DEFINE a == After(r, ok)
<1>1. ChildInv(c) /\ php[c].wait = NoFile /\ php[c].id \in Sids /\ php[c].id \in issued
  BY DEF IInv, ChildInv, PcIsRight, IdIsKnown
<1>2. /\ php'[c] = a /\ a.fd = NoFile /\ a.wait = NoFile
      /\ a.cookie \in {php[c].cookie, NoSid}
      /\ \/ ~ a.active /\ a.pc \in {"idle", "script"}
         \/ /\ a.id = php[c].id /\ a.active
            /\ (a.pc = "renew" /\ a.op = "renew") \/ a.pc = "script"
  BY <1>1, AfterIs DEF Calls
<1> HIDE DEF a
<1>3. PcIsRight(c)' /\ LockIsHeld(c)' /\ KeepsWritten(c)' /\ FileIsPrivate(c)' /\ IdIsKnown(c)'
  BY <1>1, <1>2
  DEF ChildInv, PcIsRight, LockIsHeld, KeepsWritten, FileIsPrivate, Renewing, IdIsKnown
<1> QED
  BY <1>3 DEF SelfInv

\* The steps after which the write is over, put together.
LEMMA AfterKeeps ==
    ASSUME IInv, NEW c \in Children, php[c].pc \in {"script", "cut"}, php[c].active,
           NEW r, Calls(c, r), NEW ok \in BOOLEAN, Becomes(c, After(r, ok)),
           UNCHANGED <<upload, thread, issued, gone>>, SpentOK', unlocked' \in BOOLEAN,
           name' \in [Sids -> Files \cup {NoFile}], NamesStep,
           file' \in [Files -> File], FilesStep(c)
    PROVE  IInv'
<1> DEFINE a == After(r, ok)
<1>1. TypeOK /\ php[c].wait = NoFile
  BY DEF IInv, ChildInv, PcIsRight
<1>2. /\ a \in Script /\ a.fd = NoFile /\ a.wait = NoFile /\ a.id \in {php[c].id, NoSid}
  BY <1>1, AfterIs DEF Calls
<1>3. php'[c] = a
  BY <1>1, <1>2, BecomesIs
<1>4. SelfInv(c)'
  BY <1>3, AfterSelf
<1>5. gone' \in [Sids -> SUBSET Items]
  BY <1>1 DEF TypeOK
<1> HIDE DEF a
<1>6. Becomes(c, a)
  BY DEF a
<1> QED
  BY <1>2, <1>4, <1>5, <1>6, BecomesKeeps

\* touch: the time of the file, and the lock given back.
LEMMA TouchKeeps ==
    ASSUME IInv, NEW c \in Children, php[c].pc = "script", php[c].active,
           NEW r, Calls(c, r), NEW kinds, Touch(c, r, kinds),
           UNCHANGED <<issued, gone, upload, thread>>
    PROVE  IInv'
<1> DEFINE g == Released(c)
           fs == {php[c].fd} \ {NoFile}
<1>1. TypeOK /\ g = Unlocked(fs)
  BY DEF Released, IInv
<1>2. UNCHANGED <<name, unlocked>> /\ SpentOK' /\ Becomes(c, After(r, TRUE))
      /\ file' = [f \in Files |-> [g[f] EXCEPT !.old = @ /\ f # name[r.id]]]
  BY <1>1, SpendIs DEF Touch
<1> HIDE DEF g, fs
<1>3. /\ g \in [Files -> File]
      /\ \A f \in Files : f \notin fs => g[f] = file[f]
      /\ \A f \in Files : f \in fs =>
            \/ g[f].data = file[f].data /\ g[f].acked = file[f].acked
            \/ g[f].data = {} /\ g[f].acked = {}
  BY <1>1, UnlockedIs
<1>4. \A f \in Files : /\ file'[f] \in File
                       /\ file'[f].data = g[f].data /\ file'[f].acked = g[f].acked
                       /\ file'[f].lock = g[f].lock
  BY <1>2, <1>3 DEF File
<1>5. file' \in [Files -> File]
  BY <1>2, <1>4
<1>6. FilesStep(c)
  <2>1. ASSUME NEW f \in Files, f = php[c].fd
        PROVE  Progress \notin file'[f].acked /\ file'[f].acked \subseteq file'[f].data
    BY <1>3, <1>4, <2>1, WholeFiles DEF fs, NoFile, Files
  <2>2. ASSUME NEW f \in Files, f # php[c].fd PROVE Kept(f) /\ file'[f].lock = file[f].lock
    BY <1>3, <1>4, <2>2 DEF fs, Kept
  <2>3. ASSUME NEW f \in Files, ~ Live(f)
        PROVE  f # php[c].fd /\ file[f].lock = Nobody /\ Progress \notin file[f].acked
               /\ file[f].acked \subseteq file[f].data
    BY <2>3, WholeFiles DEF Live
  <2> QED
    BY <2>1, <2>2, <2>3 DEF FilesStep, Kept
<1> QED
  BY <1>1, <1>2, <1>5, <1>6, AfterKeeps DEF TypeOK, NamesStep

\* ftruncate: the file is short of what was written until it is written back.
LEMMA TruncateKeeps ==
    ASSUME IInv, NEW c \in Children, php[c].pc = "script", php[c].active,
           NEW r, Calls(c, r), NEW kinds, Truncate(c, r, kinds),
           UNCHANGED <<issued, gone, upload, thread>>
    PROVE  IInv'
<1> DEFINE q == [r EXCEPT !.pc = "cut"]
<1>1. TypeOK /\ ChildInv(c) /\ php[c].wait = NoFile /\ php[c].fd # NoFile /\ php[c].fd \in Files
  BY DEF IInv, ChildInv, PcIsRight, Truncate, Calls, Script
<1>2. UNCHANGED <<name, unlocked>> /\ SpentOK' /\ Becomes(c, q)
      /\ file' = [file EXCEPT ![php[c].fd] = [@ EXCEPT !.data = {}, !.old = FALSE]]
  BY <1>1, SpendIs DEF Truncate, Calls
<1>3. /\ q \in Script /\ q.pc = "cut" /\ q.op \in {"call", "finish", "renew"}
      /\ q.active /\ q.id = php[c].id /\ q.cookie = php[c].cookie
      /\ q.fd = php[c].fd /\ q.wait = NoFile
      /\ q.session = php[c].session /\ q.snapshot = php[c].snapshot
  BY <1>1 DEF Calls, Script
<1> HIDE DEF q
<1>4. php'[c] = q
  BY <1>1, <1>2, <1>3, BecomesIs
<1>5. /\ file' \in [Files -> File]
      /\ \A f \in Files : f # php[c].fd => file'[f] = file[f]
      /\ file'[php[c].fd].acked = file[php[c].fd].acked
      /\ file'[php[c].fd].lock = file[php[c].fd].lock
  BY <1>1, <1>2 DEF TypeOK, File
<1>6. FilesStep(c)
  <2>1. ASSUME NEW f \in Files, ~ Live(f)
        PROVE  f # php[c].fd /\ file[f].lock = Nobody /\ Progress \notin file[f].acked
               /\ file[f].acked \subseteq file[f].data
    BY <2>1, WholeFiles DEF Live
  <2> QED
    BY <1>3, <1>4, <1>5, <2>1, WholeFiles DEF FilesStep, Kept
<1>7. SelfInv(c)'
  <2>1. PcIsRight(c)' /\ LockIsHeld(c)' /\ KeepsWritten(c)' /\ FileIsPrivate(c)' /\ IdIsKnown(c)'
    BY <1>1, <1>3, <1>4, <1>5
    DEF ChildInv, PcIsRight, LockIsHeld, KeepsWritten, FileIsPrivate, Renewing, IdIsKnown
  <2> QED
    BY <2>1 DEF SelfInv
<1> QED
  BY <1>1, <1>2, <1>3, <1>5, <1>6, <1>7, BecomesKeeps DEF TypeOK, NamesStep

\* Without a descriptor the session goes to a new file, which takes the name.
LEMMA ReplaceKeeps ==
    ASSUME IInv, NEW c \in Children, php[c].pc = "script", php[c].active,
           NEW r, Calls(c, r), NEW kinds, Replace(c, r, kinds),
           UNCHANGED <<issued, gone, upload, thread>>
    PROVE  IInv'
<1>1. TypeOK /\ ChildInv(c) /\ php[c].id \in Sids /\ r \in Script
  BY DEF IInv, ChildInv, PcIsRight, Calls
<1>2. CASE /\ Becomes(c, After(r, FALSE)) /\ Spend(kinds \cup {"rare"})
           /\ UNCHANGED <<name, file, unlocked>>
  <2>1. SpentOK' /\ FilesStep(c)
    BY <1>1, <1>2, SpendIs, OpenedFiles
  <2> QED
    BY <1>1, <1>2, <2>1, AfterKeeps DEF TypeOK, NamesStep
<1>3. CASE ~ UNCHANGED <<name, file, unlocked>> \/ ~ Becomes(c, After(r, FALSE))
           \/ ~ Spend(kinds \cup {"rare"})
  <2>1. PICK f \in Files :
           /\ New(f)
           /\ name' = [name EXCEPT ![r.id] = f]
           /\ file' = [file EXCEPT ![f] = [Blank EXCEPT !.data = r.session,
                                                        !.acked = r.session \ {Progress}]]
    BY <1>3 DEF Replace
  <2>2. unlocked' \in BOOLEAN /\ SpentOK' /\ Becomes(c, After(r, TRUE))
    BY <1>1, <1>3, SpendIs DEF Replace
  <2>3. ~ Live(f)
    BY <2>1 DEF New
  <2> DEFINE new == [Blank EXCEPT !.data = r.session, !.acked = r.session \ {Progress}]
  <2>4. /\ new \in File /\ new.data = r.session /\ new.acked = r.session \ {Progress}
        /\ new.lock = Nobody
    BY <1>1, BlankIsFile DEF Script, File
  <2>5. file' = [file EXCEPT ![f] = new]
    BY <2>1
  <2> HIDE DEF new
  <2>6. /\ file' \in [Files -> File] /\ file'[f] = new
        /\ \A g \in Files : g # f => file'[g] = file[g]
    BY <1>1, <2>4, <2>5 DEF TypeOK
  <2>7. name' \in [Sids -> Files \cup {NoFile}] /\ NamesStep
    BY <1>1, <2>1, <2>3 DEF TypeOK, NamesStep
  <2>8. FilesStep(c)
    <3>1. ASSUME NEW g \in Files, ~ Live(g)
          PROVE  /\ file[g].lock = Nobody /\ Progress \notin file[g].acked
                 /\ file[g].acked \subseteq file[g].data
      BY <3>1, WholeFiles DEF Live
    <3>2. ASSUME NEW g \in Files, g = php[c].fd
          PROVE  g # f /\ Progress \notin file[g].acked /\ file[g].acked \subseteq file[g].data
      BY <2>3, <3>2, WholeFiles, OpenIsLive DEF NoFile, Files
    <3> QED
      BY <2>3, <2>4, <2>6, <3>1, <3>2 DEF FilesStep, Kept
  <2> QED
    BY <2>2, <2>6, <2>7, <2>8, AfterKeeps
<1> QED
  BY <1>2, <1>3

LEMMA SavesKeep ==
    ASSUME IInv, NEW c \in Children, WriteClose(c) \/ Regenerate(c) PROVE IInv'
<1>1. php[c].pc = "script" /\ php[c].active /\ TypeOK
  BY DEF WriteClose, Regenerate, InSession, Running, IInv
<1>2. CASE WriteClose(c)
  <2> DEFINE r == [php[c] EXCEPT !.op = "call"]
  <2>1. Calls(c, r)
    BY <1>1, CallsIs
  <2>2. /\ \/ Touch(c, r, {"call"}) \/ Truncate(c, r, {"call"}) \/ Replace(c, r, {"call"})
        /\ UNCHANGED <<issued, gone, upload, thread>>
    BY <1>2 DEF WriteClose, Save
  <2> HIDE DEF r
  <2> QED
    BY <1>1, <2>1, <2>2, TouchKeeps, TruncateKeeps, ReplaceKeeps
<1>3. CASE Regenerate(c)
  <2> DEFINE r == [php[c] EXCEPT !.op = "renew"]
  <2>1. Calls(c, r)
    BY <1>1, CallsIs
  <2>2. /\ Truncate(c, r, {"call"}) \/ Replace(c, r, {"call"})
        /\ UNCHANGED <<issued, gone, upload, thread>>
    BY <1>3 DEF Regenerate
  <2> HIDE DEF r
  <2> QED
    BY <1>1, <2>1, <2>2, TruncateKeeps, ReplaceKeeps
<1> QED
  BY <1>2, <1>3

\* The end of a script: the finally block saves, or the bridge is reset with
\* whatever descriptor it has.
LEMMA FinishKeeps == ASSUME IInv, NEW c \in Children, Finish(c) PROVE IInv'
<1>1. TypeOK /\ ChildInv(c) /\ php[c] \in Script /\ php[c].pc = "script"
  BY DEF IInv, TypeOK, Finish
<1>2. CASE php[c].active /\ Save(c, [php[c] EXCEPT !.op = "finish"], {})
  <2> DEFINE r == [php[c] EXCEPT !.op = "finish"]
  <2>1. Calls(c, r)
    BY <1>1, CallsIs
  <2>2. /\ Touch(c, r, {}) \/ Truncate(c, r, {}) \/ Replace(c, r, {})
        /\ UNCHANGED <<issued, gone, upload, thread>>
    BY <1>2 DEF Save
  <2> HIDE DEF r
  <2> QED
    BY <1>1, <1>2, <2>1, <2>2, TouchKeeps, TruncateKeeps, ReplaceKeeps
<1>3. CASE ~ (php[c].active /\ Save(c, [php[c] EXCEPT !.op = "finish"], {}))
  <2> DEFINE r == [Reset EXCEPT !.shutdown = php[c].shutdown, !.fd = php[c].fd]
  <2>1. Becomes(c, r) /\ UNCHANGED <<name, file, issued, gone, unlocked, upload, thread, spent>>
    BY <1>3 DEF Finish, store
  <2>2. /\ r \in Script /\ ~ r.active /\ r.pc = "idle" /\ r.wait = NoFile /\ r.fd = php[c].fd
        /\ r.id = NoSid /\ r.cookie = NoSid
    <3>1. /\ [Reset EXCEPT !.shutdown = php[c].shutdown, !.fd = php[c].fd] \in Script
      BY <1>1, ResetIs DEF Script
    <3> QED
      BY <3>1 DEF Reset
  <2> HIDE DEF r
  <2>3. php'[c] = r
    BY <1>1, <2>1, <2>2, BecomesIs
  <2>4. SelfInv(c)'
    <3>1. PcIsRight(c)' /\ LockIsHeld(c)' /\ KeepsWritten(c)' /\ FileIsPrivate(c)' /\ IdIsKnown(c)'
      BY <1>1, <2>1, <2>2, <2>3
      DEF ChildInv, PcIsRight, LockIsHeld, KeepsWritten, FileIsPrivate, Renewing, IdIsKnown
    <3> QED
      BY <3>1 DEF SelfInv
  <2>5. FilesStep(c)
    BY <1>1, <2>1, OpenedFiles
  <2> QED
    BY <1>1, <2>1, <2>2, <2>4, <2>5, BecomesKeeps DEF TypeOK, NamesStep, SpentOK
<1> QED
  BY <1>2, <1>3

\* pwrite and the lock given back; a file that has no name and that nobody
\* waits for is gone.
LEMMA WroteIs ==
    ASSUME TypeOK, NEW f \in Files, NEW d \in SUBSET Items, NEW a \in SUBSET Items
    PROVE  /\ WroteTo(f, d, a) \in [Files -> File]
           /\ \A g \in Files : g # f => WroteTo(f, d, a)[g] = file[g]
           /\ WroteTo(f, d, a)[f].lock = Nobody
           /\ \/ WroteTo(f, d, a)[f].data = d /\ WroteTo(f, d, a)[f].acked = a
              \/ WroteTo(f, d, a)[f].data = {} /\ WroteTo(f, d, a)[f].acked = {}
<1> DEFINE u == Unlocked({f})
<1>1. /\ u \in [Files -> File]
      /\ \A g \in Files : g # f => u[g] = file[g]
      /\ u[f].lock = Nobody
  BY UnlockedIs
<1>2. ~ (Named(f) \/ Awaited(f)) => u[f].data = {} /\ u[f].acked = {}
  BY BlankIsFile DEF Unlocked
<1> HIDE DEF u
<1>3. WroteTo(f, d, a) = [u EXCEPT ![f] = IF Named(f) \/ Awaited(f)
                                         THEN [u[f] EXCEPT !.data = d, !.acked = a] ELSE u[f]]
  BY <1>1 DEF WroteTo, u
<1>4. CASE Named(f) \/ Awaited(f)
  <2>1. WroteTo(f, d, a) = [u EXCEPT ![f] = [u[f] EXCEPT !.data = d, !.acked = a]]
    BY <1>3, <1>4
  <2> QED
    BY <1>1, <2>1 DEF File
<1>5. CASE ~ (Named(f) \/ Awaited(f))
  <2>1. WroteTo(f, d, a) = [u EXCEPT ![f] = u[f]]
    BY <1>3, <1>5
  <2> QED
    BY <1>1, <1>2, <1>5, <2>1
<1> QED
  BY <1>4, <1>5

LEMMA WriteBackKeeps == ASSUME IInv, NEW c \in Children, WriteBack(c) PROVE IInv'
<1> DEFINE f == php[c].fd
<1>1. /\ TypeOK /\ ChildInv(c) /\ php[c] \in Script /\ php[c].pc = "cut"
      /\ f # NoFile /\ php[c].active /\ f \in Files /\ Calls(c, php[c])
  BY DEF IInv, TypeOK, WriteBack, ChildInv, PcIsRight, Script, Calls
<1>2. UNCHANGED <<name, issued, gone, unlocked, upload, thread>>
  BY DEF WriteBack
<1>3. PICK d \in SUBSET Items, a \in SUBSET Items, ok \in BOOLEAN :
         /\ file' = WroteTo(f, d, a) /\ a \subseteq d /\ Progress \notin a
         /\ Becomes(c, After(php[c], ok)) /\ SpentOK'
  <2>1. CASE file' = WroteTo(f, {}, {}) /\ Becomes(c, After(php[c], FALSE)) /\ Spend({"rare"})
    BY <1>1, <2>1, SpendIs
  <2>2. CASE /\ UNCHANGED spent /\ Becomes(c, After(php[c], TRUE))
             /\ file' = WroteTo(f, php[c].session, file[f].acked \cup (php[c].session \ {Progress}))
    <3>1. /\ file[f].acked \cup (php[c].session \ {Progress}) \subseteq php[c].session
          /\ Progress \notin file[f].acked
          /\ php[c].session \in SUBSET Items
      BY <1>1, WholeFiles DEF ChildInv, KeepsWritten, Script
    <3>2. SpentOK'
      BY <1>1, <2>2 DEF TypeOK, SpentOK
    <3> QED
      BY <2>2, <3>1, <3>2
  <2> QED
    BY <2>1, <2>2 DEF WriteBack
<1>4. /\ file' \in [Files -> File]
      /\ \A g \in Files : g # f => file'[g] = file[g]
      /\ Progress \notin file'[f].acked /\ file'[f].acked \subseteq file'[f].data
  <2> DEFINE w == WroteTo(f, d, a)
  <2>1. /\ w \in [Files -> File]
        /\ \A g \in Files : g # f => w[g] = file[g]
        /\ (w[f].data = d /\ w[f].acked = a) \/ (w[f].data = {} /\ w[f].acked = {})
    BY <1>1, WroteIs
  <2>2. file' = w
    BY <1>3
  <2> HIDE DEF w
  <2> QED
    BY <1>1, <1>3, <2>1, <2>2
<1>5. FilesStep(c)
  <2>1. ASSUME NEW g \in Files, ~ Live(g)
        PROVE  g # f /\ file[g].lock = Nobody /\ Progress \notin file[g].acked
               /\ file[g].acked \subseteq file[g].data
    BY <2>1, WholeFiles DEF Live
  <2> QED
    BY <1>4, <2>1 DEF FilesStep, Kept
<1> QED
  BY <1>1, <1>2, <1>3, <1>4, <1>5, AfterKeeps DEF TypeOK, NamesStep

\* A new id, and the empty file of that name.
LEMMA RenewKeeps == ASSUME IInv, NEW c \in Children, Renew(c) PROVE IInv'
<1>1. /\ TypeOK /\ ChildInv(c) /\ php[c] \in Script /\ php[c].pc = "renew" /\ php[c].active
      /\ php[c].fd = NoFile /\ php[c].op = "renew" /\ php[c].wait = NoFile
  BY DEF IInv, TypeOK, Renew, ChildInv, PcIsRight
<1>2. UNCHANGED <<issued, gone, unlocked, upload, thread>>
  BY DEF Renew
<1>3. CASE /\ Spend({"rare"}) /\ UNCHANGED <<name, file>>
           /\ Becomes(c, [php[c] EXCEPT !.pc = "script", !.op = "none"])
  <2> DEFINE r == [php[c] EXCEPT !.pc = "script", !.op = "none"]
  <2>1. /\ r \in Script /\ r.active /\ r.pc = "script" /\ r.wait = NoFile /\ r.fd = NoFile
        /\ r.id = php[c].id /\ r.cookie = php[c].cookie
    BY <1>1 DEF Script
  <2> HIDE DEF r
  <2>2. Becomes(c, r) /\ SpentOK' /\ FilesStep(c)
    BY <1>1, <1>3, SpendIs, OpenedFiles DEF r
  <2>3. SelfInv(c)'
    <3>1. php'[c] = r
      BY <1>1, <2>1, <2>2, BecomesIs
    <3>2. PcIsRight(c)' /\ LockIsHeld(c)' /\ KeepsWritten(c)' /\ FileIsPrivate(c)' /\ IdIsKnown(c)'
      BY <1>1, <1>2, <2>1, <3>1
      DEF ChildInv, PcIsRight, LockIsHeld, KeepsWritten, FileIsPrivate, Renewing, IdIsKnown
    <3> QED
      BY <3>2 DEF SelfInv
  <2> QED
    BY <1>1, <1>2, <1>3, <2>1, <2>2, <2>3, BecomesKeeps DEF TypeOK, NamesStep
<1>4. CASE \E s \in Fresh, f \in Files :
              /\ Open(s, f)
              /\ Becomes(c, [php[c] EXCEPT !.pc = "wait", !.id = s, !.wait = f])
              /\ UNCHANGED spent
  <2>1. PICK s \in Fresh, f \in Files :
              /\ Open(s, f)
              /\ Becomes(c, [php[c] EXCEPT !.pc = "wait", !.id = s, !.wait = f])
              /\ UNCHANGED spent
    BY <1>4
  <2> DEFINE r == [php[c] EXCEPT !.pc = "wait", !.id = s, !.wait = f]
  <2>2. s \in Sids /\ s \notin issued /\ name[s] = NoFile
    BY DEF Fresh
  <2>3. /\ r \in Script /\ r.active /\ r.pc = "wait" /\ r.op = "renew" /\ r.wait = f
        /\ r.fd = NoFile /\ r.id = s /\ r.cookie = php[c].cookie
    BY <1>1, <2>2 DEF Script
  <2> HIDE DEF r
  <2>4. Becomes(c, r) /\ SpentOK'
    BY <1>1, <2>1 DEF r, TypeOK, SpentOK
  <2>5. /\ name' \in [Sids -> Files \cup {NoFile}] /\ file' \in [Files -> File] /\ NamesStep
        /\ \A g \in Files : file'[g] = file[g] \/ (~ Live(g) /\ file'[g] = Blank)
        /\ ~ Live(f) /\ file'[f] = Blank /\ \A t \in Sids : name'[t] = f => t = s
    <3>1. f = name[s] \/ ~ Live(f)
      BY <2>1, <2>2, OpenIs
    <3>2. ~ Live(f)
      BY <2>2, <3>1 DEF Files, NoFile
    <3> QED
      BY <2>1, <2>2, <3>2, OpenIs
  <2>6. FilesStep(c)
    BY <1>1, <2>5, OpenedFiles
  <2>7. SelfInv(c)'
    <3>1. php'[c] = r /\ \A d \in Children \ {c} : php'[d] = php[d]
      BY <1>1, <2>3, <2>4, BecomesIs
    <3>2. \A d \in Children : php[d].fd # f /\ php[d].wait # f
      BY <2>5 DEF Live
    <3>3. f # NoFile
      BY DEF Files, NoFile
    <3>4. FileIsPrivate(c)'
      BY <1>2, <2>2, <2>3, <2>5, <3>1, <3>2, <3>3, BlankIsFile DEF FileIsPrivate
    <3>5. PcIsRight(c)' /\ LockIsHeld(c)' /\ KeepsWritten(c)' /\ IdIsKnown(c)'
      BY <1>1, <1>2, <2>2, <2>3, <3>1, <3>3
      DEF ChildInv, PcIsRight, LockIsHeld, KeepsWritten, IdIsKnown
    <3> QED
      BY <3>4, <3>5 DEF SelfInv
  <2> QED
    BY <1>1, <1>2, <2>3, <2>4, <2>5, <2>6, <2>7, BecomesKeeps DEF TypeOK
<1> QED
  BY <1>3, <1>4 DEF Renew

\* Destroying: the name, then the lock; or the lock alone when it fails.
LEMMA Unlinks ==
    ASSUME IInv, NEW c \in Children, NEW op \in {"destroy", "renew"}, InSession(c),
           UNCHANGED <<issued, unlocked, upload, thread, file>>, Spend({"call"}),
           gone' = [gone EXCEPT ![php[c].id] =
                        @ \cup IF name[php[c].id] = NoFile THEN {}
                              ELSE file[name[php[c].id]].data \ {Progress}],
           name' = [name EXCEPT ![php[c].id] = NoFile],
           Becomes(c, [php[c] EXCEPT !.pc = "unlinked", !.op = op])
    PROVE  IInv'
<1> DEFINE r == [php[c] EXCEPT !.pc = "unlinked", !.op = op]
           old == IF name[php[c].id] = NoFile THEN {} ELSE file[name[php[c].id]].data \ {Progress}
<1>1. /\ TypeOK /\ ChildInv(c) /\ php[c] \in Script /\ php[c].pc = "script" /\ php[c].active
      /\ php[c].wait = NoFile /\ php[c].id \in Sids
  BY DEF IInv, TypeOK, InSession, Running, ChildInv, PcIsRight
<1>2. old \in SUBSET Items
  BY <1>1 DEF TypeOK, File
<1> HIDE DEF old
<1>3. gone' = [gone EXCEPT ![php[c].id] = @ \cup old]
  BY DEF old
<1>4. gone' \in [Sids -> SUBSET Items] /\ name' \in [Sids -> Files \cup {NoFile}] /\ NamesStep
  BY <1>1, <1>2, <1>3 DEF TypeOK, NamesStep
<1>5. /\ r \in Script /\ r.active /\ r.pc = "unlinked" /\ r.op \in {"destroy", "renew"}
      /\ r.wait = NoFile /\ r.fd = php[c].fd /\ r.id = php[c].id /\ r.cookie = php[c].cookie
      /\ r.session = php[c].session /\ r.snapshot = php[c].snapshot
  BY <1>1 DEF Script
<1> HIDE DEF r
<1>6. Becomes(c, r) /\ SpentOK' /\ FilesStep(c)
  BY <1>1, SpendIs, OpenedFiles DEF r
<1>7. SelfInv(c)'
  <2>1. php'[c] = r
    BY <1>1, <1>5, <1>6, BecomesIs
  <2>2. PcIsRight(c)' /\ LockIsHeld(c)' /\ KeepsWritten(c)' /\ FileIsPrivate(c)' /\ IdIsKnown(c)'
    BY <1>1, <1>5, <2>1
    DEF ChildInv, PcIsRight, LockIsHeld, KeepsWritten, FileIsPrivate, Renewing, IdIsKnown
  <2> QED
    BY <2>2 DEF SelfInv
<1> QED
  BY <1>1, <1>4, <1>5, <1>6, <1>7, BecomesKeeps DEF TypeOK

LEMMA LockGoes ==
    ASSUME IInv, NEW c \in Children, php[c].pc \in {"script", "unlinked"}, php[c].active,
           UNCHANGED <<name, issued, gone, unlocked, upload, thread>>, SpentOK',
           file' = Released(c),
           \/ Becomes(c, [Closed(php[c]) EXCEPT !.id = NoSid])
           \/ php[c].pc = "script" /\ Becomes(c, [php[c] EXCEPT !.fd = NoFile])
           \/ php[c].op = "renew" /\ Becomes(c, [php[c] EXCEPT !.pc = "renew", !.fd = NoFile])
    PROVE  IInv'
<1>1. TypeOK /\ ChildInv(c) /\ php[c] \in Script /\ php[c].wait = NoFile
  BY DEF IInv, TypeOK, ChildInv, PcIsRight
<1>2. file' \in [Files -> File] /\ FilesStep(c)
  BY ReleasedIs
<1>3. PICK r \in Script :
         /\ Becomes(c, r) /\ r.fd = NoFile /\ r.wait = NoFile /\ r.cookie = php[c].cookie
         /\ \/ ~ r.active /\ r.pc = "script" /\ r.id = NoSid
            \/ r.active /\ r.pc = "script" /\ r.id = php[c].id
            \/ r.active /\ r.pc = "renew" /\ r.op = "renew" /\ r.id = php[c].id
  <2>1. CASE Becomes(c, [Closed(php[c]) EXCEPT !.id = NoSid])
    <3> DEFINE q == Closed(php[c])
               r == [q EXCEPT !.id = NoSid]
    <3>1. /\ q \in Script /\ q.fd = NoFile /\ q.wait = NoFile /\ q.cookie = php[c].cookie
          /\ ~ q.active /\ q.pc = "script"
      <4>1. q \in Script
        BY <1>1, ClosedIs
      <4> QED
        BY <1>1, <4>1 DEF Closed, Script
    <3> HIDE DEF q
    <3>2. /\ r \in Script /\ r.fd = NoFile /\ r.wait = NoFile /\ r.cookie = php[c].cookie
          /\ ~ r.active /\ r.pc = "script" /\ r.id = NoSid
      BY <3>1 DEF Script
    <3>3. Becomes(c, r)
      BY <2>1 DEF q
    <3> HIDE DEF r
    <3> QED
      BY <3>2, <3>3
  <2>2. CASE php[c].pc = "script" /\ Becomes(c, [php[c] EXCEPT !.fd = NoFile])
    <3> DEFINE r == [php[c] EXCEPT !.fd = NoFile]
    <3>1. /\ r \in Script /\ r.fd = NoFile /\ r.wait = NoFile /\ r.cookie = php[c].cookie
          /\ r.active /\ r.pc = "script" /\ r.id = php[c].id
      BY <1>1, <2>2 DEF Script
    <3>2. Becomes(c, r)
      BY <2>2
    <3> HIDE DEF r
    <3> QED
      BY <3>1, <3>2
  <2>3. CASE php[c].op = "renew" /\ Becomes(c, [php[c] EXCEPT !.pc = "renew", !.fd = NoFile])
    <3> DEFINE r == [php[c] EXCEPT !.pc = "renew", !.fd = NoFile]
    <3>1. /\ r \in Script /\ r.fd = NoFile /\ r.wait = NoFile /\ r.cookie = php[c].cookie
          /\ r.active /\ r.pc = "renew" /\ r.op = "renew" /\ r.id = php[c].id
      BY <1>1, <2>3 DEF Script
    <3>2. Becomes(c, r)
      BY <2>3
    <3> HIDE DEF r
    <3> QED
      BY <3>1, <3>2
  <2> QED
    BY <2>1, <2>2, <2>3
<1>4. SelfInv(c)'
  <2>1. php'[c] = r
    BY <1>1, <1>3, BecomesIs
  <2>2. PcIsRight(c)' /\ LockIsHeld(c)' /\ KeepsWritten(c)' /\ FileIsPrivate(c)' /\ IdIsKnown(c)'
    BY <1>1, <1>3, <2>1
    DEF ChildInv, PcIsRight, LockIsHeld, KeepsWritten, FileIsPrivate, Renewing, IdIsKnown
  <2> QED
    BY <2>2 DEF SelfInv
<1> QED
  BY <1>1, <1>2, <1>3, <1>4, BecomesKeeps DEF TypeOK, NamesStep

LEMMA DestroysKeep ==
    ASSUME IInv, NEW c \in Children,
           Destroy(c, "destroy") \/ Destroy(c, "renew") \/ Destroyed(c)
    PROVE  IInv'
<1>1. TypeOK /\ ChildInv(c)
  BY DEF IInv
<1>2. ASSUME NEW op \in {"destroy", "renew"}, Destroy(c, op) PROVE IInv'
  <2>1. InSession(c) /\ php[c].pc = "script" /\ php[c].active
        /\ UNCHANGED <<issued, unlocked, upload, thread>>
    BY <1>2 DEF Destroy, InSession, Running
  <2>2. CASE file' = Released(c)
    <3>1. CASE UNCHANGED <<name, gone>> /\ Spend({"call", "rare"})
               /\ Becomes(c, IF op = "destroy" THEN [Closed(php[c]) EXCEPT !.id = NoSid]
                                               ELSE [php[c] EXCEPT !.fd = NoFile])
      <4>1. SpentOK'
        BY <1>1, <3>1, SpendIs
      <4>2. \/ Becomes(c, [Closed(php[c]) EXCEPT !.id = NoSid])
            \/ Becomes(c, [php[c] EXCEPT !.fd = NoFile])
        BY <3>1
      <4> QED
        BY <2>1, <2>2, <3>1, <4>1, <4>2, LockGoes
    <3>2. CASE ~ (UNCHANGED <<name, gone>> /\ Spend({"call", "rare"})
               /\ Becomes(c, IF op = "destroy" THEN [Closed(php[c]) EXCEPT !.id = NoSid]
                                               ELSE [php[c] EXCEPT !.fd = NoFile]))
      BY <1>2, <2>1, <3>2, Unlinks DEF Destroy
    <3> QED
      BY <3>1, <3>2
  <2>3. CASE file' # Released(c)
    BY <1>2, <2>1, <2>3, Unlinks DEF Destroy
  <2> QED
    BY <2>2, <2>3
<1>3. CASE Destroyed(c)
  <2>1. /\ php[c].pc = "unlinked" /\ php[c].active /\ file' = Released(c)
        /\ php[c].op \in {"destroy", "renew"}
        /\ UNCHANGED <<name, issued, gone, unlocked, upload, thread>> /\ SpentOK'
    BY <1>1, <1>3 DEF Destroyed, OnlyFile, ChildInv, PcIsRight, TypeOK, SpentOK
  <2>2. \/ Becomes(c, [Closed(php[c]) EXCEPT !.id = NoSid])
        \/ php[c].op = "renew" /\ Becomes(c, [php[c] EXCEPT !.pc = "renew", !.fd = NoFile])
    BY <1>3, <2>1 DEF Destroyed
  <2> QED
    BY <2>1, <2>2, LockGoes
<1> QED
  BY <1>2, <1>3
-----------------------------------------------------------------------------
(***************************************************************************)
(* The worker's thread, the passing of time, and the end of processes.     *)
(***************************************************************************)

\* What the children rely on when somebody else moves.
LEMMA ChildrenKeep ==
    ASSUME IInv, UNCHANGED <<php, issued>>, NamesStep,
           \A f \in Files : Live(f) =>
              /\ file'[f].acked \in {file[f].acked, {}}
              /\ file[f].lock \in Children => file'[f].lock = file[f].lock
    PROVE  \A c \in Children : ChildInv(c)'
<1> SUFFICES ASSUME NEW c \in Children PROVE ChildInv(c)'
  OBVIOUS
<1>1. TypeOK /\ ChildInv(c) /\ php[c] \in Script
  BY DEF IInv, TypeOK
<1>2. PcIsRight(c)' /\ IdIsKnown(c)' /\ IdIsPrivate(c)'
  BY <1>1 DEF ChildInv, PcIsRight, IdIsKnown, IdIsPrivate
<1>3. php[c].fd # NoFile => /\ php[c].fd \in Files /\ Live(php[c].fd) /\ file[php[c].fd].lock = c
  BY <1>1, OpenIsLive DEF Script
<1>4. LockIsHeld(c)' /\ KeepsWritten(c)'
  BY <1>1, <1>3 DEF ChildInv, LockIsHeld, KeepsWritten
<1>5. FileIsPrivate(c)'
  <2> SUFFICES ASSUME Renewing(c) PROVE FileIsPrivate(c)'
    BY DEF FileIsPrivate, Renewing
  <2>1. php[c].wait \in Files /\ Live(php[c].wait)
    BY <1>1, OpenIsLive DEF ChildInv, PcIsRight, Script, Renewing
  <2>2. \A s \in Sids : name'[s] = php[c].wait => name[s] = php[c].wait
    BY <2>1 DEF NamesStep, TypeOK, Files, NoFile
  <2>3. file'[php[c].wait].acked = {}
    BY <1>1, <2>1 DEF ChildInv, FileIsPrivate
  <2> QED
    BY <1>1, <2>2, <2>3 DEF ChildInv, FileIsPrivate
<1> QED
  BY <1>2, <1>4, <1>5 DEF ChildInv

\* Files nobody writes to meanwhile stay whole.
LEMMA FileKeeps ==
    ASSUME IInv, NEW f \in Files,
           \/ file'[f].acked = {}
           \/ Kept(f) /\ (Rewriting(f) => Rewriting(f)')
    PROVE  FileIsWhole(f)'
  BY DEF IInv, FileIsWhole, Kept

LEMMA AgeKeeps == ASSUME IInv, NEW f \in Files, Age(f) PROVE IInv'
<1>1. TypeOK /\ UNCHANGED <<name, issued, gone, unlocked, php, upload, thread>> /\ SpentOK'
      /\ file' = [file EXCEPT ![f].old = TRUE]
  BY SpendIs DEF Age, IInv
<1>2. /\ file' \in [Files -> File]
      /\ \A g \in Files : Kept(g) /\ file'[g].lock = file[g].lock
  BY <1>1 DEF TypeOK, File, Kept
<1>3. TypeOK'
  BY <1>1, <1>2 DEF TypeOK, SpentOK
<1>4. \A c \in Children : ChildInv(c)'
  BY <1>1, <1>2, ChildrenKeep DEF NamesStep, Kept
<1>5. ThreadIsRight'
  BY <1>1, <1>2 DEF IInv, ThreadIsRight, TypeOK, Kept, NoFile, Files
<1>6. \A g \in Files : FileIsWhole(g)'
  BY <1>1, <1>2, FileKeeps DEF Rewriting, Cut
<1> QED
  BY <1>3, <1>4, <1>5, <1>6 DEF IInv

\* An upload begins, or ends without a word.
LEMMA UploadMoves ==
    ASSUME IInv, Abandon \/ \E s \in issued : Arrive(s) PROVE IInv'
<1>1. TypeOK /\ UNCHANGED <<name, file, issued, gone, unlocked, php, thread>>
  BY DEF IInv, Abandon, Arrive, store
<1>2. /\ upload' \in [sid : Sids \cup {NoSid}, left : 0 .. MaxProgress]
      /\ upload'.left > 0 => upload'.sid # NoSid
      /\ upload'.sid \in issued \cup {NoSid}
      /\ SpentOK'
  <2>1. CASE Abandon
    <3>1. UNCHANGED spent /\ upload' = NoUpload
      BY <2>1 DEF Abandon
    <3> QED
      BY <1>1, <3>1, SessionAssumption DEF NoUpload, TypeOK, SpentOK
  <2>2. ASSUME NEW s \in issued, Arrive(s)
        PROVE  /\ upload' \in [sid : Sids \cup {NoSid}, left : 0 .. MaxProgress]
               /\ upload'.sid = s /\ s \in Sids /\ SpentOK'
    <3>1. /\ spent' = [spent EXCEPT !["rare"] = Limit["rare"]] /\ s \in Sids
          /\ upload' = [sid |-> s, left |-> MaxProgress]
      BY <1>1, <2>2 DEF Arrive, TypeOK
    <3>2. Limit["rare"] \in Nat /\ MaxProgress \in Nat
      BY SessionAssumption DEF Limit
    <3>3. SpentOK'
      BY <1>1, <3>1, <3>2 DEF TypeOK, SpentOK, Kinds
    <3> QED
      BY <3>1, <3>2, <3>3
  <2> QED
    BY <2>1, <2>2, SessionAssumption
<1>3. TypeOK'
  BY <1>1, <1>2 DEF TypeOK, SpentOK
<1>4. \A c \in Children : ChildInv(c)'
  BY <1>1, ChildrenKeep DEF NamesStep
<1>5. ThreadIsRight'
  BY <1>1, <1>2 DEF IInv, ThreadIsRight
<1>6. \A g \in Files : FileIsWhole(g)'
  BY <1>1, FileKeeps DEF Rewriting, Cut, Kept
<1> QED
  BY <1>3, <1>4, <1>5, <1>6 DEF IInv

\* The writer of the progress opens the file.
LEMMA UploadOpens == ASSUME IInv, Update \/ Complete PROVE IInv'
<1>1. /\ TypeOK /\ ThreadIsRight /\ thread.op = "none" /\ upload.sid # NoSid
      /\ upload.sid \in issued /\ upload.sid \in Sids
  BY DEF IInv, Update, Complete, ThreadIsRight, TypeOK
<1>2. UNCHANGED <<issued, gone, unlocked, php, spent>>
  BY DEF Update, Complete
<1>3. PICK f \in Files, op \in {"update", "complete"} :
         Open(upload.sid, f) /\ thread' = [Idle EXCEPT !.op = op, !.at = f]
  BY DEF Update, Complete
<1>4. /\ name' \in [Sids -> Files \cup {NoFile}] /\ file' \in [Files -> File] /\ NamesStep
      /\ \A g \in Files : file'[g] = file[g] \/ (~ Live(g) /\ file'[g] = Blank)
  BY <1>1, <1>3, OpenIs
<1>5. /\ thread' \in [op : {"none", "update", "complete", "write"},
                      at : Files \cup {NoFile}, copy : SUBSET Items]
      /\ thread'.op \in {"update", "complete"} /\ thread'.at \in Files
  BY <1>3 DEF Idle
<1>6. /\ upload' \in [sid : Sids \cup {NoSid}, left : 0 .. MaxProgress]
      /\ upload'.left > 0 => upload'.sid # NoSid
      /\ upload'.sid \in issued \cup {NoSid}
  <2>1. CASE Update
    <3>1. /\ upload.left > 0 /\ upload' = [upload EXCEPT !.left = @ - 1]
          /\ upload.left \in 0 .. MaxProgress /\ MaxProgress \in Nat
      BY <1>1, <2>1, SessionAssumption DEF Update, TypeOK
    <3>2. upload.left - 1 \in 0 .. MaxProgress
      BY <3>1
    <3> QED
      BY <1>1, <3>1, <3>2 DEF TypeOK
  <2>2. CASE Complete
    <3>1. upload' = NoUpload /\ MaxProgress \in Nat
      BY <2>2, SessionAssumption DEF Complete
    <3> QED
      BY <3>1 DEF NoUpload
  <2> QED
    BY <2>1, <2>2
<1>7. TypeOK'
  BY <1>1, <1>2, <1>4, <1>5, <1>6 DEF TypeOK
<1>8. \A c \in Children : ChildInv(c)'
  BY <1>2, <1>4, ChildrenKeep
<1>9. ThreadIsRight'
  BY <1>2, <1>5, <1>6 DEF ThreadIsRight, Files, NoFile
<1>10. ASSUME NEW g \in Files PROVE FileIsWhole(g)'
  <2>1. CASE file'[g] = file[g]
    <3>1. Rewriting(g) => Rewriting(g)'
      BY <1>1, <1>2, SessionAssumption DEF Rewriting, Cut, Worker
    <3> QED
      BY <2>1, <3>1, FileKeeps DEF Kept
  <2>2. CASE file'[g] = Blank
    BY <2>2, FileKeeps, BlankIsFile
  <2> QED
    BY <1>4, <2>1, <2>2
<1> QED
  BY <1>7, <1>8, <1>9, <1>10 DEF IInv

\* It has the lock: the file is short of its data until it is written back.
LEMMA RewriteKeeps == ASSUME IInv, Rewrite PROVE IInv'
<1> DEFINE f == thread.at
           d == file[f].data
<1>1. /\ TypeOK /\ ThreadIsRight /\ thread.op \in {"update", "complete"} /\ f \in Files
      /\ file[f].lock = Nobody
      /\ UNCHANGED <<name, issued, gone, unlocked, php, upload, spent>>
      /\ file' = [file EXCEPT ![f] = [@ EXCEPT !.data = {}, !.old = FALSE, !.lock = Worker]]
  BY DEF IInv, Rewrite, ThreadIsRight, TypeOK
<1>2. /\ file[f].acked \subseteq d \ {Progress} /\ d \in SUBSET Items /\ Progress \in Items
      /\ Worker \notin Children /\ Nobody \notin Children
  BY <1>1, WholeFiles, OpenIsLive, SessionAssumption DEF TypeOK, File, Items, Progress
<1>3. /\ thread' \in [op : {"none", "update", "complete", "write"},
                      at : Files \cup {NoFile}, copy : SUBSET Items]
      /\ thread'.op = "write" /\ thread'.at = f
      /\ d \ {Progress} \subseteq thread'.copy
  <2> DEFINE copy == IF thread.op = "update" THEN d \cup {Progress} ELSE d \ {Progress}
  <2>1. thread' = [thread EXCEPT !.op = "write", !.copy = copy]
    BY DEF Rewrite
  <2>2. copy \in SUBSET Items /\ d \ {Progress} \subseteq copy
    BY <1>2
  <2> HIDE DEF copy, d
  <2> QED
    BY <1>1, <2>1, <2>2 DEF TypeOK
<1> HIDE DEF d
<1>4. /\ file' \in [Files -> File]
      /\ \A g \in Files : g # f => file'[g] = file[g]
      /\ file'[f].acked = file[f].acked /\ file'[f].lock = Worker
  <2> DEFINE x == [file[f] EXCEPT !.data = {}, !.old = FALSE, !.lock = Worker]
  <2>1. file \in [Files -> File] /\ file[f] \in File
    BY <1>1 DEF TypeOK
  <2>2. file' = [file EXCEPT ![f] = x]
    BY DEF Rewrite
  <2>3. x \in File /\ x.acked = file[f].acked /\ x.lock = Worker
    BY <2>1 DEF File
  <2> HIDE DEF x
  <2> QED
    BY <1>1, <2>1, <2>2, <2>3
<1>5. TypeOK'
  BY <1>1, <1>3, <1>4 DEF TypeOK
<1>6. \A c \in Children : ChildInv(c)'
  BY <1>1, <1>2, <1>4, ChildrenKeep DEF NamesStep
<1>7. ThreadIsRight'
  BY <1>1, <1>2, <1>3, <1>4 DEF ThreadIsRight, Files, NoFile
<1>8. ASSUME NEW g \in Files PROVE FileIsWhole(g)'
  <2>1. CASE g = f
    <3>1. f \in Cut(Worker)'
      BY <1>1, <1>3 DEF Cut
    <3> QED
      BY <1>1, <1>4, <2>1, <3>1, WholeFiles DEF FileIsWhole, Rewriting
  <2>2. CASE g # f
    <3>1. Rewriting(g) => Rewriting(g)'
      BY <1>1, <1>2, SessionAssumption DEF Rewriting, Cut, Worker
    <3> QED
      BY <1>4, <2>2, <3>1, FileKeeps DEF Kept
  <2> QED
    BY <2>1, <2>2
<1> QED
  BY <1>5, <1>6, <1>7, <1>8 DEF IInv

LEMMA RewrittenKeeps == ASSUME IInv, Rewritten PROVE IInv'
<1> DEFINE f == thread.at
<1>1. /\ TypeOK /\ ThreadIsRight /\ thread.op = "write" /\ f \in Files
      /\ file[f].lock = Worker /\ file[f].acked \subseteq thread.copy
      /\ thread.copy \in SUBSET Items /\ file[f].acked \in SUBSET Items
      /\ UNCHANGED <<name, issued, gone, unlocked, php, upload>> /\ thread' = Idle
  BY DEF IInv, Rewritten, ThreadIsRight, TypeOK, File
<1>2. Worker \notin Children /\ Progress \notin file[f].acked
  BY <1>1, OpenIsLive, WholeFiles
<1>3. PICK w : /\ file' = w /\ w \in [Files -> File]
               /\ \A g \in Files : g # f => w[g] = file[g]
               /\ w[f].acked \in {file[f].acked, {}} /\ w[f].acked \subseteq w[f].data
  <2>1. CASE file' = WroteTo(f, thread.copy, file[f].acked)
    <3> DEFINE w == WroteTo(f, thread.copy, file[f].acked)
    <3>1. /\ w \in [Files -> File] /\ \A g \in Files : g # f => w[g] = file[g]
          /\ (w[f].data = thread.copy /\ w[f].acked = file[f].acked)
                \/ (w[f].data = {} /\ w[f].acked = {})
      BY <1>1, WroteIs
    <3> HIDE DEF w
    <3>2. file' = w
      BY <2>1 DEF w
    <3> QED
      BY <1>1, <3>1, <3>2
  <2>2. CASE file' = WroteTo(f, {}, {})
    <3>1. PICK e \in SUBSET Items : e = {}
      OBVIOUS
    <3> DEFINE w == WroteTo(f, e, e)
    <3>2. /\ w \in [Files -> File] /\ \A g \in Files : g # f => w[g] = file[g]
          /\ \/ w[f].data = e /\ w[f].acked = e
             \/ w[f].data = {} /\ w[f].acked = {}
      BY <1>1, WroteIs
    <3>3. file' = w
      BY <2>2, <3>1
    <3> HIDE DEF w
    <3> QED
      BY <1>1, <3>1, <3>2, <3>3
  <2> QED
    BY <2>1, <2>2 DEF Rewritten
<1>4. SpentOK'
  BY <1>1, SpendIs DEF Rewritten, TypeOK, SpentOK
<1>5. /\ thread' \in [op : {"none", "update", "complete", "write"},
                      at : Files \cup {NoFile}, copy : SUBSET Items]
      /\ thread'.op = "none" /\ thread'.at = NoFile
  BY <1>1 DEF Idle
<1>6. TypeOK'
  BY <1>1, <1>3, <1>4, <1>5 DEF TypeOK, SpentOK
<1>7. \A c \in Children : ChildInv(c)'
  BY <1>1, <1>2, <1>3, ChildrenKeep DEF NamesStep
<1>8. ThreadIsRight'
  BY <1>1, <1>5 DEF ThreadIsRight
<1>9. ASSUME NEW g \in Files PROVE FileIsWhole(g)'
  <2>1. CASE g = f
    BY <1>1, <1>2, <1>3, <2>1 DEF FileIsWhole
  <2>2. CASE g # f
    <3>1. Rewriting(g) => Rewriting(g)'
      BY <1>1, <1>2, <2>2, SessionAssumption DEF Rewriting, Cut, Worker
    <3> QED
      BY <1>3, <2>2, <3>1, FileKeeps DEF Kept
  <2> QED
    BY <2>1, <2>2
<1> QED
  BY <1>6, <1>7, <1>8, <1>9 DEF IInv

\* Processes end: their locks go, and what they were rewriting is cut.
LEMMA EndsKeep ==
    ASSUME IInv, NEW ws \in SUBSET (Children \cup {Worker}), Ends(ws), SpentOK',
           \/ Worker \notin ws /\ UNCHANGED <<upload, thread>>
           \/ Worker \in ws /\ upload' = NoUpload /\ thread' = Idle
    PROVE  IInv'
<1> DEFINE cut == UNION {Cut(w) : w \in ws}
           held == UNION {Held(w) : w \in ws}
<1>1. /\ TypeOK /\ ThreadIsRight /\ UNCHANGED <<name, issued, gone, unlocked>>
      /\ php' = [c \in Children |-> IF c \in ws THEN Reset ELSE php[c]]
      /\ file' = [f \in Files |-> IF f \in cut THEN [Unlocked({f})[f] EXCEPT !.acked = {}]
                                  ELSE Unlocked(held)[f]]
  BY DEF Ends, IInv
<1>2. \A f \in Files : f \in held <=> file[f].lock \in ws
  BY DEF Held
<1>3. \A f \in Files : f \in cut => f \in held
  <2> SUFFICES ASSUME NEW f \in Files, NEW w \in ws, f \in Cut(w) PROVE file[f].lock = w
    BY <1>2
  <2>1. CASE w = Worker
    BY <1>1, <2>1, SessionAssumption DEF Cut, ThreadIsRight, Worker
  <2>2. CASE w \in Children /\ w # Worker
    <3>1. php[w].pc = "cut" /\ php[w].fd = f /\ LockIsHeld(w)
      BY <2>2 DEF Cut, IInv, ChildInv
    <3> QED
      BY <3>1 DEF LockIsHeld, Files, NoFile
  <2> QED
    BY <2>1, <2>2
<1>4. \A f \in Files : (file[f].lock \in ws /\ f \notin cut) => ~ Rewriting(f)
  <2> SUFFICES ASSUME NEW f \in Files, NEW w \in Children \cup {Worker}, f \in Cut(w),
                      file[f].lock \in ws
               PROVE  w \in ws
    BY DEF Rewriting
  <2>1. CASE w = Worker
    BY <1>1, <2>1, SessionAssumption DEF Cut, ThreadIsRight, Worker
  <2>2. CASE w \in Children /\ w # Worker
    <3>1. php[w].pc = "cut" /\ php[w].fd = f /\ LockIsHeld(w)
      BY <2>2 DEF Cut, IInv, ChildInv
    <3> QED
      BY <3>1 DEF LockIsHeld, Files, NoFile
  <2> QED
    BY <2>1, <2>2
<1> HIDE DEF cut, held
<1>5. ASSUME NEW f \in Files
      PROVE  /\ file'[f] \in File
             /\ file[f].lock \notin ws => file'[f] = file[f]
             /\ file[f].lock \in ws =>
                   file'[f].acked = {} \/ (f \notin cut /\ Kept(f))
  <2> DEFINE u == Unlocked(held)
             v == Unlocked({f})
  <2>1. /\ u \in [Files -> File]
        /\ \A g \in Files : g \notin held => u[g] = file[g]
        /\ \A g \in Files : g \in held =>
              \/ u[g].data = file[g].data /\ u[g].acked = file[g].acked
              \/ u[g].data = {} /\ u[g].acked = {}
    BY <1>1, UnlockedIs
  <2>2. v \in [Files -> File]
    BY <1>1, UnlockedIs
  <2>3. file'[f] = IF f \in cut THEN [v[f] EXCEPT !.acked = {}] ELSE u[f]
    BY <1>1
  <2> HIDE DEF u, v
  <2>4. CASE f \in cut
    <3>1. file'[f] = [v[f] EXCEPT !.acked = {}] /\ file[f].lock \in ws
      BY <1>2, <1>3, <2>3, <2>4
    <3> QED
      BY <2>2, <3>1 DEF File
  <2>5. CASE f \notin cut
    BY <1>2, <2>1, <2>3, <2>5 DEF Kept
  <2> QED
    BY <2>4, <2>5
<1>6. file' \in [Files -> File]
  <2>1. file' = [f \in Files |-> file'[f]]
    BY <1>1
  <2> QED
    BY <1>5, <2>1
<1>7. php' \in [Children -> Script] /\ \A c \in Children : php'[c] = IF c \in ws THEN Reset ELSE php[c]
  BY <1>1, ResetIs DEF TypeOK
<1>8. /\ thread' \in [op : {"none", "update", "complete", "write"},
                      at : Files \cup {NoFile}, copy : SUBSET Items]
      /\ upload' \in [sid : Sids \cup {NoSid}, left : 0 .. MaxProgress]
  <2>1. MaxProgress \in Nat
    BY SessionAssumption
  <2> QED
    BY <1>1, <2>1 DEF TypeOK, Idle, NoUpload
<1>9. TypeOK'
  BY <1>1, <1>6, <1>7, <1>8 DEF TypeOK, SpentOK
<1>10. ASSUME NEW c \in Children PROVE ChildInv(c)'
  <2>1. CASE c \in ws
    <3>1. /\ php'[c] = Reset /\ Reset.pc = "idle" /\ Reset.fd = NoFile /\ Reset.wait = NoFile
          /\ Reset.id = NoSid /\ Reset.cookie = NoSid /\ Reset.active = FALSE
      BY <1>7, <2>1 DEF Reset
    <3> QED
      BY <3>1 DEF ChildInv, PcIsRight, LockIsHeld, KeepsWritten, IdIsKnown, IdIsPrivate,
                  FileIsPrivate, Renewing
  <2>2. CASE c \notin ws
    <3>1. /\ php'[c] = php[c] /\ ChildInv(c) /\ php[c] \in Script
          /\ \A d \in Children : php'[d] = php[d] \/ php'[d] = Reset
      BY <1>1, <1>7, <2>2 DEF IInv, TypeOK
    <3>2. Reset.id = NoSid /\ Reset.fd = NoFile /\ Reset.wait = NoFile
      BY DEF Reset
    <3>3. PcIsRight(c)' /\ IdIsKnown(c)' /\ IdIsPrivate(c)'
      BY <1>1, <3>1, <3>2 DEF ChildInv, PcIsRight, IdIsKnown, IdIsPrivate
    <3>4. php[c].fd # NoFile => php[c].fd \in Files /\ file'[php[c].fd] = file[php[c].fd]
      BY <1>5, <2>2, <3>1 DEF ChildInv, LockIsHeld, Script
    <3>5. LockIsHeld(c)' /\ KeepsWritten(c)'
      BY <3>1, <3>4 DEF ChildInv, LockIsHeld, KeepsWritten
    <3>6. FileIsPrivate(c)'
      <4> SUFFICES ASSUME Renewing(c) PROVE FileIsPrivate(c)'
        BY <3>1 DEF FileIsPrivate, Renewing
      <4>1. php[c].wait \in Files /\ php[c].wait # NoFile
        BY <3>1 DEF ChildInv, PcIsRight, Script, Renewing
      <4>2. file'[php[c].wait].acked = {}
        BY <1>5, <3>1, <4>1 DEF ChildInv, FileIsPrivate, Kept
      <4> QED
        BY <1>1, <3>1, <3>2, <4>1, <4>2 DEF ChildInv, FileIsPrivate
    <3> QED
      BY <3>3, <3>5, <3>6 DEF ChildInv
  <2> QED
    BY <2>1, <2>2
<1>11. ThreadIsRight'
  <2>1. CASE Worker \in ws
    BY <2>1 DEF ThreadIsRight, Idle, NoUpload
  <2>2. CASE Worker \notin ws
    <3>1. thread.op = "write" => thread.at \in Files /\ file'[thread.at] = file[thread.at]
      BY <1>1, <1>5, <2>2 DEF ThreadIsRight, TypeOK
    <3> QED
      BY <1>1, <2>2, <3>1 DEF ThreadIsRight
  <2> QED
    BY <2>1, <2>2
<1>12. ASSUME NEW f \in Files PROVE FileIsWhole(f)'
  <2>1. CASE file[f].lock \in ws
    <3>1. f \notin cut => Progress \notin file[f].acked /\ file[f].acked \subseteq file[f].data
      BY <1>4, <2>1 DEF IInv, FileIsWhole
    <3> QED
      BY <1>5, <2>1, <3>1 DEF FileIsWhole, Kept
  <2>2. CASE file[f].lock \notin ws
    <3>1. file'[f] = file[f]
      BY <1>5, <2>2
    <3>2. Rewriting(f) => Rewriting(f)'
      <4> SUFFICES ASSUME NEW w \in Children \cup {Worker}, f \in Cut(w) PROVE f \in Cut(w)'
        BY DEF Rewriting
      <4>1. w \notin ws
        <5>1. w \in ws => f \in cut
          BY DEF cut
        <5> QED
          BY <1>2, <1>3, <2>2, <5>1
      <4> QED
        BY <1>7, <4>1 DEF Cut
    <3> QED
      BY <3>1, <3>2 DEF IInv, FileIsWhole
  <2> QED
    BY <2>1, <2>2
<1> QED
  BY <1>9, <1>10, <1>11, <1>12 DEF IInv

LEMMA DeathsKeep ==
    ASSUME IInv, KillWorker \/ \E c \in Children : Exit(c) \/ Kill(c) PROVE IInv'
<1>1. TypeOK /\ Worker \notin Children
  BY OpenIsLive DEF IInv
<1>2. CASE KillWorker
  <2>1. /\ Ends(Children \cup {Worker}) /\ SpentOK'
        /\ upload' = NoUpload /\ thread' = Idle
    BY <1>1, <1>2, SpendIs DEF KillWorker
  <2> QED
    BY <2>1, EndsKeep
<1>3. ASSUME NEW c \in Children, Exit(c) \/ Kill(c) PROVE IInv'
  <2>1. Ends({c}) /\ SpentOK' /\ UNCHANGED <<upload, thread>>
    BY <1>1, <1>3, SpendIs DEF Exit, Kill, TypeOK, SpentOK
  <2>2. {c} \in SUBSET (Children \cup {Worker}) /\ Worker \notin {c}
    BY <1>1
  <2> QED
    BY <2>1, <2>2, EndsKeep
<1> QED
  BY <1>2, <1>3
-----------------------------------------------------------------------------
(***************************************************************************)
(* The invariant holds.                                                    *)
(***************************************************************************)

\* There are files enough for the ids known at the start.
KnownNames(n) ==
    /\ \A s \in Sids : n[s] = NoFile <=> s \notin Known
    /\ \A s, t \in Known : n[s] = n[t] => s = t

LEMMA FilesSuffice == \E n \in [Sids -> Files \cup {NoFile}] : KnownNames(n)
<1> DEFINE k == Cardinality(Known)
<1>1. IsFiniteSet(Known) /\ k <= MaxFiles /\ MaxFiles \in Nat /\ Known \subseteq Sids
  BY SessionAssumption
<1>2. k \in Nat /\ ExistsBijection(1 .. k, Known)
  BY <1>1, FS_CardinalityType
<1> HIDE DEF k
<1>3. PICK b \in [1 .. k -> Known] : \A s \in Known : \E i \in 1 .. k : b[i] = s
  BY <1>2 DEF ExistsBijection, Bijection, Injection, Surjection
<1> DEFINE at(s) == CHOOSE i \in 1 .. k : b[i] = s
           n == [s \in Sids |-> IF s \in Known THEN at(s) ELSE NoFile]
<1>4. ASSUME NEW s \in Known PROVE at(s) \in 1 .. k /\ b[at(s)] = s
  BY <1>3
<1>5. ASSUME NEW s \in Known PROVE at(s) \in Files /\ at(s) # NoFile
  BY <1>1, <1>2, <1>4 DEF Files, NoFile
<1> HIDE DEF at
<1>6. n \in [Sids -> Files \cup {NoFile}]
  BY <1>5
<1>7. KnownNames(n)
  BY <1>1, <1>4, <1>5 DEF KnownNames
<1> QED
  BY <1>6, <1>7

LEMMA InitInv == Init => IInv
<1> SUFFICES ASSUME Init PROVE IInv
  OBVIOUS
<1>1. name \in [Sids -> Files \cup {NoFile}] /\ KnownNames(name)
  <2>1. name = CHOOSE n \in [Sids -> Files \cup {NoFile}] : KnownNames(n)
    BY DEF Init, KnownNames
  <2> QED
    BY <2>1, FilesSuffice
<1>2. Seed \in Items /\ Progress # Seed
  BY SessionAssumption DEF Items, Seed, Progress
<1> DEFINE new == [Blank EXCEPT !.data = {Seed}, !.acked = {Seed}]
<1>3. new \in File /\ new.data = {Seed} /\ new.acked = {Seed}
  BY <1>2, BlankIsFile DEF File
<1>4. file = [f \in Files |-> IF \E s \in Known : name[s] = f THEN new ELSE Blank]
  BY DEF Init
<1> HIDE DEF new
<1>5. /\ file \in [Files -> File]
      /\ \A f \in Files : Progress \notin file[f].acked /\ file[f].acked \subseteq file[f].data
  BY <1>2, <1>3, <1>4, BlankIsFile
<1>6. /\ php \in [Children -> Script] /\ \A c \in Children : php[c] = Reset
      /\ thread = Idle /\ upload = NoUpload /\ issued = Known /\ unlocked = FALSE
      /\ gone = [s \in Sids |-> {}] /\ spent = [k \in Kinds |-> 0]
  BY ResetIs DEF Init
<1>7. TypeOK
  <2>1. thread \in [op : {"none", "update", "complete", "write"},
                    at : Files \cup {NoFile}, copy : SUBSET Items]
    BY <1>6 DEF Idle
  <2>2. upload \in [sid : Sids \cup {NoSid}, left : 0 .. MaxProgress]
    <3>1. MaxProgress \in Nat
      BY SessionAssumption
    <3> QED
      BY <1>6, <3>1 DEF NoUpload
  <2>3. spent \in [Kinds -> Nat] /\ \A k \in Kinds : spent[k] <= Limit[k]
    BY <1>6, SessionAssumption DEF Kinds, Limit
  <2>4. gone \in [Sids -> SUBSET Items] /\ issued \subseteq Sids /\ unlocked \in BOOLEAN
    BY <1>6, SessionAssumption
  <2> QED
    BY <1>1, <1>5, <1>6, <2>1, <2>2, <2>3, <2>4 DEF TypeOK
<1>8. ThreadIsRight
  BY <1>6 DEF ThreadIsRight, Idle, NoUpload
<1>9. \A f \in Files : FileIsWhole(f)
  BY <1>5 DEF FileIsWhole
<1>10. ASSUME NEW c \in Children PROVE ChildInv(c)
  <2>1. /\ php[c] = Reset /\ Reset.pc = "idle" /\ Reset.fd = NoFile /\ Reset.wait = NoFile
        /\ Reset.id = NoSid /\ Reset.cookie = NoSid /\ Reset.active = FALSE
    BY <1>6 DEF Reset
  <2> QED
    BY <2>1 DEF ChildInv, PcIsRight, LockIsHeld, KeepsWritten, IdIsKnown, IdIsPrivate,
                FileIsPrivate, Renewing
<1> QED
  BY <1>7, <1>8, <1>9, <1>10 DEF IInv

LEMMA NextPreserves == IInv /\ [Next]_vars => IInv'
<1> SUFFICES ASSUME IInv, [Next]_vars PROVE IInv'
  OBVIOUS
<1>1. ASSUME NEW c \in Children, Begin(c) \/ Kill(c) PROVE IInv'
  BY <1>1, BeginKeeps, DeathsKeep
<1>2. ASSUME NEW c \in Children, Operation(c) PROVE IInv'
  BY <1>2, StartKeeps, StartFailsKeeps, ScriptMoves, AbortKeeps, RestoreKeeps, RestoreFailsKeeps,
     SavesKeep, DestroysKeep, FinishKeeps, DeathsKeep
  DEF Operation
<1>3. ASSUME NEW c \in Children, Step(c) PROVE IInv'
  BY <1>3, ReadsKeep, PeekedKeeps, RenewedKeeps, ScriptMoves, WriteBackKeeps, RenewKeeps,
     DestroysKeep
  DEF Step
<1>4. CASE Draining \/ KillWorker \/ \E s \in issued : Arrive(s)
  BY <1>4, UploadOpens, RewriteKeeps, RewrittenKeeps, UploadMoves, DeathsKeep DEF Draining
<1>5. CASE UNCHANGED vars
  <2>1. UNCHANGED <<name, file, issued, gone, unlocked, php, upload, thread, spent>>
    BY <1>5 DEF vars, store
  <2>2. TypeOK' /\ ThreadIsRight'
    BY <2>1 DEF IInv, TypeOK, ThreadIsRight
  <2>3. \A c \in Children : ChildInv(c)'
    BY <2>1, ChildrenKeep DEF NamesStep
  <2>4. \A f \in Files : FileIsWhole(f)'
    BY <2>1, FileKeeps DEF Kept, Rewriting, Cut
  <2> QED
    BY <2>2, <2>3, <2>4 DEF IInv
<1> QED
  BY <1>1, <1>2, <1>3, <1>4, <1>5, AgeKeeps DEF Next

LEMMA Inductive == Spec => []IInv
  BY InitInv, NextPreserves, PTL DEF Spec

\* What a completed write put into a session file is still in it, whatever
\* interleaving of requests, upload progress, kills and failures follows
\* (file_io.rs: the lock that elephc_web_session_read_bytes takes is released
\* by the write that ends the session).
THEOREM WritesSurvive == Spec => []UpdatesSurvive
<1>1. IInv => UpdatesSurvive
  BY DEF IInv, FileIsWhole, UpdatesSurvive
<1> QED
  BY <1>1, Inductive, PTL
-----------------------------------------------------------------------------
(***************************************************************************)
(* Where the items of a destroyed session are.  Each request has one item  *)
(* of its own, which is nowhere before the script adds it; so what could   *)
(* come back under a destroyed id has to be read from a file of that name, *)
(* or be in the copy of somebody who has that file open.                   *)
(***************************************************************************)

Copies(c) == php[c].session \cup php[c].snapshot

Seen(i) ==
    \/ \E f \in Files : i \in file[f].data
    \/ \E c \in Children : i \in Copies(c)
    \/ i \in thread.copy
    \/ \E s \in Sids : i \in gone[s]

\* The item of a request is new, and no other request's.
ItemsAreNew ==
    /\ \A i \in Items : Seen(i) =>
          i <= spent["request"] + 1 /\ \A c \in Children : php[c].item = i => i = 0
    /\ \A c \in Children :
          /\ php[c].item <= spent["request"] + 1
          /\ \A d \in Children \ {c} : php[d].item = php[c].item => php[c].item = 0

\* Only sessions some client knows are destroyed.
OnlyKnownAreGone == \A s \in Sids : /\ gone[s] # {} => s \in issued
                                    /\ Progress \notin gone[s]

\* No file has anything that was destroyed under its name, and none will get it.
NoneReturns(s) ==
    /\ name[s] = NoFile \/ file[name[s]].data \cap gone[s] = {}
    /\ \A c \in Children : php[c].active /\ php[c].fd # NoFile /\ php[c].fd = name[s] =>
           Copies(c) \cap gone[s] = {}
    /\ thread.op = "write" /\ thread.at = name[s] => thread.copy \cap gone[s] = {}

GoneInv ==
    /\ ItemsAreNew
    /\ OnlyKnownAreGone
    /\ unlocked \/ \A s \in Sids : NoneReturns(s)

\* What a child's step does to data: files in use get nothing but the session
\* of the child that has them open; the child's copies come from its own, from
\* its item, or from the file it waited for.
Gained(c) == IF php[c].active THEN php[c].session ELSE {}

FilesData(c) ==
    /\ \A f \in Files : Live(f) =>
          file'[f].data \subseteq file[f].data \cup (IF f = php[c].fd THEN Gained(c) ELSE {})
    /\ \A f \in Files : ~ Live(f) => file'[f].data \subseteq file[f].data \cup Gained(c)
    /\ unlocked \/ unlocked' \/
          \A s \in Sids : /\ name'[s] # NoFile /\ name'[s] # name[s] => ~ Live(name'[s])
                          /\ name'[s] # NoFile /\ ~ Live(name'[s]) => file'[name'[s]].data = {}
    /\ unlocked => unlocked'

GoneStep(c) ==
    \A s \in Sids :
       \/ gone'[s] = gone[s]
       \/ /\ name'[s] = NoFile /\ s \in issued
          /\ name[s] \in Files
          /\ gone'[s] \subseteq gone[s] \cup (file[name[s]].data \ {Progress})

OwnCopies(c) ==
    \/ /\ php'[c].fd \in {php[c].fd, NoFile}
       /\ php'[c].active /\ php'[c].fd # NoFile => php[c].active
       /\ Copies(c)' \subseteq Copies(c) \cup ({php[c].item} \ {0})
       /\ Copies(c)' \subseteq Copies(c) \/ php'[c].item = 0
    \/ /\ php[c].pc = "wait" /\ php'[c].fd = php[c].wait
       /\ \/ Copies(c)' \subseteq file[php[c].wait].data
          \/ Renewing(c) /\ Copies(c)' \subseteq Copies(c) \cup file[php[c].wait].data

OwnItem(c) ==
    \/ php'[c].item \in {php[c].item, 0} /\ spent'["request"] = spent["request"]
    \/ php'[c].item = spent["request"] + 2 /\ spent'["request"] = spent["request"] + 1
       /\ Copies(c)' = {}

DataStep(c) ==
    /\ \A d \in Children \ {c} : php'[d] = php[d]
    /\ thread' = thread
    /\ FilesData(c) /\ GoneStep(c) /\ OwnCopies(c) /\ OwnItem(c)
    /\ issued \subseteq issued'

LEMMA ItemsStayNew ==
    ASSUME IInv, TypeOK', GoneInv, NEW c \in Children, DataStep(c)
    PROVE  ItemsAreNew'
<1> USE DEF GoneInv
<1>1. /\ TypeOK /\ php[c] \in Script /\ php'[c] \in Script
      /\ spent["request"] \in Nat /\ spent'["request"] \in Nat
      /\ php[c].item \in Nat /\ php'[c].item \in Nat
  <2>1. TypeOK /\ php[c] \in Script /\ php'[c] \in Script
        /\ spent["request"] \in Nat /\ spent'["request"] \in Nat
    BY DEF IInv, TypeOK, Kinds
  <2>2. Items \subseteq Nat
    BY SessionAssumption DEF Items
  <2> QED
    BY <2>1, <2>2 DEF Script
<1>2. ASSUME NEW i, Seen(i)'
      PROVE  Seen(i) \/ (i = php[c].item /\ i # 0 /\ php'[c].item = 0)
  <2>1. CASE \E f \in Files : i \in file'[f].data
    <3>1. PICK f \in Files : i \in file'[f].data
      BY <2>1
    <3>2. i \in file[f].data \cup php[c].session
      BY <3>1 DEF DataStep, FilesData, Gained
    <3> QED
      BY <3>2 DEF Seen, Copies
  <2>2. CASE i \in Copies(c)'
    <3>1. \/ i \in Copies(c) \cup file[php[c].wait].data /\ php[c].pc = "wait"
          \/ i \in Copies(c)
          \/ i = php[c].item /\ i # 0 /\ php'[c].item = 0
      BY <2>2 DEF DataStep, OwnCopies
    <3>2. php[c].pc = "wait" => php[c].wait \in Files
      BY <1>1 DEF IInv, ChildInv, PcIsRight, Script
    <3> QED
      BY <3>1, <3>2 DEF Seen
  <2>3. CASE \E d \in Children \ {c} : i \in Copies(d)'
    BY <2>3 DEF DataStep, Seen, Copies
  <2>4. CASE i \in thread'.copy
    BY <2>4 DEF DataStep, Seen
  <2>5. CASE \E s \in Sids : i \in gone'[s]
    <3>1. PICK s \in Sids : i \in gone'[s]
      BY <2>5
    <3>2. i \in gone[s] \/ (name[s] \in Files /\ i \in file[name[s]].data)
      BY <3>1 DEF DataStep, GoneStep
    <3> QED
      BY <3>2 DEF Seen
  <2> QED
    BY <1>2, <2>1, <2>2, <2>3, <2>4, <2>5 DEF Seen
<1>3. spent["request"] <= spent'["request"]
  BY <1>1 DEF DataStep, OwnItem
<1>4. /\ \A e \in Children : php[e].item \in Items /\ php'[e].item \in Items
      /\ Items \subseteq Nat
  <2>1. Items \subseteq Nat
    BY SessionAssumption DEF Items
  <2>2. \A e \in Children : php[e] \in Script /\ php'[e] \in Script
    BY <1>1 DEF TypeOK
  <2> QED
    BY <2>1, <2>2 DEF Script
<1>5. \A e \in Children \ {c} : php'[e].item = php[e].item
  BY DEF DataStep
<1>6. ASSUME NEW i \in Items, Seen(i)'
      PROVE  i <= spent'["request"] + 1 /\ \A d \in Children : php'[d].item = i => i = 0
  <2>1. Seen(i) \/ (i = php[c].item /\ i # 0 /\ php'[c].item = 0)
    BY <1>2, <1>6
  <2>2. i \in Nat /\ i <= spent["request"] + 1
    BY <1>4, <2>1 DEF ItemsAreNew
  <2>3. i <= spent'["request"] + 1
    BY <1>1, <1>3, <2>2
  <2>4. ASSUME NEW d \in Children, php'[d].item = i PROVE i = 0
    <3>1. CASE d # c
      BY <1>5, <2>1, <2>4, <3>1 DEF ItemsAreNew
    <3>2. CASE d = c
      <4>1. CASE php'[c].item \in {php[c].item, 0}
        BY <2>1, <2>4, <3>2, <4>1 DEF ItemsAreNew
      <4>2. CASE php'[c].item = spent["request"] + 2
        BY <1>1, <2>2, <2>4, <3>2, <4>2
      <4> QED
        BY <4>1, <4>2 DEF DataStep, OwnItem
    <3> QED
      BY <3>1, <3>2
  <2> QED
    BY <2>3, <2>4
<1>7. ASSUME NEW d \in Children
      PROVE  /\ php'[d].item <= spent'["request"] + 1
             /\ \A e \in Children \ {d} : php'[e].item = php'[d].item => php'[d].item = 0
  <2>1. \A e \in Children : php[e].item \in Nat /\ php[e].item <= spent["request"] + 1
    BY <1>4 DEF ItemsAreNew
  <2>2. \A e \in Children : php'[e].item \in Nat
    BY <1>4
  <2>3. CASE php'[c].item \in {php[c].item, 0}
    <3>1. \A e \in Children : php'[e].item \in {php[e].item, 0}
      BY <1>5, <2>3
    <3>2. php'[d].item <= spent'["request"] + 1
      BY <1>1, <1>3, <2>1, <3>1
    <3>3. ASSUME NEW e \in Children \ {d}, php'[e].item = php'[d].item, php'[d].item # 0
          PROVE  FALSE
      <4>1. php'[e].item = php[e].item /\ php'[d].item = php[d].item
        BY <3>1, <3>3
      <4> QED
        BY <3>3, <4>1 DEF ItemsAreNew
    <3> QED
      BY <3>2, <3>3
  <2>4. CASE /\ php'[c].item = spent["request"] + 2 /\ spent'["request"] = spent["request"] + 1
    <3>1. php'[d].item <= spent'["request"] + 1
      BY <1>1, <1>5, <2>1, <2>4
    <3>2. \A e \in Children \ {c} : php'[e].item # php'[c].item
      <4>1. \A e \in Children \ {c} : php'[e].item <= spent["request"] + 1
        BY <1>5, <2>1
      <4> QED
        BY <1>1, <2>2, <2>4, <4>1
    <3>3. ASSUME NEW e \in Children \ {d}, php'[e].item = php'[d].item, d # c PROVE php'[d].item = 0
      <4>1. e # c
        BY <3>2, <3>3
      <4>2. php[e].item = php[d].item /\ php'[d].item = php[d].item
        BY <1>5, <3>3, <4>1
      <4> QED
        BY <3>3, <4>2 DEF ItemsAreNew
    <3> QED
      BY <3>1, <3>2, <3>3
  <2> QED
    BY <2>3, <2>4 DEF DataStep, OwnItem
<1> QED
  BY <1>6, <1>7 DEF ItemsAreNew

LEMMA DataStepKeeps ==
    ASSUME IInv, TypeOK', GoneInv, NEW c \in Children, DataStep(c)
    PROVE  GoneInv'
<1> USE DEF GoneInv
<1>1. TypeOK
  BY DEF IInv
<1>2. ItemsAreNew'
  BY ItemsStayNew
<1>3. OnlyKnownAreGone'
  BY DEF OnlyKnownAreGone, DataStep, GoneStep
<1>4. ASSUME ~ unlocked', NEW s \in Sids PROVE NoneReturns(s)'
  <2>1. ~ unlocked /\ NoneReturns(s) /\ thread' = thread
    BY <1>4 DEF DataStep, FilesData
  <2>2. CASE name'[s] = NoFile
    <3>1. \A d \in Children : ~ (php'[d].fd # NoFile /\ php'[d].fd = name'[s])
      BY <2>2
    <3>2. thread.op = "write" => thread.at # NoFile
      BY DEF IInv, ThreadIsRight
    <3> QED
      BY <2>1, <2>2, <3>1, <3>2 DEF NoneReturns
  <2>3. CASE name'[s] # NoFile
    <3> DEFINE f == name'[s]
    <3>1. gone'[s] = gone[s] /\ f \in Files
      BY <2>3 DEF DataStep, GoneStep, TypeOK
    <3>2. CASE ~ Live(f)
      <4>1. file'[f].data = {}
        BY <1>4, <2>1, <2>3, <3>2 DEF DataStep, FilesData
      <4>2. \A d \in Children : php'[d].fd # f
        <5>1. \A d \in Children : php[d].fd # f /\ php[d].wait # f
          BY <3>2 DEF Live
        <5>2. php'[c].fd \in {php[c].fd, php[c].wait, NoFile}
          BY DEF DataStep, OwnCopies
        <5> QED
          BY <2>3, <5>1, <5>2 DEF DataStep
      <4>3. thread.at # f
        BY <3>2 DEF Live
      <4> QED
        BY <2>1, <4>1, <4>2, <4>3 DEF NoneReturns
    <3>3. CASE Live(f)
      <4>1. name[s] = f
        BY <1>4, <2>1, <2>3, <3>3 DEF DataStep, FilesData
      <4>2. file'[f].data \cap gone[s] = {}
        <5>1. file'[f].data \subseteq file[f].data \cup (IF f = php[c].fd THEN Gained(c) ELSE {})
          BY <3>1, <3>3 DEF DataStep, FilesData
        <5>2. f = php[c].fd => Gained(c) \cap gone[s] = {}
          BY <2>1, <2>3, <4>1 DEF NoneReturns, Gained, Copies
        <5> QED
          BY <2>1, <2>3, <4>1, <5>1, <5>2 DEF NoneReturns
      <4>3. ASSUME NEW d \in Children, php'[d].active, php'[d].fd = f
            PROVE  Copies(d)' \cap gone[s] = {}
        <5>1. CASE d # c
          BY <2>1, <2>3, <4>1, <4>3, <5>1 DEF DataStep, NoneReturns, Copies
        <5>2. CASE d = c
          <6>1. CASE /\ php'[c].fd \in {php[c].fd, NoFile}
                     /\ php'[c].active /\ php'[c].fd # NoFile => php[c].active
                     /\ Copies(c)' \subseteq Copies(c) \cup ({php[c].item} \ {0})
            <7>1. php[c].fd = f /\ php[c].active
              BY <2>3, <4>3, <5>2, <6>1
            <7>2. Copies(c) \cap gone[s] = {}
              BY <2>1, <2>3, <4>1, <7>1 DEF NoneReturns
            <7>3. php[c].item # 0 => php[c].item \notin gone[s]
              <8>1. php[c].item \in Items
                BY <1>1 DEF TypeOK, Script
              <8>2. php[c].item # 0 => ~ Seen(php[c].item)
                BY <8>1 DEF ItemsAreNew
              <8> QED
                BY <8>2 DEF Seen
            <7> QED
              BY <5>2, <6>1, <7>2, <7>3
          <6>2. CASE /\ php[c].pc = "wait" /\ php'[c].fd = php[c].wait
                     /\ Copies(c)' \subseteq file[php[c].wait].data
            BY <2>1, <2>3, <4>1, <4>3, <5>2, <6>2 DEF NoneReturns
          <6>3. CASE Renewing(c) /\ php'[c].fd = php[c].wait
            <7>1. s = php[c].id /\ php[c].id \notin issued
              BY <4>1, <4>3, <5>2, <6>3 DEF IInv, ChildInv, FileIsPrivate
            <7> QED
              BY <7>1 DEF OnlyKnownAreGone
          <6> QED
            BY <6>1, <6>2, <6>3 DEF DataStep, OwnCopies
        <5> QED
          BY <5>1, <5>2
      <4> QED
        BY <2>1, <3>1, <4>1, <4>2, <4>3 DEF NoneReturns
    <3> QED
      BY <3>2, <3>3
  <2> QED
    BY <2>2, <2>3
<1> QED
  BY <1>2, <1>3, <1>4
-----------------------------------------------------------------------------
(***************************************************************************)
(* Each step of a child is a DataStep.                                     *)
(***************************************************************************)

LEMMA SpendsNoRequest ==
    ASSUME TypeOK, NEW kinds, Spend(kinds), "request" \notin kinds
    PROVE  spent'["request"] = spent["request"]
  BY DEF Spend, Kinds

\* No id gets a file, and nothing but the child's session gets into its file.
LEMMA DataMoves ==
    ASSUME TypeOK, NEW c \in Children, unlocked' = unlocked,
           \A s \in Sids : name'[s] \in {name[s], NoFile},
           \A f \in Files : file'[f].data \subseteq
               file[f].data \cup (IF f = php[c].fd THEN Gained(c) ELSE {})
    PROVE  FilesData(c)
<1>1. \A s \in Sids : name[s] # NoFile => Live(name[s])
  BY DEF Live, Named
<1>2. \A f \in Files : file'[f].data \subseteq file[f].data \cup Gained(c)
  OBVIOUS
<1>3. \A s \in Sids : name'[s] # NoFile => name'[s] = name[s] /\ Live(name'[s])
  BY <1>1
<1> QED
  BY <1>2, <1>3 DEF FilesData

LEMMA OpenData ==
    ASSUME IInv, NEW c \in Children, NEW s \in Sids, NEW f \in Files, Open(s, f),
           unlocked' = unlocked
    PROVE  FilesData(c)
<1>1. /\ \A g \in Files : file'[g] = file[g] \/ (g = f /\ ~ Live(f) /\ file'[f] = Blank)
      /\ \A t \in Sids : name'[t] = name[t] \/ (t = s /\ name'[t] = f)
      /\ ~ Live(f) => file'[f] = Blank
      /\ f = name[s] \/ ~ Live(f)
  BY OpenIs
<1>2. \A t \in Sids : name[t] # NoFile => Live(name[t])
  BY DEF Live, Named
<1>3. Blank.data = {}
  BY BlankIsFile
<1>4. \A t \in Sids : /\ name'[t] # NoFile /\ name'[t] # name[t] => ~ Live(name'[t])
                      /\ name'[t] # NoFile /\ ~ Live(name'[t]) => file'[name'[t]].data = {}
  BY <1>1, <1>2, <1>3
<1>5. \A g \in Files : file'[g].data \subseteq file[g].data
  BY <1>1, <1>3
<1> QED
  BY <1>4, <1>5 DEF FilesData

\* A child that becomes r, with no more in its session than it had.
LEMMA NothingGained ==
    ASSUME IInv, NEW c \in Children, NEW r \in Script, Becomes(c, r), thread' = thread,
           issued \subseteq issued', spent'["request"] = spent["request"],
           GoneStep(c), FilesData(c),
           r.item \in {php[c].item, 0}, r.fd \in {php[c].fd, NoFile},
           r.active /\ r.fd # NoFile => php[c].active,
           r.session \cup r.snapshot \subseteq Copies(c)
    PROVE  DataStep(c)
<1>1. php'[c] = r /\ \A d \in Children \ {c} : php'[d] = php[d]
  BY BecomesIs DEF IInv
<1> QED
  BY <1>1 DEF DataStep, OwnCopies, OwnItem, Copies

LEMMA OpensMoveNothing ==
    ASSUME IInv, NEW c \in Children, NEW op \in {"start", "peek"}, Start(c, op)
    PROVE  DataStep(c)
<1> DEFINE asked == IF php[c].id # NoSid THEN php[c].id ELSE php[c].cookie
<1>1. TypeOK /\ ChildInv(c) /\ php[c] \in Script /\ php[c].pc = "script" /\ ~ php[c].active
  BY DEF IInv, Start, Running, TypeOK
<1>2. PICK s \in (IF asked # NoSid THEN {asked} ELSE Fresh), f \in Files :
         /\ Open(s, f)
         /\ Becomes(c, [php[c] EXCEPT !.pc = "wait", !.op = op, !.id = s, !.active = TRUE,
                                      !.wait = f, !.session = {}, !.snapshot = {}])
  BY DEF Start
<1> DEFINE r == [php[c] EXCEPT !.pc = "wait", !.op = op, !.id = s, !.active = TRUE,
                               !.wait = f, !.session = {}, !.snapshot = {}]
<1>3. s \in Sids
  BY <1>1 DEF Script, Fresh
<1>4. r \in Script
  BY <1>1, <1>3 DEF Script
<1>5. r.item = php[c].item /\ r.fd = php[c].fd /\ r.session = {} /\ r.snapshot = {}
  BY <1>1 DEF Script
<1> HIDE DEF r
<1>6. Becomes(c, r)
  BY <1>2 DEF r
<1>7. /\ thread' = thread /\ issued' = issued /\ gone' = gone /\ unlocked' = unlocked
      /\ spent'["request"] = spent["request"]
  BY <1>1, SpendsNoRequest DEF Start
<1>8. FilesData(c)
  BY <1>2, <1>3, <1>7, OpenData
<1>9. php[c].fd = NoFile
  BY <1>1 DEF ChildInv, PcIsRight
<1> QED
  BY <1>4, <1>5, <1>6, <1>7, <1>8, <1>9, NothingGained DEF GoneStep, Copies

\* The steps that leave the files and the session alone.
LEMMA MovesMoveNothing ==
    ASSUME IInv, NEW c \in Children, Output(c) \/ Sent(c) \/ Collect(c) \/ Remove(c) \/ StartFails(c)
    PROVE  DataStep(c)
<1>1. TypeOK /\ php[c] \in Script
  BY DEF IInv, TypeOK
<1>2. /\ UNCHANGED <<file, issued, gone, unlocked, thread>>
      /\ spent'["request"] = spent["request"]
      /\ \A s \in Sids : name'[s] \in {name[s], NoFile}
  BY <1>1, SpendsNoRequest DEF Output, Sent, Collect, Remove, StartFails, store, TypeOK
<1>3. PICK r \in Script :
         /\ Becomes(c, r)
         /\ r.fd = php[c].fd /\ r.active = php[c].active /\ r.item = php[c].item
         /\ r.session = php[c].session /\ r.snapshot = php[c].snapshot
  <2>1. CASE StartFails(c)
    <3>1. Becomes(c, php[c])
      BY <1>1, <2>1 DEF StartFails, Becomes, TypeOK
    <3> QED
      BY <1>1, <3>1
  <2>2. CASE Output(c) \/ Sent(c)
    <3>1. PICK pc \in {"script", "send"} : Becomes(c, [php[c] EXCEPT !.pc = pc])
      BY <2>2 DEF Output, Sent
    <3>2. [php[c] EXCEPT !.pc = pc] \in Script
      BY <1>1 DEF Script
    <3> QED
      BY <1>1, <3>1, <3>2 DEF Script
  <2>3. CASE Collect(c) \/ Remove(c)
    <3>1. PICK pc \in {"script", "remove"}, s \in Sids \cup {NoSid} :
             Becomes(c, [php[c] EXCEPT !.pc = pc, !.found = s])
      BY <1>1, <2>3 DEF Collect, Remove, Expired
    <3>2. [php[c] EXCEPT !.pc = pc, !.found = s] \in Script
      BY <1>1 DEF Script
    <3> QED
      BY <1>1, <3>1, <3>2 DEF Script
  <2> QED
    BY <2>1, <2>2, <2>3
<1>4. FilesData(c)
  BY <1>1, <1>2, DataMoves
<1> QED
  BY <1>2, <1>3, <1>4, NothingGained DEF GoneStep, Copies

\* A lock given back or taken puts nothing into a file.
LEMMA LocksMoveNothing ==
    ASSUME IInv, NEW c \in Children, name' = name, unlocked' = unlocked,
           \/ file' = Released(c)
           \/ file' = Locked(c) /\ php[c].pc = "wait" /\ file[php[c].wait].lock = Nobody
           \/ file' = file
    PROVE  FilesData(c)
<1>1. TypeOK
  BY DEF IInv
<1>2. \A f \in Files : file'[f].data \subseteq file[f].data
  <2>1. CASE file' = Released(c)
    <3> DEFINE fs == {php[c].fd} \ {NoFile}
    <3>1. file' = Unlocked(fs)
      BY <2>1 DEF Released
    <3> HIDE DEF fs
    <3> QED
      BY <1>1, <3>1, UnlockedIs
  <2>2. CASE file' = Locked(c) /\ php[c].pc = "wait" /\ file[php[c].wait].lock = Nobody
    BY <1>1, <2>2 DEF Locked, TypeOK, File
  <2>3. CASE file' = file
    BY <2>3
  <2> QED
    BY <2>1, <2>2, <2>3
<1> QED
  BY <1>1, <1>2, DataMoves

\* Begin: the request gets an item no one has seen.
LEMMA BeginGetsItem == ASSUME IInv, NEW c \in Children, Begin(c) PROVE DataStep(c)
<1>1. TypeOK /\ php[c].pc = "idle" /\ ~ php[c].active
  BY DEF IInv, Begin, ChildInv, PcIsRight
<1>2. PICK s \in issued \cup {NoSid}, o \in BOOLEAN, d \in BOOLEAN :
         /\ Spend({"request"} \cup IF o THEN {"rare"} ELSE {})
         /\ Becomes(c, [Reset EXCEPT !.pc = "script", !.cookie = s, !.object = o, !.shutdown = d,
                                     !.item = spent["request"] + 2])
  BY DEF Begin
<1> DEFINE r == [Reset EXCEPT !.pc = "script", !.cookie = s, !.object = o, !.shutdown = d,
                              !.item = spent["request"] + 2]
<1>3. spent["request"] + 2 \in Items
  <2>1. spent["request"] \in Nat /\ spent["request"] < MaxRequests /\ MaxRequests \in Nat
    BY <1>2, SessionAssumption DEF Spend, Limit, Kinds, IInv, TypeOK
  <2> QED
    BY <2>1 DEF Items
<1>4. r \in Script
  BY <1>1, <1>3, ResetIs DEF Script, TypeOK
<1>5. /\ r.fd = NoFile /\ r.item = spent["request"] + 2 /\ ~ r.active
      /\ r.session = {} /\ r.snapshot = {}
  BY DEF Reset
<1> HIDE DEF r
<1>6. php'[c] = r /\ \A e \in Children \ {c} : php'[e] = php[e]
  BY <1>1, <1>2, <1>4, BecomesIs DEF r
<1>7. UNCHANGED <<name, issued, gone, unlocked, upload, thread>> /\ file' = Released(c)
  BY DEF Begin, OnlyFile
<1>8. spent'["request"] = spent["request"] + 1
  BY <1>2 DEF Spend, Kinds
<1>9. FilesData(c)
  BY <1>7, LocksMoveNothing
<1>10. OwnItem(c)
  BY <1>5, <1>6, <1>8 DEF OwnItem, Copies
<1>11. OwnCopies(c)
  BY <1>5, <1>6 DEF OwnCopies, Copies
<1> QED
  BY <1>6, <1>7, <1>9, <1>10, <1>11 DEF DataStep, GoneStep

\* Add: the item goes into the session, and is the request's no more.
LEMMA AddUsesItem == ASSUME IInv, NEW c \in Children, Add(c) PROVE DataStep(c)
<1> DEFINE r == [php[c] EXCEPT !.session = @ \cup {php[c].item}, !.item = 0]
<1>1. TypeOK /\ php[c] \in Script /\ php[c].active /\ php[c].item # 0
  BY DEF IInv, TypeOK, Add, InSession
<1>2. UNCHANGED <<name, file, issued, gone, unlocked, thread, spent>> /\ Becomes(c, r)
  BY DEF Add, store
<1>3. r \in Script
  <2>1. php[c].session \cup {php[c].item} \in SUBSET Items /\ 0 \in Items
    BY <1>1, SessionAssumption DEF Script, Items
  <2> QED
    BY <1>1, <2>1 DEF Script
<1>4. /\ r.fd = php[c].fd /\ r.item = 0 /\ r.active
      /\ r.session = php[c].session \cup {php[c].item} /\ r.snapshot = php[c].snapshot
  BY <1>1 DEF Script
<1> HIDE DEF r
<1>5. php'[c] = r /\ \A e \in Children \ {c} : php'[e] = php[e]
  BY <1>1, <1>2, <1>3, BecomesIs
<1>6. FilesData(c)
  BY <1>2, LocksMoveNothing
<1> QED
  BY <1>1, <1>2, <1>4, <1>5, <1>6 DEF DataStep, GoneStep, OwnCopies, OwnItem, Copies

LEMMA EndsMoveNothing ==
    ASSUME IInv, NEW c \in Children, Peeked(c) \/ StartAborts(c) \/ Abort(c)
    PROVE  DataStep(c)
<1>1. TypeOK /\ php[c] \in Script /\ ChildInv(c)
  BY DEF IInv, TypeOK
<1>2. /\ UNCHANGED <<name, gone, unlocked, thread>> /\ issued \subseteq issued'
      /\ spent'["request"] = spent["request"]
  BY <1>1, SpendsNoRequest DEF Peeked, StartAborts, Abort, OnlyFile, store
<1>3. FilesData(c)
  BY <1>2, LocksMoveNothing DEF Peeked, StartAborts, Abort, store
<1>4. PICK q \in Script :
         /\ q = Closed(php[c]) \/ q = Closed(Resumed(c))
         /\ Becomes(c, q) \/ \E s \in Sids : Becomes(c, [q EXCEPT !.pc = "remove", !.found = s])
  <2>1. CASE Abort(c)
    BY <1>1, <2>1, ClosedIs DEF Abort
  <2>2. CASE Peeked(c) \/ StartAborts(c)
    <3>1. php[c].wait \in Files
      BY <1>1, <2>2 DEF Peeked, StartAborts, Waits, ChildInv, PcIsRight, Script
    <3>2. Resumed(c) \in Script
      BY <1>1, <3>1, ReadIs
    <3>3. Closed(Resumed(c)) \in Script
      BY <3>2, ClosedIs
    <3> QED
      BY <2>2, <3>3 DEF Peeked, StartAborts, BecomesOrCollects, Expired
  <2> QED
    BY <2>1, <2>2
<1>5. q.item = php[c].item /\ q.fd = NoFile /\ q.session = {} /\ q.snapshot = {}
  <2>1. CASE q = Closed(php[c])
    BY <1>1, <2>1 DEF Closed, Script
  <2>2. CASE q = Closed(Resumed(c))
    BY <1>1, <2>2 DEF Closed, Resumed, Script
  <2> QED
    BY <1>4, <2>1, <2>2
<1>6. PICK r \in Script : /\ Becomes(c, r) /\ r.item = php[c].item
                          /\ r.fd = NoFile /\ r.session = {} /\ r.snapshot = {}
  <2>1. CASE Becomes(c, q)
    BY <1>5, <2>1
  <2>2. CASE \E s \in Sids : Becomes(c, [q EXCEPT !.pc = "remove", !.found = s])
    <3>1. PICK s \in Sids : Becomes(c, [q EXCEPT !.pc = "remove", !.found = s])
      BY <2>2
    <3> DEFINE x == [q EXCEPT !.pc = "remove", !.found = s]
    <3>2. /\ x \in Script /\ x.item = q.item /\ x.fd = q.fd
          /\ x.session = q.session /\ x.snapshot = q.snapshot
      BY DEF Script
    <3> HIDE DEF x
    <3> QED
      BY <1>5, <3>1, <3>2 DEF x
  <2> QED
    BY <1>4, <2>1, <2>2
<1> QED
  BY <1>2, <1>3, <1>6, NothingGained DEF GoneStep

\* session_reset: the snapshot again, an empty session, or another wait.
LEMMA ResetsMoveNothing ==
    ASSUME IInv, NEW c \in Children, Restore(c) \/ RestoreFails(c)
    PROVE  DataStep(c)
<1>1. TypeOK /\ php[c] \in Script /\ php[c].active /\ php[c].id \in Sids
  BY DEF IInv, TypeOK, Restore, RestoreFails, InSession, ChildInv, PcIsRight
<1>2. UNCHANGED <<issued, gone, unlocked, thread>> /\ spent'["request"] = spent["request"]
  BY <1>1, SpendsNoRequest DEF Restore, RestoreFails, OnlyFile
<1>3. CASE RestoreFails(c)
  <2> DEFINE r == [php[c] EXCEPT !.session = {}]
  <2>1. /\ r \in Script /\ r.item = php[c].item /\ r.fd = php[c].fd
        /\ r.session = {} /\ r.snapshot = php[c].snapshot
    BY <1>1 DEF Script
  <2>2. Becomes(c, r)
    BY <1>3 DEF RestoreFails
  <2> HIDE DEF r
  <2>3. name' = name /\ \A f \in Files : file'[f].data = file[f].data
    BY <1>1, <1>3 DEF RestoreFails, OnlyFile, TypeOK, File
  <2>4. FilesData(c)
    BY <1>1, <1>2, <2>3, DataMoves
  <2> QED
    BY <1>1, <1>2, <2>1, <2>2, <2>4, NothingGained DEF GoneStep, Copies
<1>4. CASE Restore(c) /\ php[c].object
  <2>1. PICK f \in Files :
           /\ Open(php[c].id, f)
           /\ Becomes(c, [php[c] EXCEPT !.pc = "wait", !.op = "reset", !.wait = f])
    BY <1>4 DEF Restore
  <2> DEFINE r == [php[c] EXCEPT !.pc = "wait", !.op = "reset", !.wait = f]
  <2>2. /\ r \in Script /\ r.item = php[c].item /\ r.fd = php[c].fd
        /\ r.session = php[c].session /\ r.snapshot = php[c].snapshot
    BY <1>1 DEF Script
  <2>3. Becomes(c, r)
    BY <2>1
  <2> HIDE DEF r
  <2>4. FilesData(c)
    BY <1>1, <1>2, <2>1, OpenData
  <2> QED
    BY <1>1, <1>2, <2>2, <2>3, <2>4, NothingGained DEF GoneStep, Copies
<1>5. CASE Restore(c) /\ ~ php[c].object
  <2> DEFINE r == [php[c] EXCEPT !.session = php[c].snapshot]
  <2>1. /\ r \in Script /\ r.item = php[c].item /\ r.fd = php[c].fd
        /\ r.session = php[c].snapshot /\ r.snapshot = php[c].snapshot
    BY <1>1 DEF Script
  <2>2. Becomes(c, r) /\ UNCHANGED <<name, file>>
    BY <1>5 DEF Restore
  <2> HIDE DEF r
  <2>3. FilesData(c)
    BY <1>2, <2>2, LocksMoveNothing
  <2> QED
    BY <1>1, <1>2, <2>1, <2>2, <2>3, NothingGained DEF GoneStep, Copies
<1> QED
  BY <1>3, <1>4, <1>5

\* A child that got the lock has a copy of that file.
LEMMA ReadsCopy ==
    ASSUME IInv, NEW c \in Children, Started(c) \/ Restored(c) \/ Renewed(c)
    PROVE  DataStep(c)
<1>1. TypeOK /\ php[c] \in Script /\ ChildInv(c)
  BY DEF IInv, TypeOK
<1>2. /\ UNCHANGED <<name, gone, unlocked, thread>> /\ issued \subseteq issued'
      /\ php[c].pc = "wait" /\ file[php[c].wait].lock = Nobody
      /\ spent'["request"] = spent["request"] /\ file' \in {Locked(c), file}
  BY <1>1, SpendsNoRequest DEF Started, Restored, Renewed, Waits, OnlyFile
<1>3. php[c].wait \in Files
  BY <1>1, <1>2 DEF ChildInv, PcIsRight, Script
<1>4. FilesData(c)
  BY <1>2, LocksMoveNothing
<1>5. CASE Renewed(c) /\ Becomes(c, Resumed(c))
  <2>1. Resumed(c) \in Script
    BY <1>1, <1>3, ReadIs
  <2>2. /\ Resumed(c).item = php[c].item /\ Resumed(c).fd = php[c].fd
        /\ Resumed(c).session = php[c].session /\ Resumed(c).snapshot = php[c].snapshot
        /\ php[c].active
    BY <1>1, <1>2 DEF Resumed, Script, ChildInv, PcIsRight
  <2> QED
    BY <1>2, <1>4, <1>5, <2>1, <2>2, NothingGained DEF GoneStep, Copies
<1>6. CASE ~ (Renewed(c) /\ Becomes(c, Resumed(c)))
  <2> DEFINE q == [Resumed(c) EXCEPT !.fd = php[c].wait, !.session = Read(c), !.snapshot = Read(c)]
             n == [Resumed(c) EXCEPT !.fd = php[c].wait, !.snapshot = Read(c)]
  <2>1. q \in Script /\ n \in Script
    BY <1>1, <1>3, ReadIs
  <2>2. Read(c) = file[php[c].wait].data
    BY DEF Read
  <2>3. /\ q.fd = php[c].wait /\ q.item = php[c].item
        /\ q.session = file[php[c].wait].data /\ q.snapshot = file[php[c].wait].data
        /\ n.fd = php[c].wait /\ n.item = php[c].item
        /\ n.session = php[c].session /\ n.snapshot = file[php[c].wait].data
    BY <1>1, <2>1, <2>2 DEF Script, Resumed
  <2>4. \/ Becomes(c, q) \/ \E s \in Sids : Becomes(c, [q EXCEPT !.pc = "remove", !.found = s])
        \/ Becomes(c, n) /\ Renewing(c)
    BY <1>6 DEF Started, Restored, Renewed, BecomesOrCollects, Expired, Renewing, Waits
  <2> HIDE DEF q, n
  <2>5. PICK r \in Script :
           /\ Becomes(c, r) /\ r.fd = php[c].wait /\ r.item = php[c].item
           /\ r.snapshot = file[php[c].wait].data
           /\ r.session = file[php[c].wait].data \/ (Renewing(c) /\ r.session = php[c].session)
    <3>1. CASE Becomes(c, q)
      BY <2>1, <2>3, <3>1
    <3>2. CASE Becomes(c, n) /\ Renewing(c)
      BY <2>1, <2>3, <3>2
    <3>3. CASE \E s \in Sids : Becomes(c, [q EXCEPT !.pc = "remove", !.found = s])
      <4>1. PICK s \in Sids : Becomes(c, [q EXCEPT !.pc = "remove", !.found = s])
        BY <3>3
      <4> DEFINE x == [q EXCEPT !.pc = "remove", !.found = s]
      <4>2. /\ x \in Script /\ x.item = q.item /\ x.fd = q.fd
            /\ x.session = q.session /\ x.snapshot = q.snapshot
        BY <2>1 DEF Script
      <4> HIDE DEF x
      <4> QED
        BY <2>3, <4>1, <4>2 DEF x
    <3> QED
      BY <2>4, <3>1, <3>2, <3>3
  <2>6. php'[c] = r /\ \A d \in Children \ {c} : php'[d] = php[d]
    BY <1>1, <2>5, BecomesIs
  <2>7. OwnCopies(c)
    BY <1>2, <2>5, <2>6 DEF OwnCopies, Copies
  <2>8. OwnItem(c)
    BY <1>2, <2>5, <2>6 DEF OwnItem
  <2> QED
    BY <1>2, <1>4, <2>6, <2>7, <2>8 DEF DataStep, GoneStep
<1> QED
  BY <1>5, <1>6

\* A write gives the child nothing.
LEMMA AfterData ==
    ASSUME IInv, NEW c \in Children, php[c].pc \in {"script", "cut"}, php[c].active,
           NEW r, Calls(c, r), NEW ok \in BOOLEAN, Becomes(c, After(r, ok)),
           UNCHANGED <<issued, gone, thread>>, spent'["request"] = spent["request"],
           FilesData(c)
    PROVE  DataStep(c)
<1> DEFINE a == After(r, ok)
<1>1. php[c].wait = NoFile /\ r \in Script
  BY DEF IInv, ChildInv, PcIsRight, Calls
<1>2. a \in Script /\ a.fd = NoFile
  BY <1>1, AfterIs DEF Calls
<1>3. /\ a.item \in {r.item, 0}
      /\ a.session \in {r.session, {}} /\ a.snapshot \in {r.snapshot, {}}
  <2>1. CASE r.op = "call"
    BY <1>1, <2>1 DEF After, Closed, Script
  <2>2. CASE r.op = "finish"
    BY <2>2 DEF After, Reset
  <2>3. CASE r.op = "renew"
    BY <1>1, <2>3 DEF After, Script
  <2> QED
    BY <2>1, <2>2, <2>3 DEF Calls
<1> HIDE DEF a
<1>4. Becomes(c, a) /\ a.item \in {php[c].item, 0} /\ a.session \cup a.snapshot \subseteq Copies(c)
  BY <1>3 DEF Calls, Copies, a
<1> QED
  BY <1>2, <1>4, NothingGained DEF GoneStep

LEMMA TouchMovesNothing ==
    ASSUME IInv, NEW c \in Children, php[c].pc = "script", php[c].active,
           NEW r, Calls(c, r), NEW kinds, "request" \notin kinds, Touch(c, r, kinds),
           UNCHANGED <<issued, gone, upload, thread>>
    PROVE  DataStep(c)
<1> DEFINE fs == {php[c].fd} \ {NoFile}
           g  == Unlocked(fs)
<1>1. TypeOK /\ Released(c) = g
  BY DEF Released, IInv
<1>2. /\ UNCHANGED <<name, unlocked>> /\ spent'["request"] = spent["request"]
      /\ Becomes(c, After(r, TRUE))
      /\ file' = [f \in Files |-> [g[f] EXCEPT !.old = @ /\ f # name[r.id]]]
  BY <1>1, SpendsNoRequest DEF Touch
<1>3. g \in [Files -> File] /\ \A f \in Files : g[f].data \subseteq file[f].data
  BY <1>1, UnlockedIs
<1> HIDE DEF g
<1>4. \A f \in Files : file'[f].data = g[f].data
  BY <1>2, <1>3 DEF File
<1>5. FilesData(c)
  BY <1>1, <1>2, <1>3, <1>4, DataMoves
<1> QED
  BY <1>2, <1>5, AfterData

LEMMA TruncateMovesNothing ==
    ASSUME IInv, NEW c \in Children, php[c].pc = "script", php[c].active,
           NEW r, Calls(c, r), NEW kinds, "request" \notin kinds, Truncate(c, r, kinds),
           UNCHANGED <<issued, gone, upload, thread>>
    PROVE  DataStep(c)
<1> DEFINE q == [r EXCEPT !.pc = "cut"]
<1>1. TypeOK /\ r \in Script
  BY DEF IInv, Calls
<1>2. /\ UNCHANGED <<name, unlocked>> /\ spent'["request"] = spent["request"] /\ Becomes(c, q)
      /\ file' = [file EXCEPT ![r.fd] = [@ EXCEPT !.data = {}, !.old = FALSE]]
  BY <1>1, SpendsNoRequest DEF Truncate
<1>3. /\ q \in Script /\ q.fd = php[c].fd /\ q.item = php[c].item
      /\ q.session = php[c].session /\ q.snapshot = php[c].snapshot
  BY <1>1 DEF Calls, Script
<1> HIDE DEF q
<1>4. \A f \in Files : file'[f].data \subseteq file[f].data
  BY <1>1, <1>2 DEF TypeOK, File
<1>5. FilesData(c)
  BY <1>1, <1>2, <1>4, DataMoves
<1> QED
  BY <1>2, <1>3, <1>5, NothingGained DEF GoneStep, Copies

LEMMA ReplaceIsUnlocked ==
    ASSUME IInv, NEW c \in Children, php[c].pc = "script", php[c].active,
           NEW r, Calls(c, r), NEW kinds, "request" \notin kinds, Replace(c, r, kinds),
           UNCHANGED <<issued, gone, upload, thread>>
    PROVE  DataStep(c)
<1>1. TypeOK /\ r \in Script /\ r.session = php[c].session
  BY DEF IInv, Calls
<1>2. spent'["request"] = spent["request"] /\ \E ok \in BOOLEAN : Becomes(c, After(r, ok))
  BY <1>1, SpendsNoRequest DEF Replace
<1>3. FilesData(c)
  <2>1. CASE UNCHANGED <<name, file, unlocked>>
    BY <2>1, LocksMoveNothing
  <2>2. CASE ~ UNCHANGED <<name, file, unlocked>>
    <3>1. PICK f \in Files :
             /\ New(f) /\ unlocked' = TRUE
             /\ file' = [file EXCEPT ![f] = [Blank EXCEPT !.data = r.session,
                                                          !.acked = r.session \ {Progress}]]
      BY <2>2 DEF Replace
    <3>2. ~ Live(f)
      BY <3>1 DEF New
    <3>3. file'[f].data = r.session /\ \A g \in Files \ {f} : file'[g] = file[g]
      BY <1>1, <3>1 DEF TypeOK, Blank
    <3> QED
      BY <1>1, <3>1, <3>2, <3>3 DEF FilesData, Gained
  <2> QED
    BY <2>1, <2>2
<1> QED
  BY <1>2, <1>3, AfterData

LEMMA SavesMoveNothing ==
    ASSUME IInv, NEW c \in Children, WriteClose(c) \/ Regenerate(c)
    PROVE  DataStep(c)
<1>1. php[c].pc = "script" /\ php[c].active /\ TypeOK /\ "request" \notin {"call"}
  BY DEF WriteClose, Regenerate, InSession, Running, IInv
<1>2. CASE WriteClose(c)
  <2> DEFINE r == [php[c] EXCEPT !.op = "call"]
  <2>1. Calls(c, r)
    BY <1>1, CallsIs
  <2>2. /\ \/ Touch(c, r, {"call"}) \/ Truncate(c, r, {"call"}) \/ Replace(c, r, {"call"})
        /\ UNCHANGED <<issued, gone, upload, thread>>
    BY <1>2 DEF WriteClose, Save
  <2> HIDE DEF r
  <2> QED
    BY <1>1, <2>1, <2>2, TouchMovesNothing, TruncateMovesNothing, ReplaceIsUnlocked
<1>3. CASE Regenerate(c)
  <2> DEFINE r == [php[c] EXCEPT !.op = "renew"]
  <2>1. Calls(c, r)
    BY <1>1, CallsIs
  <2>2. /\ Truncate(c, r, {"call"}) \/ Replace(c, r, {"call"})
        /\ UNCHANGED <<issued, gone, upload, thread>>
    BY <1>3 DEF Regenerate
  <2> HIDE DEF r
  <2> QED
    BY <1>1, <2>1, <2>2, TruncateMovesNothing, ReplaceIsUnlocked
<1> QED
  BY <1>2, <1>3

LEMMA FinishMovesNothing == ASSUME IInv, NEW c \in Children, Finish(c) PROVE DataStep(c)
<1>1. TypeOK /\ ChildInv(c) /\ php[c] \in Script /\ php[c].pc = "script"
  BY DEF IInv, TypeOK, Finish
<1>2. CASE php[c].active /\ Save(c, [php[c] EXCEPT !.op = "finish"], {})
  <2> DEFINE r == [php[c] EXCEPT !.op = "finish"]
  <2>1. Calls(c, r)
    BY <1>1, CallsIs
  <2>2. /\ Touch(c, r, {}) \/ Truncate(c, r, {}) \/ Replace(c, r, {})
        /\ UNCHANGED <<issued, gone, upload, thread>>
    BY <1>2 DEF Save
  <2> HIDE DEF r
  <2> QED
    BY <1>1, <1>2, <2>1, <2>2, TouchMovesNothing, TruncateMovesNothing, ReplaceIsUnlocked
<1>3. CASE ~ (php[c].active /\ Save(c, [php[c] EXCEPT !.op = "finish"], {}))
  <2> DEFINE r == [Reset EXCEPT !.shutdown = php[c].shutdown, !.fd = php[c].fd]
  <2>1. Becomes(c, r) /\ UNCHANGED <<name, file, issued, gone, unlocked, upload, thread, spent>>
    BY <1>3 DEF Finish, store
  <2>2. /\ r \in Script /\ ~ r.active /\ r.fd = php[c].fd
        /\ r.session = {} /\ r.snapshot = {} /\ r.item = 0
    <3>1. [Reset EXCEPT !.shutdown = php[c].shutdown, !.fd = php[c].fd] \in Script
      BY <1>1, ResetIs DEF Script
    <3> QED
      BY <3>1 DEF Reset
  <2> HIDE DEF r
  <2>3. FilesData(c)
    BY <2>1, LocksMoveNothing
  <2> QED
    BY <2>1, <2>2, <2>3, NothingGained DEF GoneStep
<1> QED
  BY <1>2, <1>3

LEMMA WriteBackWritesSession == ASSUME IInv, NEW c \in Children, WriteBack(c) PROVE DataStep(c)
<1> DEFINE f == php[c].fd
<1>1. /\ TypeOK /\ ChildInv(c) /\ php[c] \in Script /\ php[c].pc = "cut"
      /\ php[c].active /\ f \in Files /\ Calls(c, php[c])
  BY DEF IInv, TypeOK, WriteBack, ChildInv, PcIsRight, Script, Calls
<1>2. UNCHANGED <<name, issued, gone, unlocked, upload, thread>>
  BY DEF WriteBack
<1>3. PICK d \in SUBSET Items, a \in SUBSET Items, ok \in BOOLEAN :
         /\ file' = WroteTo(f, d, a) /\ d \subseteq php[c].session
         /\ Becomes(c, After(php[c], ok)) /\ spent'["request"] = spent["request"]
  <2>1. CASE file' = WroteTo(f, {}, {}) /\ Becomes(c, After(php[c], FALSE)) /\ Spend({"rare"})
    <3>1. spent'["request"] = spent["request"]
      BY <1>1, <2>1, SpendsNoRequest
    <3>2. PICK e \in SUBSET Items : e = {}
      OBVIOUS
    <3> QED
      BY <2>1, <3>1, <3>2
  <2>2. CASE /\ UNCHANGED spent /\ Becomes(c, After(php[c], TRUE))
             /\ file' = WroteTo(f, php[c].session, file[f].acked \cup (php[c].session \ {Progress}))
    <3>1. php[c].session \in SUBSET Items
          /\ file[f].acked \cup (php[c].session \ {Progress}) \in SUBSET Items
      BY <1>1 DEF Script, TypeOK, File
    <3> QED
      BY <2>2, <3>1
  <2> QED
    BY <2>1, <2>2 DEF WriteBack
<1>4. \A g \in Files : file'[g].data \subseteq file[g].data \cup (IF g = f THEN Gained(c) ELSE {})
  <2> DEFINE w == WroteTo(f, d, a)
  <2>1. /\ \A g \in Files : g # f => w[g] = file[g]
        /\ w[f].data = d \/ w[f].data = {}
    BY <1>1, WroteIs
  <2>2. file' = w /\ Gained(c) = php[c].session
    BY <1>1, <1>3 DEF Gained
  <2> HIDE DEF w
  <2> QED
    BY <1>1, <1>3, <2>1, <2>2
<1>5. FilesData(c)
  BY <1>1, <1>2, <1>4, DataMoves
<1> QED
  BY <1>1, <1>2, <1>3, <1>5, AfterData

LEMMA RenewMovesNothing == ASSUME IInv, NEW c \in Children, Renew(c) PROVE DataStep(c)
<1>1. TypeOK /\ php[c] \in Script /\ php[c].fd = NoFile
  BY DEF IInv, TypeOK, Renew, ChildInv, PcIsRight
<1>2. UNCHANGED <<issued, gone, unlocked, thread>> /\ spent'["request"] = spent["request"]
  BY <1>1, SpendsNoRequest DEF Renew
<1>3. CASE \E s \in Fresh, f \in Files :
              Open(s, f) /\ Becomes(c, [php[c] EXCEPT !.pc = "wait", !.id = s, !.wait = f])
  <2>1. PICK s \in Fresh, f \in Files :
           Open(s, f) /\ Becomes(c, [php[c] EXCEPT !.pc = "wait", !.id = s, !.wait = f])
    BY <1>3
  <2>2. s \in Sids
    BY DEF Fresh
  <2> DEFINE r == [php[c] EXCEPT !.pc = "wait", !.id = s, !.wait = f]
  <2>3. /\ r \in Script /\ r.item = php[c].item /\ r.fd = NoFile
        /\ r.session = php[c].session /\ r.snapshot = php[c].snapshot
    BY <1>1, <2>2 DEF Script
  <2>4. Becomes(c, r)
    BY <2>1
  <2> HIDE DEF r
  <2>5. FilesData(c)
    BY <1>2, <2>1, <2>2, OpenData
  <2> QED
    BY <1>1, <1>2, <2>3, <2>4, <2>5, NothingGained DEF GoneStep, Copies
<1>4. CASE /\ Becomes(c, [php[c] EXCEPT !.pc = "script", !.op = "none"])
           /\ UNCHANGED <<name, file>>
  <2> DEFINE r == [php[c] EXCEPT !.pc = "script", !.op = "none"]
  <2>1. /\ r \in Script /\ r.item = php[c].item /\ r.fd = NoFile
        /\ r.session = php[c].session /\ r.snapshot = php[c].snapshot
    BY <1>1 DEF Script
  <2>2. Becomes(c, r)
    BY <1>4
  <2> HIDE DEF r
  <2>3. FilesData(c)
    BY <1>2, <1>4, LocksMoveNothing
  <2> QED
    BY <1>1, <1>2, <2>1, <2>2, <2>3, NothingGained DEF GoneStep, Copies
<1> QED
  BY <1>3, <1>4 DEF Renew

\* The name goes, and what its file had is gone with it.
LEMMA DestroysMoveNothing ==
    ASSUME IInv, NEW c \in Children,
           Destroy(c, "destroy") \/ Destroy(c, "renew") \/ Destroyed(c)
    PROVE  DataStep(c)
<1>1. /\ TypeOK /\ php[c] \in Script /\ php[c].active /\ ChildInv(c)
      /\ php[c].id \in Sids /\ php[c].id \in issued
  BY DEF IInv, TypeOK, Destroy, Destroyed, InSession, Running, ChildInv, PcIsRight, IdIsKnown
<1>2. /\ UNCHANGED <<issued, unlocked, thread>> /\ spent'["request"] = spent["request"]
  BY <1>1, SpendsNoRequest DEF Destroy, Destroyed, OnlyFile
<1> DEFINE id  == php[c].id
           old == IF name[id] = NoFile THEN {} ELSE file[name[id]].data \ {Progress}
           Unlink == gone' = [gone EXCEPT ![id] = @ \cup old] /\ name' = [name EXCEPT ![id] = NoFile]
                     /\ file' = file
<1>3. Unlink \/ (file' = Released(c) /\ UNCHANGED <<name, gone>>)
  BY DEF Destroy, Destroyed, OnlyFile
<1>4. FilesData(c)
  <2>1. CASE Unlink
    BY <1>1, <1>2, <2>1, DataMoves DEF TypeOK
  <2>2. CASE file' = Released(c) /\ UNCHANGED <<name, gone>>
    BY <1>2, <2>2, LocksMoveNothing
  <2> QED
    BY <1>3, <2>1, <2>2
<1>5. GoneStep(c)
  <2>1. CASE Unlink
    <3>1. name[id] \in Files \cup {NoFile} /\ name'[id] = NoFile
      BY <1>1, <2>1 DEF TypeOK
    <3>2. gone'[id] = gone[id] \cup old
      BY <1>1, <2>1 DEF TypeOK
    <3>3. name[id] = NoFile => gone'[id] = gone[id]
      BY <3>2
    <3>4. \A s \in Sids \ {id} : gone'[s] = gone[s]
      BY <1>1, <2>1 DEF TypeOK
    <3> HIDE DEF id
    <3> QED
      BY <1>1, <3>1, <3>2, <3>3, <3>4 DEF GoneStep, id
  <2>2. CASE file' = Released(c) /\ UNCHANGED <<name, gone>>
    BY <2>2 DEF GoneStep
  <2> QED
    BY <1>3, <2>1, <2>2
<1>6. PICK r \in Script :
         /\ Becomes(c, r) /\ r.item = php[c].item /\ r.fd \in {php[c].fd, NoFile}
         /\ r.session \cup r.snapshot \subseteq Copies(c)
  <2>1. CASE Becomes(c, [Closed(php[c]) EXCEPT !.id = NoSid])
    <3> DEFINE q == Closed(php[c])
               r == [q EXCEPT !.id = NoSid]
    <3>1. /\ q \in Script /\ q.item = php[c].item /\ q.fd = NoFile
          /\ q.session = {} /\ q.snapshot = {}
      <4>1. q \in Script
        BY <1>1, ClosedIs
      <4> QED
        BY <1>1, <4>1 DEF Closed, Script
    <3> HIDE DEF q
    <3>2. /\ r \in Script /\ r.item = php[c].item /\ r.fd = NoFile
          /\ r.session = {} /\ r.snapshot = {}
      BY <3>1 DEF Script
    <3>3. Becomes(c, r)
      BY <2>1 DEF q
    <3> HIDE DEF r
    <3> QED
      BY <3>2, <3>3
  <2>2. CASE Becomes(c, [php[c] EXCEPT !.fd = NoFile])
    <3> DEFINE r == [php[c] EXCEPT !.fd = NoFile]
    <3>1. /\ r \in Script /\ r.item = php[c].item /\ r.fd = NoFile
          /\ r.session = php[c].session /\ r.snapshot = php[c].snapshot
      BY <1>1 DEF Script
    <3>2. Becomes(c, r)
      BY <2>2
    <3> HIDE DEF r
    <3> QED
      BY <3>1, <3>2 DEF Copies
  <2>3. CASE Becomes(c, [php[c] EXCEPT !.pc = "renew", !.fd = NoFile])
    <3> DEFINE r == [php[c] EXCEPT !.pc = "renew", !.fd = NoFile]
    <3>1. /\ r \in Script /\ r.item = php[c].item /\ r.fd = NoFile
          /\ r.session = php[c].session /\ r.snapshot = php[c].snapshot
      BY <1>1 DEF Script
    <3>2. Becomes(c, r)
      BY <2>3
    <3> HIDE DEF r
    <3> QED
      BY <3>1, <3>2 DEF Copies
  <2>4. CASE \E op \in {"destroy", "renew"} :
                Becomes(c, [php[c] EXCEPT !.pc = "unlinked", !.op = op])
    <3>1. PICK op \in {"destroy", "renew"} :
             Becomes(c, [php[c] EXCEPT !.pc = "unlinked", !.op = op])
      BY <2>4
    <3> DEFINE r == [php[c] EXCEPT !.pc = "unlinked", !.op = op]
    <3>2. /\ r \in Script /\ r.item = php[c].item /\ r.fd = php[c].fd
          /\ r.session = php[c].session /\ r.snapshot = php[c].snapshot
      BY <1>1 DEF Script
    <3>3. Becomes(c, r)
      BY <3>1
    <3> HIDE DEF r
    <3> QED
      BY <3>2, <3>3 DEF Copies
  <2> HIDE DEF Unlink
  <2>5. ASSUME NEW op \in {"destroy", "renew"}, Destroy(c, op)
        PROVE  \/ Becomes(c, [Closed(php[c]) EXCEPT !.id = NoSid])
               \/ Becomes(c, [php[c] EXCEPT !.fd = NoFile])
               \/ Becomes(c, [php[c] EXCEPT !.pc = "unlinked", !.op = op])
    BY <2>5 DEF Destroy
  <2>6. CASE Destroyed(c)
    BY <2>1, <2>3, <2>6 DEF Destroyed
  <2> QED
    BY <2>1, <2>2, <2>4, <2>5, <2>6
<1> QED
  BY <1>1, <1>2, <1>4, <1>5, <1>6, NothingGained

\* All steps of a child that do not end it.
LEMMA ChildrenMoveData ==
    ASSUME IInv, NEW c \in Children, Begin(c) \/ Operation(c) \/ Step(c)
    PROVE  DataStep(c) \/ Exit(c)
<1>1. CASE Begin(c)
  BY <1>1, BeginGetsItem
<1>2. CASE Operation(c)
  BY <1>2, OpensMoveNothing, MovesMoveNothing, AddUsesItem, EndsMoveNothing, ResetsMoveNothing,
     SavesMoveNothing, DestroysMoveNothing, FinishMovesNothing
  DEF Operation
<1>3. CASE Step(c)
  BY <1>3, ReadsCopy, EndsMoveNothing, MovesMoveNothing, WriteBackWritesSession, RenewMovesNothing,
     DestroysMoveNothing
  DEF Step
<1> QED
  BY <1>1, <1>2, <1>3
-----------------------------------------------------------------------------
(***************************************************************************)
(* The worker's thread, time, and the end of processes: files get what the *)
(* thread has to write back, and the thread what it read.                  *)
(***************************************************************************)

LEMMA OthersMoveData ==
    ASSUME IInv, GoneInv, UNCHANGED <<issued, gone, unlocked>>,
           spent'["request"] = spent["request"],
           \A c \in Children : php'[c] = php[c] \/ php'[c] = Reset,
           \A f \in Files : file'[f].data \subseteq
               file[f].data \cup (IF thread.op = "write" /\ f = thread.at THEN thread.copy ELSE {}),
           \A s \in Sids : \/ name'[s] = name[s]
                           \/ ~ Live(name'[s]) /\ name'[s] \in Files /\ file'[name'[s]].data = {},
           \/ thread' = thread
           \/ thread'.op # "write" /\ thread'.copy = {}
           \/ /\ thread'.at = thread.at /\ thread.at \in Files
              /\ thread'.copy \subseteq file[thread.at].data \cup {Progress}
    PROVE  GoneInv'
<1> USE DEF GoneInv
<1>1. /\ TypeOK /\ Reset.item = 0 /\ Reset.fd = NoFile /\ ~ Reset.active
      /\ Reset.session = {} /\ Reset.snapshot = {}
  BY DEF IInv, Reset
<1>2. ASSUME NEW i, Seen(i)' PROVE Seen(i) \/ i = Progress
  <2>1. CASE \E f \in Files : i \in file'[f].data
    BY <2>1 DEF Seen
  <2>2. CASE \E c \in Children : i \in Copies(c)'
    BY <1>1, <2>2 DEF Seen, Copies
  <2>3. CASE i \in thread'.copy
    BY <2>3 DEF Seen
  <2> QED
    BY <1>2, <2>1, <2>2, <2>3 DEF Seen
<1>3. ItemsAreNew'
  <2>1. /\ \A c \in Children : php'[c].item \in {php[c].item, 0}
        /\ spent["request"] \in Nat /\ 0 <= spent["request"] + 1
    BY <1>1 DEF TypeOK, Kinds
  <2>2. \A i \in Items : Seen(i)' =>
            i <= spent'["request"] + 1 /\ \A c \in Children : php'[c].item = i => i = 0
    BY <1>2, <2>1 DEF ItemsAreNew, Progress
  <2>3. \A c \in Children :
           /\ php'[c].item <= spent'["request"] + 1
           /\ \A d \in Children \ {c} : php'[d].item = php'[c].item => php'[c].item = 0
    BY <2>1 DEF ItemsAreNew
  <2> QED
    BY <2>2, <2>3 DEF ItemsAreNew
<1>4. OnlyKnownAreGone'
  BY DEF OnlyKnownAreGone
<1>5. ASSUME ~ unlocked', NEW s \in Sids PROVE NoneReturns(s)'
  <2>1. ~ unlocked /\ NoneReturns(s) /\ Progress \notin gone[s] /\ gone'[s] = gone[s]
    BY <1>5 DEF OnlyKnownAreGone
  <2>2. thread.op = "write" => thread.at # NoFile
    BY DEF IInv, ThreadIsRight
  <2>3. NoFile \notin Files
    BY DEF NoFile, Files
  <2>4. CASE name'[s] = name[s] /\ name[s] # NoFile
    <3>1. name[s] \in Files
      BY <1>1, <2>4 DEF TypeOK
    <3>2. file'[name[s]].data \cap gone[s] = {}
      BY <2>1, <2>4, <3>1 DEF NoneReturns
    <3>3. \A c \in Children : php'[c].active /\ php'[c].fd # NoFile /\ php'[c].fd = name[s] =>
             Copies(c)' \cap gone[s] = {}
      BY <1>1, <2>1 DEF NoneReturns, Copies
    <3>4. thread'.op = "write" /\ thread'.at = name[s] => thread'.copy \cap gone[s] = {}
      BY <2>1, <2>4 DEF NoneReturns
    <3> QED
      BY <2>1, <2>4, <3>2, <3>3, <3>4 DEF NoneReturns
  <2>5. CASE name'[s] = NoFile
    <3>1. thread'.op = "write" => thread'.at # NoFile
      BY <2>2, <2>3
    <3> QED
      BY <2>5, <3>1 DEF NoneReturns
  <2>6. CASE ~ Live(name'[s]) /\ name'[s] \in Files /\ file'[name'[s]].data = {}
    <3>1. thread.at # name'[s] /\ \A c \in Children : php[c].fd # name'[s]
      BY <2>6 DEF Live
    <3>2. \A c \in Children : php'[c].fd # name'[s] \/ php'[c].fd = NoFile
      BY <1>1, <3>1
    <3>3. thread'.op = "write" /\ thread'.at = name'[s] => thread'.copy \cap gone[s] = {}
      BY <3>1
    <3> QED
      BY <2>1, <2>6, <3>2, <3>3 DEF NoneReturns
  <2> QED
    BY <2>4, <2>5, <2>6
<1> QED
  BY <1>3, <1>4, <1>5

LEMMA ThreadMovesData ==
    ASSUME IInv, GoneInv, Draining \/ \E s \in issued : Arrive(s) PROVE GoneInv'
<1>1. TypeOK /\ ThreadIsRight
  BY DEF IInv
<1>2. Idle.op # "write" /\ Idle.copy = {}
  BY DEF Idle
<1>3. CASE Update \/ Complete
  <2>1. upload.sid \in Sids
    BY <1>1, <1>3 DEF Update, Complete, ThreadIsRight, TypeOK
  <2>2. PICK f \in Files, op \in {"update", "complete"} :
           Open(upload.sid, f) /\ thread' = [Idle EXCEPT !.op = op, !.at = f]
    BY <1>3 DEF Update, Complete
  <2>3. thread'.op # "write" /\ thread'.copy = {}
    BY <2>2 DEF Idle
  <2>4. UNCHANGED <<issued, gone, unlocked, php, spent>>
    BY <1>3 DEF Update, Complete
  <2>5. /\ \A g \in Files : file'[g] = file[g] \/ (g = f /\ ~ Live(f) /\ file'[f] = Blank)
        /\ \A t \in Sids : name'[t] = name[t] \/ (t = upload.sid /\ name'[t] = f)
        /\ ~ Live(f) => file'[f] = Blank
        /\ f = name[upload.sid] \/ ~ Live(f)
    BY <2>1, <2>2, OpenIs
  <2>6. Blank.data = {}
    BY <1>1, BlankIsFile
  <2>7. \A s \in Sids : \/ name'[s] = name[s]
                        \/ ~ Live(name'[s]) /\ name'[s] \in Files /\ file'[name'[s]].data = {}
    BY <2>5, <2>6
  <2>8. \A g \in Files : file'[g].data \subseteq file[g].data
    BY <2>5, <2>6
  <2> QED
    BY <2>3, <2>4, <2>7, <2>8, OthersMoveData
<1>4. CASE Rewrite
  <2>1. thread.at \in Files /\ UNCHANGED <<name, issued, gone, unlocked, php, spent>>
    BY <1>1, <1>4 DEF Rewrite, ThreadIsRight, TypeOK
  <2>2. /\ thread'.at = thread.at
        /\ thread'.copy \subseteq file[thread.at].data \cup {Progress}
    BY <1>1, <1>4 DEF Rewrite, TypeOK
  <2>3. \A f \in Files : file'[f].data \subseteq file[f].data
    BY <1>1, <1>4, <2>1 DEF Rewrite, TypeOK, File
  <2> QED
    BY <2>1, <2>2, <2>3, OthersMoveData
<1>5. CASE Rewritten
  <2>1. /\ thread.at \in Files /\ thread.op = "write" /\ thread' = Idle
        /\ UNCHANGED <<name, issued, gone, unlocked, php>> /\ spent'["request"] = spent["request"]
    BY <1>1, <1>5, SpendsNoRequest DEF Rewritten, ThreadIsRight, TypeOK
  <2>2. PICK d \in SUBSET Items, a \in SUBSET Items :
           file' = WroteTo(thread.at, d, a) /\ d \subseteq thread.copy
    <3>1. CASE file' = WroteTo(thread.at, {}, {})
      <4>1. PICK e \in SUBSET Items : e = {}
        OBVIOUS
      <4> QED
        BY <3>1, <4>1
    <3>2. CASE file' = WroteTo(thread.at, thread.copy, file[thread.at].acked)
      BY <1>1, <2>1, <3>2 DEF TypeOK, File
    <3> QED
      BY <1>5, <3>1, <3>2 DEF Rewritten
  <2>3. \A f \in Files : file'[f].data \subseteq
            file[f].data \cup (IF thread.op = "write" /\ f = thread.at THEN thread.copy ELSE {})
    <3> DEFINE w == WroteTo(thread.at, d, a)
    <3>1. /\ \A f \in Files : f # thread.at => w[f] = file[f]
          /\ w[thread.at].data = d \/ w[thread.at].data = {}
      BY <1>1, <2>1, WroteIs
    <3>2. file' = w
      BY <2>2
    <3> HIDE DEF w
    <3> QED
      BY <2>1, <2>2, <3>1, <3>2
  <2> QED
    BY <1>2, <2>1, <2>3, OthersMoveData
<1>6. CASE Abandon \/ \E s \in issued : Arrive(s)
  <2>1. /\ UNCHANGED <<name, file, issued, gone, unlocked, php, thread>>
        /\ spent'["request"] = spent["request"]
    BY <1>1, <1>6 DEF Abandon, Arrive, store, TypeOK, Kinds
  <2> QED
    BY <2>1, OthersMoveData
<1> QED
  BY <1>3, <1>4, <1>5, <1>6 DEF Draining

LEMMA DeathsMoveData ==
    ASSUME IInv, GoneInv, KillWorker \/ \E c \in Children : Exit(c) \/ Kill(c) PROVE GoneInv'
<1>1. TypeOK /\ Idle.op # "write" /\ Idle.copy = {}
  BY DEF IInv, Idle
<1>2. /\ thread' \in {thread, Idle} /\ spent'["request"] = spent["request"]
      /\ \E ws \in SUBSET (Children \cup {Worker}) : Ends(ws)
  BY <1>1, SpendsNoRequest DEF KillWorker, Exit, Kill
<1>3. PICK ws \in SUBSET (Children \cup {Worker}) : Ends(ws)
  BY <1>2
<1>4. /\ UNCHANGED <<name, issued, gone, unlocked>>
      /\ \A c \in Children : php'[c] = php[c] \/ php'[c] = Reset
  BY <1>3 DEF Ends
<1>5. ASSUME NEW f \in Files PROVE file'[f].data \subseteq file[f].data
  <2> DEFINE u == Unlocked({f})
             v == Unlocked(UNION {Held(w) : w \in ws})
  <2>1. file'[f] = [u[f] EXCEPT !.acked = {}] \/ file'[f] = v[f]
    BY <1>3 DEF Ends
  <2>2. /\ u \in [Files -> File] /\ u[f].data \subseteq file[f].data
        /\ v[f].data \subseteq file[f].data
    BY <1>1, UnlockedIs
  <2> HIDE DEF u, v
  <2> QED
    BY <2>1, <2>2 DEF File
<1> QED
  BY <1>1, <1>2, <1>4, <1>5, OthersMoveData
-----------------------------------------------------------------------------
(***************************************************************************)
(* The second invariant holds.                                             *)
(***************************************************************************)

LEMMA InitGone == Init => GoneInv
<1> SUFFICES ASSUME Init PROVE GoneInv
  OBVIOUS
<1>1. /\ Reset.item = 0 /\ Reset.fd = NoFile /\ ~ Reset.active
      /\ Reset.session = {} /\ Reset.snapshot = {}
      /\ Idle.op # "write" /\ Idle.copy = {}
  BY DEF Reset, Idle
<1>2. /\ \A c \in Children : php[c] = Reset
      /\ thread = Idle /\ \A s \in Sids : gone[s] = {}
      /\ spent["request"] = 0
      /\ \A f \in Files : file[f].data \subseteq {Seed}
  BY DEF Init, Kinds, Blank
<1>3. ItemsAreNew
  <2>1. \A i \in Items : Seen(i) => i = 1
    BY <1>1, <1>2 DEF Seen, Copies, Seed
  <2> QED
    BY <1>1, <1>2, <2>1 DEF ItemsAreNew
<1>4. OnlyKnownAreGone /\ \A s \in Sids : NoneReturns(s)
  BY <1>1, <1>2 DEF OnlyKnownAreGone, NoneReturns
<1> QED
  BY <1>3, <1>4 DEF GoneInv

LEMMA NextPreservesGone == IInv /\ GoneInv /\ [Next]_vars => GoneInv'
<1> SUFFICES ASSUME IInv, GoneInv, [Next]_vars PROVE GoneInv'
  OBVIOUS
<1>1. TypeOK /\ TypeOK'
  BY NextPreserves DEF IInv
<1>2. ASSUME NEW c \in Children, Begin(c) \/ Operation(c) \/ Step(c) PROVE GoneInv'
  BY <1>1, <1>2, ChildrenMoveData, DataStepKeeps, DeathsMoveData
<1>3. CASE KillWorker \/ \E c \in Children : Kill(c)
  BY <1>3, DeathsMoveData
<1>4. CASE Draining \/ \E s \in issued : Arrive(s)
  BY <1>4, ThreadMovesData
<1>5. ASSUME NEW g \in Files, Age(g) PROVE GoneInv'
  <2>1. /\ UNCHANGED <<name, issued, gone, unlocked, php, thread>>
        /\ spent'["request"] = spent["request"]
    BY <1>1, <1>5, SpendsNoRequest DEF Age
  <2>2. \A f \in Files : file'[f].data = file[f].data
    BY <1>1, <1>5 DEF Age, TypeOK, File
  <2> QED
    BY <2>1, <2>2, OthersMoveData
<1>6. CASE UNCHANGED vars
  <2>1. UNCHANGED <<name, file, issued, gone, unlocked, php, upload, thread, spent>>
    BY <1>6 DEF vars, store
  <2> QED
    BY <2>1, OthersMoveData
<1> QED
  BY <1>2, <1>3, <1>4, <1>5, <1>6 DEF Next

\* What was in a session's file when it was destroyed is never in a file of
\* that name again, unless a session was written without a descriptor
\* (elephc_web_session_destroy takes the name first and the lock after it, so
\* whoever waits for the file has it without a name).
THEOREM DestroyedIsGone == Spec => []DestroyedStaysGone
<1>1. GoneInv => DestroyedStaysGone
  BY DEF GoneInv, NoneReturns, DestroyedStaysGone
<1>2. Spec => []GoneInv
  BY Inductive, InitGone, NextPreservesGone, PTL DEF Spec
<1> QED
  BY <1>1, <1>2, PTL
=============================================================================
