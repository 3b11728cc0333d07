--------------------------- MODULE CycleCollector ---------------------------
(***************************************************************************)
(* The memory runtime that elephc emits into every program                 *)
(* (src/codegen_support/runtime): reference counts, the cascade that frees *)
(* an object and what it alone owned, and the collector of garbage cycles, *)
(* all three of which call PHP destructors in the middle of their work.    *)
(* A destructor is any PHP code: it allocates, links and unlinks objects,  *)
(* makes its own object reachable again, throws, or asks for a collection. *)
(*                                                                         *)
(* $o->f = $x releases the old value of f while f still refers to it, and  *)
(* the destructors that run then find it there.  Meddling says whether     *)
(* they do anything with it, or throw: what is proved is proved of         *)
(* programs whose destructors do not.                                      *)
(*                                                                         *)
(* The program's variables are the properties of one object, Root, that    *)
(* the main program holds throughout.  There is one thread: the stack says *)
(* which destructor, free or collection is running on whose behalf.        *)
(***************************************************************************)
EXTENDS Naturals, FiniteSets, Sequences, SequencesExt, FiniteSetsExt

CONSTANTS Objects,   \* blocks of the heap that hold the program's objects
          Root, None,
          MaxFields, \* properties of an object
          Meddling   \* destructors that an overwrite runs use the property, or throw

ASSUME CollectorAssumption ==
    /\ Root \notin Objects /\ None \notin Objects \cup {Root}
    /\ MaxFields \in Nat \ {0}
    /\ IsFiniteSet(Objects)
    /\ Meddling \in BOOLEAN

Nodes  == Objects \cup {Root}
Fields == 1 .. MaxFields

VARIABLES
    heap,      \* per block: in use, owners, destructor running (count bit 31),
               \* destructor called (kind bit 14), pinned (kind bit 18), class has
               \* a destructor, properties; and, ghost, how often it was called
    stack,     \* what runs: destructors, frees, stores, the collection; the last on top
    thrown     \* the exception in flight in the code on top

vars == <<heap, stack, thrown>>

Block(live, rc, dtor) ==
    [live |-> live, rc |-> rc, running |-> FALSE, called |-> FALSE, pin |-> FALSE,
     dtor |-> dtor, slot |-> [f \in Fields |-> None], calls |-> 0]
Free == Block(FALSE, 0, FALSE)

\* kind: "destructor" of n; "free" of n before and "release" after its destructor, with
\* the properties still to release; "collect" with the objects still to destruct; "store",
\* with the object it has still to write into, the property, and the value.
Frame(kind, n, todo) ==
    [kind |-> kind, n |-> n, todo |-> todo, exc |-> None, into |-> None, prop |-> 0, val |-> None]
StoreFrame(o, f, x) ==
    [Frame("store", None, {}) EXCEPT !.into = o, !.prop = f, !.val = x]

Top         == Last(stack)
On(kind)    == stack # <<>> /\ Top.kind = kind
Collecting  == \E i \in DOMAIN stack : stack[i].kind = "collect"
Suppressed  == \E i \in DOMAIN stack : stack[i].kind # "destructor"

-----------------------------------------------------------------------------
(* Reference counts and the free cascade.                                  *)

Retain(h, n) == IF n = None THEN h ELSE [h EXCEPT ![n].rc = @ + 1]

\* object_free_deep up to its property walk: the destructor runs first, unless it was
\* called before; without one the block is sealed (bit 31) and dismantled.
BeginFree(h, st, n) ==
    LET runs == h[n].dtor /\ ~h[n].called
    IN  /\ heap' = [h EXCEPT ![n].running = TRUE, ![n].called = TRUE,
                             ![n].calls = IF runs THEN @ + 1 ELSE @]
        /\ stack' = IF runs THEN Append(Append(st, Frame("free", n, {})), Frame("destructor", n, {}))
                    ELSE Append(st, Frame("release", n, Fields))

\* One owner of n gives up: the last one starts the free. A block already freed is
\* ignored, and so is one whose count word still has bit 31. A count that falls below
\* zero, where the code would borrow from bit 31, ends what is modelled.
Release(h, st, n) ==
    IF n = None \/ ~h[n].live THEN heap' = h /\ stack' = st
    ELSE LET g == [h EXCEPT ![n].rc = @ - 1]
         IN  IF g[n].rc = 0 /\ ~g[n].running THEN BeginFree(g, st, n)
             ELSE heap' = g /\ stack' = st

\* A free or a collection is over: what a destructor threw on its behalf goes on, into
\* the PHP code below or, parked again, into the free that caused this one.
Leave(st, exc) ==
    LET lands == exc # None /\ (st = <<>> \/ Last(st).kind = "destructor")
    IN  /\ thrown' = IF lands THEN exc ELSE None
        /\ stack' = IF exc = None \/ lands THEN st
                    ELSE [st EXCEPT ![Len(st)].exc = exc]

-----------------------------------------------------------------------------
(* PHP code: the main program or the destructor on top of the stack.       *)

\* The blocks that can be reached from some of them: the least set that has these and
\* whatever its members refer to.
Reach(from, edges) ==
    LET closed == {S \in {from \cup T : T \in SUBSET (Nodes \ from)} :
                          \A m \in S : edges[m] \subseteq S}
    IN  {n \in Nodes : \A S \in closed : n \in S}
Edges == [n \in Nodes |-> Range(heap[n].slot) \ {None}]

\* The properties of n that are being overwritten, and the ones PHP code looks at.
Storing    == {i \in DOMAIN stack : stack[i].into # None}
Pending(n) == {stack[i].prop : i \in {j \in DOMAIN stack : stack[j].into = n}}
Touched(n) == {f \in Fields : Meddling \/ f \notin Pending(n)}

InPhp  == stack = <<>> \/ On("destructor")
Runs   == InPhp /\ thrown = None
This   == IF stack = <<>> THEN {} ELSE {Top.n}
Seen   == Reach({Root} \cup This,
                [n \in Nodes |-> {heap[n].slot[f] : f \in Touched(n)} \ {None}])

New(o, f, dtor) ==
    /\ Runs /\ o \in Seen /\ heap[o].slot[f] = None /\ f \in Touched(o)
    /\ \E n \in Objects :
           /\ ~heap[n].live
           /\ heap' = [heap EXCEPT ![n] = Block(TRUE, 1, dtor), ![o].slot[f] = n]
    /\ UNCHANGED <<stack, thrown>>

\* $o->f = $x, where f holds nothing.
Link(o, f, x) ==
    /\ Runs /\ {o, x} \subseteq Seen /\ x # Root
    /\ heap[o].slot[f] = None /\ f \in Touched(o)
    /\ heap' = [Retain(heap, x) EXCEPT ![o].slot[f] = x]
    /\ UNCHANGED <<stack, thrown>>

\* $o->f = $x or $o->f = null, where f holds a value: $x gains an owner, the old value loses
\* one, and only then is it replaced.  Something holds the receiver meanwhile: a local
\* variable, $this, or the lease of the write.
\* Mutant: nothing does.
MutAssign(o, f, x) ==
    /\ Runs /\ o \in Seen /\ x \in (Seen \ {Root}) \cup {None}
    /\ heap[o].slot[f] # None /\ f \in Touched(o)
    /\ Release(Retain(heap, x), Append(stack, StoreFrame(o, f, x)), heap[o].slot[f])
    /\ UNCHANGED thrown
Assign(o, f, x) ==
    /\ Runs /\ o \in Seen /\ x \in (Seen \ {Root}) \cup {None}
    /\ heap[o].slot[f] # None /\ f \in Touched(o)
    /\ Release(Retain(Retain(heap, x), o), Append(stack, StoreFrame(o, f, x)), heap[o].slot[f])
    /\ UNCHANGED thrown

\* unset($o->f): the property is empty before its value is released.
Unlink(o, f) ==
    /\ Runs /\ o \in Seen /\ heap[o].slot[f] # None /\ f \in Touched(o)
    /\ Release([heap EXCEPT ![o].slot[f] = None], stack, heap[o].slot[f])
    /\ UNCHANGED thrown

\* Bound: one exception at a time, so exceptions are never chained.
Throw(x) ==
    /\ Runs /\ stack # <<>> /\ x \in Seen \ {Root}
    /\ \A i \in DOMAIN stack : stack[i].exc = None
    /\ Meddling \/ Storing = {}
    /\ heap' = Retain(heap, x) /\ thrown' = x
    /\ UNCHANGED stack

Catch ==
    /\ InPhp /\ thrown # None
    /\ thrown' = None
    /\ Release(heap, stack, thrown)

\* The destructor returns, or what it threw leaves it: its caller parks the exception.
\* The collector clears bit 31 again, a free still has to look at it.
Return ==
    /\ On("destructor")
    /\ LET st == Front(stack) IN
       /\ stack' = IF thrown = None THEN st ELSE [st EXCEPT ![Len(st)].exc = thrown]
       /\ heap' = IF Last(st).kind = "collect"
                  THEN [heap EXCEPT ![Top.n].running = FALSE] ELSE heap
    /\ thrown' = None

\* The rest of an assignment: the new value goes in, unless the release threw (then its
\* owner is lost), and the receiver is let go.
Store ==
    /\ On("store") /\ Top.into # None
    /\ Release(IF Top.exc # None THEN heap
               ELSE [heap EXCEPT ![Top.into].slot[Top.prop] = Top.val],
               [stack EXCEPT ![Len(stack)].into = None, ![Len(stack)].val = None],
               Top.into)
    /\ UNCHANGED thrown

Stored ==
    /\ On("store") /\ Top.into = None
    /\ Leave(Front(stack), Top.exc)
    /\ UNCHANGED heap

-----------------------------------------------------------------------------
(* The free of one object, after its destructor.                           *)

\* The destructor left owners behind: the object lives on, its destructor done.
\* Mutant: the destructor will be called again.
MutResurrect ==
    /\ On("free") /\ heap[Top.n].rc > 0
    /\ heap' = [heap EXCEPT ![Top.n].running = FALSE, ![Top.n].called = FALSE]
    /\ Leave(Front(stack), Top.exc)
Resurrect ==
    /\ On("free") /\ heap[Top.n].rc > 0
    /\ heap' = [heap EXCEPT ![Top.n].running = FALSE]
    /\ Leave(Front(stack), Top.exc)

Dismantle ==
    /\ On("free") /\ heap[Top.n].rc = 0
    /\ stack' = [stack EXCEPT ![Len(stack)].kind = "release", ![Len(stack)].todo = Fields]
    /\ UNCHANGED <<heap, thrown>>

\* Properties go in order; a slot keeps its pointer after its value is released.
ReleaseProperty ==
    /\ On("release") /\ Top.todo # {}
    /\ LET f == Min(Top.todo) IN
       Release(heap, [stack EXCEPT ![Len(stack)].todo = @ \ {f}], heap[Top.n].slot[f])
    /\ UNCHANGED thrown

FreeBlock ==
    /\ On("release") /\ Top.todo = {}
    /\ heap' = [heap EXCEPT ![Top.n] = Free]
    /\ Leave(Front(stack), Top.exc)

-----------------------------------------------------------------------------
(* The collector.                                                          *)

Live == {n \in Nodes : heap[n].live}

\* Owners that are properties of live objects, and the blocks with an owner that is not:
\* a variable of the program, an exception in flight, or bit 31. A pin is not an owner.
\* All objects are of heap kind 4: a compact Throwable (kind 6) is no node of the graph.
Incoming(n) == Cardinality({e \in Live \X Fields : heap[e[1]].slot[e[2]] = n})
\* Mutant: a pin is taken for an owner.
MutAnchored == {n \in Live : heap[n].running \/ heap[n].rc > Incoming(n)}
Anchored    == {n \in Live : \/ heap[n].running
                             \/ heap[n].rc > Incoming(n) + (IF heap[n].pin THEN 1 ELSE 0)}
Unmarked    == Live \ Reach(Anchored, Edges)

\* Mutant: an object that was pinned in an earlier round is looked at again.
MutNeedDestructor == Unmarked
NeedDestructor == {n \in Unmarked : ~heap[n].pin /\ ~heap[n].called}

\* A collection asked for during a free or during a collection does nothing.
Collect ==
    /\ Runs /\ ~Collecting /\ ~Suppressed
    /\ stack' = Append(stack, Frame("collect", None, {}))
    /\ UNCHANGED <<heap, thrown>>

\* Some unmarked object has its destructor to come: all of them are pinned first, so that
\* no destructor can free what another one still uses.
Pin ==
    /\ On("collect") /\ Top.todo = {} /\ NeedDestructor # {}
    /\ LET chunk == {n \in Unmarked : ~heap[n].pin} IN
       /\ heap' = [n \in Nodes |-> IF n \in chunk
                                   THEN [heap[n] EXCEPT !.pin = TRUE, !.rc = @ + 1]
                                   ELSE heap[n]]
       /\ stack' = [stack EXCEPT ![Len(stack)].todo = NeedDestructor]
    /\ UNCHANGED thrown

\* One destructor of the chunk, in the order of addresses; after the last one the graph
\* is counted again.
Destruct(n) ==
    /\ On("collect") /\ n \in Top.todo
    /\ LET st == [stack EXCEPT ![Len(stack)].todo = @ \ {n}]
           runs == heap[n].dtor /\ ~heap[n].called
       IN /\ heap' = [heap EXCEPT ![n].called = TRUE, ![n].running = runs,
                                  ![n].calls = IF runs THEN @ + 1 ELSE @]
          /\ stack' = IF runs THEN Append(st, Frame("destructor", n, {})) ELSE st
    /\ UNCHANGED thrown

\* Every unmarked object has had its destructor. Pins of the marked ones are taken back;
\* the others are freed without PHP code: their edges to each other are skipped, those
\* to marked objects released. A marked object keeps an owner, so nothing cascades.
\* Mutant: what an edge to a marked object owned is not released.
MutSweep ==
    /\ On("collect") /\ Top.todo = {} /\ NeedDestructor = {}
    /\ heap' = [n \in Nodes |->
          IF n \in Unmarked THEN Free
          ELSE [heap[n] EXCEPT !.pin = FALSE, !.rc = @ - (IF heap[n].pin THEN 1 ELSE 0)]]
    /\ Leave(Front(stack), Top.exc)
Sweep ==
    /\ On("collect") /\ Top.todo = {} /\ NeedDestructor = {}
    /\ LET drops(n) == Cardinality({e \in Unmarked \X Fields : heap[e[1]].slot[e[2]] = n})
       IN heap' = [n \in Nodes |->
              IF n \in Unmarked THEN Free
              ELSE [heap[n] EXCEPT !.pin = FALSE,
                                   !.rc = @ - drops(n) - (IF heap[n].pin THEN 1 ELSE 0)]]
    /\ Leave(Front(stack), Top.exc)

-----------------------------------------------------------------------------
Init ==
    /\ heap = [n \in Nodes |-> IF n = Root THEN Block(TRUE, 1, FALSE) ELSE Free]
    /\ stack = <<>>
    /\ thrown = None

Php == \/ \E o \in Nodes, f \in Fields, dtor \in BOOLEAN : New(o, f, dtor)
       \/ \E o, x \in Nodes, f \in Fields : Link(o, f, x)
       \/ \E o \in Nodes, x \in Nodes \cup {None}, f \in Fields : Assign(o, f, x)
       \/ \E o \in Nodes, f \in Fields : Unlink(o, f)
       \/ \E x \in Nodes : Throw(x)
       \/ Catch
       \/ Collect
Runtime == \/ Resurrect \/ Dismantle \/ ReleaseProperty \/ FreeBlock
           \/ Store \/ Stored
           \/ Pin \/ Sweep
           \/ \E n \in Nodes : Destruct(n)

Next == Php \/ Return \/ Runtime
Spec == Init /\ [][Next]_vars

\* The runtime goes on by itself, and a destructor that runs returns in the end: strong, as
\* the releases and stores of its own assignments keep it from returning in between.
FairSpec == Spec /\ WF_vars(Runtime) /\ SF_vars(Return)

-----------------------------------------------------------------------------
(* Properties.                                                             *)

Flying  == {thrown} \cup {stack[i].exc : i \in DOMAIN stack}
InUse   == ({Root} \cup Flying \cup {stack[i].n : i \in DOMAIN stack}
                   \cup {stack[i].into : i \in DOMAIN stack} \cup {stack[i].val : i \in DOMAIN stack}
                   \cup UNION {stack[i].todo \cap Nodes :
                                   i \in {j \in DOMAIN stack : stack[j].kind = "collect"}}) \ {None}

\* The properties of n that no free or assignment has released yet.
Owned(n) == {f \in Fields \ Pending(n) : \A i \in DOMAIN stack :
                                stack[i].kind = "release" /\ stack[i].n = n => f \in stack[i].todo}

TypeOK ==
    /\ heap \in [Nodes -> [live : BOOLEAN, rc : Nat,
                           running : BOOLEAN, called : BOOLEAN, pin : BOOLEAN, dtor : BOOLEAN,
                           slot : [Fields -> Nodes \cup {None}], calls : {0, 1}]]
    /\ \A i \in DOMAIN stack :
           stack[i].kind \in {"destructor", "free", "release", "collect", "store"}
    /\ thrown \in Nodes \cup {None}

\* No step frees what can still be used: whatever can be reached from the program's
\* variables, from an object whose destructor or free is running, from an exception, from
\* either side of an assignment, or from an object whose destructor the collector still has
\* to call, is in use (object_free_deep.rs, gc_collect_cycles.rs: the sweep).
ReachableIsAlive ==
    \A n \in Reach(InUse, [m \in Nodes |-> {heap[m].slot[f] : f \in Owned(m)} \ {None}]) :
        heap[n].live

\* An owner count is exactly what owns the block, between any two steps of a cascade: the
\* properties that refer to it, the exceptions and assignments that hold it, the main
\* program's hold on Root, and the pin of a collection that is still running. One too few
\* is a use after free to come, one too many a block that is never freed.
CountsAreExact ==
    /\ TypeOK
    /\ \A n \in Live : heap[n].rc =
         Cardinality({e \in Live \X Fields : e[2] \in Owned(e[1]) /\ heap[e[1]].slot[e[2]] = n})
         + Cardinality({i \in DOMAIN stack : stack[i].exc = n})
         + Cardinality({i \in DOMAIN stack : stack[i].into = n})
         + Cardinality({i \in DOMAIN stack : stack[i].val = n})
         + (IF thrown = n THEN 1 ELSE 0) + (IF n = Root THEN 1 ELSE 0)
         + (IF heap[n].pin /\ Collecting THEN 1 ELSE 0)

\* An object is freed only after its destructor was called, and it is called once: on the
\* last release, or by the collector, and not again when it made the object live on.
DestructedOnce ==
    [][\A n \in Objects :
           (heap[n].live /\ ~heap'[n].live) => heap[n].calls = IF heap[n].dtor THEN 1 ELSE 0]_vars

Usable == Reach({Root, thrown} \ {None}, Edges)

\* When a collection is over nothing unreachable is left: not the garbage it started with,
\* nor what its destructors made (gc_collect_cycles.rs: counts, roots, mark, sweep).
NothingIsLeft ==
    [][(Collecting /\ stack' = <<>>) => Live' \subseteq Usable']_vars

\* A collection ends, whatever its destructors do and throw, unless they go on allocating:
\* each round of destructors is followed by another count, and new garbage by a new round.
CollectionEnds ==
    []<>~Collecting \/ []<><<\E n \in Objects : ~heap[n].live /\ heap'[n].live>>_vars
=============================================================================
