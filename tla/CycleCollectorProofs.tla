---------------------- MODULE CycleCollectorProofs ----------------------
(***************************************************************************)
(* Proofs about CycleCollector, for any number of objects and properties   *)
(* and programs of any length whose destructors, when the overwriting of a *)
(* property runs them, do not touch that property and do not throw         *)
(* (~Meddling; without it the counts are not exact, and blocks in use are  *)
(* freed): owner counts are exact (CountsAreExact), nothing that can still *)
(* be used is freed (ReachableIsAlive), a destructor is called once        *)
(* (DestructedOnce), and a collection leaves no garbage (NothingIsLeft).   *)
(*                                                                         *)
(* The invariant is stated of a heap h, a stack st and an exception th, and*)
(* of a block x that has one owner too many in its count: the state of the *)
(* machine between the moment a reference is given up and the moment       *)
(* Release has looked at the block it referred to.                         *)
(***************************************************************************)
EXTENDS CycleCollector, SequenceTheorems, FiniteSetTheorems, WellFoundedInduction, TLAPS

BlockType ==
    [live : BOOLEAN, rc : Nat, running : BOOLEAN, called : BOOLEAN, pin : BOOLEAN,
     dtor : BOOLEAN, slot : [Fields -> Nodes \cup {None}], calls : {0, 1}]
FrameType ==
    [kind : {"destructor", "free", "release", "collect", "store"}, n : Objects \cup {None},
     todo : SUBSET (Objects \cup Fields), exc : Objects \cup {None},
     into : Nodes \cup {None}, prop : Fields \cup {0}, val : Objects \cup {None}]
Types(h, st, th) ==
    /\ h \in [Nodes -> BlockType]
    /\ st \in Seq(FrameType)
    /\ th \in Objects \cup {None}

\* What lies on what: a destructor on the free or the collection that called it, the
\* collection at the bottom, nothing but a destructor on a free or a collection, and an
\* assignment on the code that makes it.
FrameIsRight(st, i) ==
    /\ st[i].kind = "collect" => i = 1 /\ st[i].n = None /\ st[i].todo \subseteq Objects
    /\ st[i].kind \notin {"collect", "store"} => st[i].n \in Objects
    /\ st[i].kind = "store" => st[i].n = None /\ (i > 1 => st[i - 1].kind = "destructor")
    /\ st[i].kind # "store" => st[i].into = None
    /\ st[i].into = None => st[i].val = None
    /\ st[i].into # None => st[i].prop \in Fields
    /\ st[i].kind = "release" => st[i].todo \subseteq Fields
    /\ st[i].kind = "destructor" =>
           i > 1 /\ (st[i - 1].kind = "collect" \/ (st[i - 1].kind = "free" /\ st[i - 1].n = st[i].n))
    /\ (i < Len(st) /\ st[i].kind \in {"free", "collect"}) => st[i + 1].kind = "destructor"
Shape(st) == \A i \in 1 .. Len(st) : FrameIsRight(st, i)

\* A block is worked on once: only a free and its own destructor share one.
Apart(st) ==
    \A i, j \in 1 .. Len(st) :
        (i < j /\ st[i].n # None /\ st[i].n = st[j].n) => j = i + 1 /\ st[i].kind = "free"

\* What is worked on is in use, has bit 31, and its destructor was called; once it is
\* being dismantled it has no owner any more.
Frames(h, st) ==
    \A i \in 1 .. Len(st) : st[i].n # None =>
        /\ h[st[i].n].live /\ h[st[i].n].running /\ h[st[i].n].called
        /\ st[i].kind = "release" => h[st[i].n].rc = 0

\* Bit 31 is set only while a block is worked on.
Marks(h, st) == \A n \in Nodes : h[n].running => \E i \in 1 .. Len(st) : st[i].n = n

\* At most one exception is in flight, thrown in a destructor or parked below it.
OneException(st, th) ==
    /\ th # None => /\ \A i \in 1 .. Len(st) : st[i].exc = None
                    /\ st = <<>> \/ Last(st).kind = "destructor"
    /\ \A i, j \in 1 .. Len(st) : st[i].exc # None /\ st[j].exc # None => i = j
    /\ \A i \in 1 .. Len(st) : st[i].kind = "destructor" => st[i].exc = None
Flies(st, th, n) == th = n \/ \E i \in 1 .. Len(st) : st[i].exc = n

\* Pins belong to a running collection, and what is pinned was or will be destructed.
CollectsIn(st) == st # <<>> /\ st[1].kind = "collect"
Pins(h, st) ==
    \A n \in Nodes :
        /\ h[n].pin => CollectsIn(st) /\ n # Root /\ (h[n].called \/ n \in st[1].todo)
        /\ CollectsIn(st) /\ n \in st[1].todo => h[n].pin /\ ~h[n].called

\* The ghost count is what bit 14 says.
Calls(h) == \A n \in Nodes : h[n].calls = IF h[n].dtor /\ h[n].called THEN 1 ELSE 0

\* A block that is not in use is blank.
Blank(h) == h[Root].live /\ \A n \in Nodes : ~h[n].live => h[n] = Free

\* An assignment has still to write property f of n. No two have the same one to write, and
\* nothing is thrown in the destructors that one of them runs.
Writes(st, n, f) == \E i \in 1 .. Len(st) : st[i].into = n /\ st[i].prop = f
Stores(st, th) ==
    \A i \in 1 .. Len(st) : st[i].into # None =>
        /\ th = None /\ \A j \in i .. Len(st) : st[j].exc = None
        /\ \A j \in 1 .. Len(st) : st[j].into = st[i].into /\ st[j].prop = st[i].prop => j = i

\* The properties of n that own something.
OwnedIn(st, n) ==
    {f \in Fields :
        /\ \A i \in 1 .. Len(st) : st[i].kind = "release" /\ st[i].n = n => f \in st[i].todo
        /\ ~Writes(st, n, f)}
Owners(h, st, n) ==
    {e \in Nodes \X Fields : h[e[1]].live /\ e[2] \in OwnedIn(st, e[1]) /\ h[e[1]].slot[e[2]] = n}

\* What else does: an assignment, for its receiver and its value, an exception, the main
\* program, a pin, and for x the reference that is being given up.
IntoAt(st, n)  == {i \in 1 .. Len(st) : st[i].into = n}
ValuesAt(st, n) == {i \in 1 .. Len(st) : st[i].val = n}
Held(st, n) == Cardinality(IntoAt(st, n)) + Cardinality(ValuesAt(st, n))
Others(h, st, th, x, n) ==
    Held(st, n) + (IF Flies(st, th, n) THEN 1 ELSE 0) + (IF n = Root THEN 1 ELSE 0)
    + (IF h[n].pin THEN 1 ELSE 0) + (IF n = x THEN 1 ELSE 0)
Exact(h, st, th, x) ==
    \A n \in Nodes : h[n].rc = Cardinality(Owners(h, st, n)) + Others(h, st, th, x, n)

Good(h, st, th, x) ==
    /\ Types(h, st, th)
    /\ Shape(st) /\ Apart(st)
    /\ Frames(h, st) /\ Marks(h, st)
    /\ OneException(st, th) /\ Stores(st, th)
    /\ Pins(h, st) /\ Calls(h) /\ Blank(h)
    /\ Exact(h, st, th, x)

\* The inductive invariant.
IInv == ~Meddling /\ Good(heap, stack, thrown, None)

-----------------------------------------------------------------------------
(* The stack as a sequence.                                                *)

\* The stack after a push.
LEMMA Pushed ==
    ASSUME NEW st \in Seq(FrameType), NEW fr \in FrameType
    PROVE  /\ Append(st, fr) \in Seq(FrameType)
           /\ Append(st, fr) # <<>>
           /\ Len(Append(st, fr)) = Len(st) + 1
           /\ \A i \in 1 .. Len(st) : Append(st, fr)[i] = st[i]
           /\ Append(st, fr)[Len(st) + 1] = fr
  BY AppendProperties

\* The stack after a pop.
LEMMA Popped ==
    ASSUME NEW st \in Seq(FrameType), st # <<>>
    PROVE  /\ Len(st) \in Nat \ {0}
           /\ Front(st) \in Seq(FrameType)
           /\ Len(Front(st)) = Len(st) - 1
           /\ \A i \in 1 .. Len(st) - 1 : Front(st)[i] = st[i]
           /\ Front(st) = <<>> <=> Len(st) = 1
<1>1. Len(st) \in Nat \ {0}
  BY EmptySeq
<1>2. \A i \in 1 .. Len(st) - 1 : st[i] \in FrameType
  BY <1>1, ElementOfSeq
<1>3. /\ Front(st) \in Seq(FrameType)
      /\ Len(Front(st)) = Len(st) - 1
      /\ \A i \in 1 .. Len(st) - 1 : Front(st)[i] = st[i]
  <2>1. /\ SubSeq(st, 1, Len(st) - 1) \in Seq(FrameType)
        /\ Len(SubSeq(st, 1, Len(st) - 1)) = IF 1 <= Len(st) - 1 THEN (Len(st) - 1) - 1 + 1 ELSE 0
        /\ \A i \in 1 .. (Len(st) - 1) - 1 + 1 : SubSeq(st, 1, Len(st) - 1)[i] = st[1 + i - 1]
    <3> HIDE DEF FrameType
    <3>1. 1 \in Int /\ Len(st) - 1 \in Int
      BY <1>1
    <3> QED
      BY <1>2, <3>1, SubSeqProperties
  <2> DEFINE front == SubSeq(st, 1, Len(st) - 1)
  <2>2. front = Front(st)
    BY DEF Front
  <2> HIDE DEF front
  <2>3. /\ front \in Seq(FrameType)
        /\ Len(front) = Len(st) - 1
        /\ \A i \in 1 .. Len(st) - 1 : front[i] = st[i]
    <3>1. /\ front \in Seq(FrameType)
          /\ Len(front) = IF 1 <= Len(st) - 1 THEN (Len(st) - 1) - 1 + 1 ELSE 0
          /\ \A i \in 1 .. (Len(st) - 1) - 1 + 1 : front[i] = st[1 + i - 1]
      BY <2>1, Zenon DEF front
    <3>2. \A i \in 1 .. Len(st) - 1 : i \in 1 .. (Len(st) - 1) - 1 + 1 /\ 1 + i - 1 = i
      BY <1>1
    <3>3. \A i \in 1 .. Len(st) - 1 : front[i] = st[i]
      BY <3>1, <3>2
    <3>4. Len(front) = Len(st) - 1
      <4> DEFINE k == Len(st)
      <4>1. k \in Nat \ {0}
        BY <1>1
      <4>2. Len(front) = IF 1 <= k - 1 THEN (k - 1) - 1 + 1 ELSE 0
        BY <3>1
      <4> HIDE DEF k
      <4>3. Len(front) = k - 1
        BY <4>1, <4>2
      <4> QED
        BY <4>3 DEF k
    <3> QED
      BY <3>1, <3>3, <3>4
  <2> QED
    BY <2>2, <2>3
<1> QED
  BY <1>1, <1>3, EmptySeq

\* The stack after its top frame was changed.
LEMMA Retopped ==
    ASSUME NEW st \in Seq(FrameType), st # <<>>, NEW fr \in FrameType
    PROVE  /\ [st EXCEPT ![Len(st)] = fr] \in Seq(FrameType)
           /\ [st EXCEPT ![Len(st)] = fr] # <<>>
           /\ Len([st EXCEPT ![Len(st)] = fr]) = Len(st)
           /\ \A i \in 1 .. Len(st) - 1 : [st EXCEPT ![Len(st)] = fr][i] = st[i]
           /\ [st EXCEPT ![Len(st)] = fr][Len(st)] = fr
<1> DEFINE nx == [st EXCEPT ![Len(st)] = fr]
<1>1. Len(st) \in Nat \ {0} /\ Len(st) \in 1 .. Len(st)
  BY EmptySeq
<1>2. /\ nx \in Seq(FrameType)
      /\ Len(nx) = Len(st)
      /\ \A j \in 1 .. Len(st) : nx[j] = IF j = Len(st) THEN fr ELSE st[j]
  BY <1>1, ExceptSeq
<1> HIDE DEF nx
<1>3. nx # <<>>
  BY <1>1, <1>2, EmptySeq
<1>4. \A i \in 1 .. Len(st) - 1 : i \in 1 .. Len(st) /\ i # Len(st)
  BY <1>1
<1>5. /\ nx \in Seq(FrameType)
      /\ nx # <<>>
      /\ Len(nx) = Len(st)
      /\ \A i \in 1 .. Len(st) - 1 : nx[i] = st[i]
      /\ nx[Len(st)] = fr
  BY <1>1, <1>2, <1>3, <1>4
<1> QED
  BY <1>5, Zenon DEF nx

-----------------------------------------------------------------------------
(* Owners and what they keep alive.                                        *)

LEMMA NodesAreFinite ==
    /\ Root \in Nodes /\ None \notin Nodes /\ Objects \subseteq Nodes
    /\ IsFiniteSet(Nodes) /\ IsFiniteSet(Fields) /\ Cardinality(Fields) = MaxFields
    /\ IsFiniteSet(Nodes \X Fields)
    /\ Cardinality(Nodes \X Fields) = Cardinality(Nodes) * MaxFields
    /\ Cardinality(Nodes) \in Nat
<1>1. /\ Root \in Nodes /\ None \notin Nodes /\ Objects \subseteq Nodes
      /\ MaxFields \in Nat \ {0} /\ IsFiniteSet(Objects)
  BY CollectorAssumption DEF Nodes
<1>2. IsFiniteSet(Nodes)
  BY <1>1, FS_AddElement DEF Nodes
<1>3. IsFiniteSet(Fields) /\ Cardinality(Fields) = MaxFields
  <2>1. 1 \in Int /\ MaxFields \in Int
    BY <1>1
  <2>2. IsFiniteSet(1 .. MaxFields) /\ Cardinality(1 .. MaxFields) = IF 1 > MaxFields THEN 0 ELSE MaxFields - 1 + 1
    BY <2>1, FS_Interval
  <2> QED
    BY <1>1, <2>2 DEF Fields
<1>4. /\ IsFiniteSet(Nodes \X Fields)
      /\ Cardinality(Nodes \X Fields) = Cardinality(Nodes) * MaxFields
  BY <1>2, <1>3, FS_Product
<1>5. Cardinality(Nodes) \in Nat
  BY <1>2, FS_CardinalityType
<1> QED
  BY <1>1, <1>2, <1>3, <1>4, <1>5

\* A set of properties is finite, and its size is a number.
LEMMA EdgesAreFinite ==
    ASSUME NEW S \in SUBSET (Nodes \X Fields)
    PROVE  /\ IsFiniteSet(S) /\ Cardinality(S) \in Nat
           /\ Cardinality(S) = 0 <=> S = {}
           /\ Cardinality(S) <= Cardinality(Nodes) * MaxFields
<1>1. IsFiniteSet(S) /\ Cardinality(S) <= Cardinality(Nodes \X Fields)
  BY NodesAreFinite, FS_Subset
<1>2. Cardinality(S) \in Nat
  BY <1>1, FS_CardinalityType
<1> QED
  BY <1>1, <1>2, FS_EmptySet, NodesAreFinite

LEMMA OwnersAreEdges ==
    ASSUME NEW h, NEW st, NEW n
    PROVE  /\ Owners(h, st, n) \in SUBSET (Nodes \X Fields)
           /\ Cardinality(Owners(h, st, n)) \in Nat
           /\ Cardinality(Owners(h, st, n)) = 0 <=> Owners(h, st, n) = {}
<1>1. Owners(h, st, n) \in SUBSET (Nodes \X Fields)
  BY DEF Owners
<1> QED
  BY <1>1, EdgesAreFinite

\* One owner more, one owner less.
LEMMA OneMore ==
    ASSUME NEW S \in SUBSET (Nodes \X Fields), NEW e \in Nodes \X Fields, e \notin S
    PROVE  Cardinality(S \cup {e}) = Cardinality(S) + 1
  BY EdgesAreFinite, FS_AddElement

LEMMA OneLess ==
    ASSUME NEW S \in SUBSET (Nodes \X Fields), NEW e \in S
    PROVE  Cardinality(S) = Cardinality(S \ {e}) + 1
<1>1. Cardinality(S \ {e}) = Cardinality(S) - 1
  BY EdgesAreFinite, FS_RemoveElement
<1> QED
  BY <1>1, EdgesAreFinite

\* An owner is a property, and the other way round.
LEMMA OwnersDef ==
    ASSUME NEW h, NEW st, NEW n, NEW m, NEW f
    PROVE  <<m, f>> \in Owners(h, st, n) <=>
              /\ m \in Nodes /\ f \in Fields /\ h[m].live
              /\ \A i \in 1 .. Len(st) : st[i].kind = "release" /\ st[i].n = m => f \in st[i].todo
              /\ ~Writes(st, m, f)
              /\ h[m].slot[f] = n
  BY DEF Owners, OwnedIn

\* What assignments hold is a number.
LEMMA HeldIsNumber ==
    ASSUME NEW st \in Seq(FrameType), NEW n
    PROVE  /\ IsFiniteSet(IntoAt(st, n)) /\ IsFiniteSet(ValuesAt(st, n))
           /\ Cardinality(IntoAt(st, n)) \in Nat /\ Cardinality(ValuesAt(st, n)) \in Nat
           /\ Held(st, n) \in Nat
           /\ Held(st, n) = 0 <=> \A i \in 1 .. Len(st) : st[i].into # n /\ st[i].val # n
<1>1. Len(st) \in Int /\ 1 \in Int
  BY LenProperties
<1>2. IsFiniteSet(1 .. Len(st))
  BY <1>1, FS_Interval
<1>3. IntoAt(st, n) \subseteq 1 .. Len(st) /\ ValuesAt(st, n) \subseteq 1 .. Len(st)
  BY DEF IntoAt, ValuesAt
<1>4. IsFiniteSet(IntoAt(st, n)) /\ IsFiniteSet(ValuesAt(st, n))
  BY <1>2, <1>3, FS_Subset
<1>5. /\ Cardinality(IntoAt(st, n)) \in Nat /\ Cardinality(ValuesAt(st, n)) \in Nat
      /\ Cardinality(IntoAt(st, n)) = 0 <=> IntoAt(st, n) = {}
      /\ Cardinality(ValuesAt(st, n)) = 0 <=> ValuesAt(st, n) = {}
  BY <1>4, FS_CardinalityType, FS_EmptySet
<1>6. Held(st, n) \in Nat /\ (Held(st, n) = 0 <=> IntoAt(st, n) = {} /\ ValuesAt(st, n) = {})
  BY <1>5 DEF Held
<1> QED
  BY <1>4, <1>5, <1>6 DEF IntoAt, ValuesAt

LEMMA OthersIsNumber ==
    ASSUME NEW h, NEW st \in Seq(FrameType), NEW th, NEW x, NEW n
    PROVE  Others(h, st, th, x, n) \in Nat
  BY HeldIsNumber DEF Others

\* The same assignments are under way.
SameStores(st, nx) ==
    /\ \A i \in 1 .. Len(st) : st[i].into # None =>
           i \in 1 .. Len(nx) /\ nx[i].into = st[i].into /\ nx[i].prop = st[i].prop
    /\ \A i \in 1 .. Len(nx) : nx[i].into # None =>
           i \in 1 .. Len(st) /\ nx[i].into = st[i].into /\ nx[i].prop = st[i].prop
    /\ \A i \in 1 .. Len(st) : st[i].val # None => i \in 1 .. Len(nx) /\ nx[i].val = st[i].val
    /\ \A i \in 1 .. Len(nx) : nx[i].val # None => i \in 1 .. Len(st) /\ nx[i].val = st[i].val

LEMMA StoresKept ==
    ASSUME NEW st, NEW nx, SameStores(st, nx), NEW n \in Nodes
    PROVE  /\ Held(st, n) = Held(nx, n)
           /\ \A f : Writes(st, n, f) <=> Writes(nx, n, f)
<1>1. n # None
  BY NodesAreFinite
<1>2. IntoAt(st, n) = IntoAt(nx, n) /\ ValuesAt(st, n) = ValuesAt(nx, n)
  BY <1>1 DEF SameStores, IntoAt, ValuesAt
<1> QED
  BY <1>1, <1>2, Zenon DEF SameStores, Held, Writes

\* A frame of any other kind comes, goes, or changes at the top.
LEMMA PushedBlank ==
    ASSUME NEW st \in Seq(FrameType), NEW nx \in Seq(FrameType), Len(nx) >= Len(st),
           \A i \in 1 .. Len(st) : nx[i] = st[i],
           \A i \in Len(st) + 1 .. Len(nx) : nx[i].into = None /\ nx[i].val = None
    PROVE  SameStores(st, nx)
<1>1. Len(st) \in Nat /\ Len(nx) \in Nat
  BY LenProperties
<1>2. \A i \in 1 .. Len(nx) : i \in 1 .. Len(st) \/ i \in Len(st) + 1 .. Len(nx)
  BY <1>1
<1>3. \A i \in 1 .. Len(st) : i \in 1 .. Len(nx)
  BY <1>1
<1> QED
  BY <1>2, <1>3, Zenon DEF SameStores

LEMMA PoppedBlank ==
    ASSUME NEW st \in Seq(FrameType), NEW nx \in Seq(FrameType), Len(nx) =< Len(st),
           \A i \in 1 .. Len(nx) :
               nx[i].into = st[i].into /\ nx[i].prop = st[i].prop /\ nx[i].val = st[i].val,
           \A i \in Len(nx) + 1 .. Len(st) : st[i].into = None /\ st[i].val = None
    PROVE  SameStores(st, nx)
<1>1. Len(st) \in Nat /\ Len(nx) \in Nat
  BY LenProperties
<1>2. \A i \in 1 .. Len(st) : i \in 1 .. Len(nx) \/ i \in Len(nx) + 1 .. Len(st)
  BY <1>1
<1>3. \A i \in 1 .. Len(nx) : i \in 1 .. Len(st)
  BY <1>1
<1> QED
  BY <1>2, <1>3, Zenon DEF SameStores

\* What such a step leaves of the assignments, if it throws nothing in them.
LEMMA Unwritten ==
    ASSUME NEW st, NEW nx, SameStores(st, nx), NEW th, Stores(st, th), NEW tn,
           \A i \in 1 .. Len(st) : st[i].into # None =>
               tn = None /\ \A j \in 1 .. Len(nx) :
                   nx[j].exc # None => j \in 1 .. Len(st) /\ st[j].exc # None,
           Len(nx) \in Nat, Len(st) \in Nat
    PROVE  Stores(nx, tn)
<1> SUFFICES ASSUME NEW i \in 1 .. Len(nx), nx[i].into # None
             PROVE  /\ tn = None /\ \A j \in i .. Len(nx) : nx[j].exc = None
                    /\ \A j \in 1 .. Len(nx) :
                           nx[j].into = nx[i].into /\ nx[j].prop = nx[i].prop => j = i
  BY DEF Stores
<1>1. i \in 1 .. Len(st) /\ st[i].into = nx[i].into /\ st[i].prop = nx[i].prop /\ st[i].into # None
  BY DEF SameStores
<1>2. /\ \A j \in i .. Len(st) : st[j].exc = None
      /\ \A j \in 1 .. Len(st) : st[j].into = st[i].into /\ st[j].prop = st[i].prop => j = i
  BY <1>1 DEF Stores
<1>3. ASSUME NEW j \in i .. Len(nx), nx[j].exc # None PROVE FALSE
  <2>1. j \in 1 .. Len(nx)
    BY <1>1
  <2>2. j \in 1 .. Len(st) /\ st[j].exc # None
    BY <1>1, <1>3, <2>1
  <2>3. j \in i .. Len(st)
    BY <2>2
  <2> QED
    BY <1>2, <2>2, <2>3
<1>4. ASSUME NEW j \in 1 .. Len(nx), nx[j].into = nx[i].into, nx[j].prop = nx[i].prop PROVE j = i
  <2>1. j \in 1 .. Len(st) /\ st[j].into = nx[j].into /\ st[j].prop = nx[j].prop
    BY <1>4 DEF SameStores
  <2> QED
    BY <1>1, <1>2, <1>4, <2>1
<1> QED
  BY <1>1, <1>3, <1>4

\* No assignment is under way.
LEMMA NoStores ==
    ASSUME NEW st \in Seq(FrameType), \A i \in 1 .. Len(st) : st[i].into = None /\ st[i].val = None
    PROVE  /\ \A th : Stores(st, th)
           /\ \A m \in Nodes : Held(st, m) = 0 /\ \A f : ~Writes(st, m, f)
<1>1. ASSUME NEW m \in Nodes PROVE Held(st, m) = 0 /\ \A f : ~Writes(st, m, f)
  <2>1. m # None
    BY NodesAreFinite
  <2> QED
    BY <2>1, HeldIsNumber DEF Writes
<1> QED
  BY <1>1 DEF Stores

\* What has an owner, flies, is pinned, is Root, or is being given up is in use, and is not
\* being dismantled.
LEMMA HeldIsAlive ==
    ASSUME NEW h, NEW st, NEW th, NEW x, Good(h, st, th, x), NEW n \in Nodes,
           \/ Owners(h, st, n) # {} \/ Flies(st, th, n) \/ n = Root \/ h[n].pin \/ n = x
           \/ \E i \in 1 .. Len(st) : st[i].into = n \/ st[i].val = n
    PROVE  /\ h[n].rc > 0 /\ h[n].live
           /\ \A i \in 1 .. Len(st) : st[i].kind = "release" => st[i].n # n
<1>1. h[n].rc = Cardinality(Owners(h, st, n)) + Others(h, st, th, x, n)
  BY DEF Good, Exact
<1>2. Cardinality(Owners(h, st, n)) \in Nat /\ (Cardinality(Owners(h, st, n)) = 0 <=> Owners(h, st, n) = {})
  BY OwnersAreEdges
<1>3. h[n].rc > 0
  <2>1. /\ Held(st, n) \in Nat
        /\ (\E i \in 1 .. Len(st) : st[i].into = n \/ st[i].val = n) => Held(st, n) # 0
    BY HeldIsNumber DEF Good, Types
  <2> QED
    BY <1>1, <1>2, <2>1 DEF Others
<1>4. h[n].live
  <2>1. SUFFICES ASSUME ~h[n].live PROVE FALSE
    OBVIOUS
  <2>2. h[n] = Free
    BY <2>1 DEF Good, Blank
  <2> QED
    BY <1>3, <2>2 DEF Free, Block
<1>5. ASSUME NEW i \in 1 .. Len(st), st[i].kind = "release", st[i].n = n PROVE FALSE
  <2>1. h[n].rc = 0
    BY <1>5, NodesAreFinite DEF Good, Frames
  <2> QED
    BY <1>3, <2>1
<1> QED
  BY <1>3, <1>4, <1>5

\* Reach is contained in every closed set that has the origin.
LEMMA ReachIsLeast ==
    ASSUME NEW from, NEW edges, NEW S \in SUBSET Nodes, from \subseteq S,
           \A m \in S : edges[m] \subseteq S
    PROVE  Reach(from, edges) \subseteq S
<1>1. S = from \cup (S \ from) /\ S \ from \in SUBSET (Nodes \ from)
  OBVIOUS
<1>2. S \in {from \cup T : T \in SUBSET (Nodes \ from)}
  BY <1>1
<1> QED
  BY <1>2 DEF Reach

\* Reach has the origin, and is closed itself.
LEMMA ReachIsClosed ==
    ASSUME NEW from \in SUBSET Nodes, NEW edges
    PROVE  /\ from \subseteq Reach(from, edges) /\ Reach(from, edges) \subseteq Nodes
           /\ \A m \in Reach(from, edges), v \in Nodes : v \in edges[m] => v \in Reach(from, edges)
  BY DEF Reach

LEMMA EdgesAreSlots ==
    ASSUME heap \in [Nodes -> BlockType], NEW m \in Nodes
    PROVE  /\ Edges[m] \subseteq Nodes
           /\ \A v : v \in Edges[m] <=> v # None /\ \E f \in Fields : heap[m].slot[f] = v
<1>1. heap[m].slot \in [Fields -> Nodes \cup {None}]
  BY DEF BlockType
<1>2. Edges[m] = {heap[m].slot[f] : f \in Fields} \ {None}
  BY <1>1 DEF Edges, Range
<1> QED
  BY <1>1, <1>2

\* The frame on top.
LEMMA TopFrame ==
    ASSUME IInv, stack # <<>>
    PROVE  /\ Len(stack) \in Nat \ {0} /\ Len(stack) \in 1 .. Len(stack)
           /\ Top = stack[Len(stack)] /\ Top \in FrameType
           /\ FrameIsRight(stack, Len(stack))
<1>1. Len(stack) \in Nat \ {0} /\ Len(stack) \in 1 .. Len(stack)
  BY EmptySeq DEF IInv, Good, Types
<1>2. stack[Len(stack)] \in FrameType
  BY <1>1, ElementOfSeq DEF IInv, Good, Types
<1> QED
  BY <1>1, <1>2 DEF Top, Last, IInv, Good, Shape

\* A property that PHP code looks at is not being overwritten.
LEMMA TouchedIsUnwritten ==
    ASSUME IInv, NEW m, NEW f \in Touched(m)
    PROVE  f \in Fields /\ ~Writes(stack, m, f)
<1>1. f \in Fields /\ f \notin Pending(m)
  BY DEF IInv, Touched
<1>2. DOMAIN stack = 1 .. Len(stack)
  BY LenProperties DEF IInv, Good, Types
<1> QED
  BY <1>1, <1>2 DEF Pending, Writes

\* What PHP code can name is in use, and no free has started on it.
LEMMA SeenIsAlive ==
    ASSUME IInv, InPhp, NEW o \in Seen
    PROVE  /\ o \in Nodes /\ heap[o].live
           /\ \A i \in 1 .. Len(stack) : stack[i].kind = "release" => stack[i].n # o
<1> DEFINE Sound == {n \in Nodes : /\ heap[n].live
                                   /\ \A i \in 1 .. Len(stack) : stack[i].kind = "release" => stack[i].n # n}
<1> USE DEF IInv
<1>1. Root \in Sound
  BY HeldIsAlive, NodesAreFinite
<1>2. This \subseteq Sound
  <2>1. CASE stack = <<>>
    BY <2>1 DEF This
  <2>2. CASE stack # <<>>
    <3>1. /\ Len(stack) \in Nat \ {0} /\ Len(stack) \in 1 .. Len(stack)
          /\ Top = stack[Len(stack)] /\ Top \in FrameType /\ Top.kind = "destructor"
          /\ Top.n \in Objects
      BY <2>2, TopFrame DEF InPhp, On, FrameIsRight
    <3>2. Top.n \in Nodes /\ Top.n # None /\ heap[Top.n].live
      BY <3>1, NodesAreFinite DEF Good, Frames
    <3>3. ASSUME NEW i \in 1 .. Len(stack), stack[i].kind = "release", stack[i].n = Top.n PROVE FALSE
      <4>1. i # Len(stack)
        BY <3>1, <3>3
      <4>2. i < Len(stack)
        BY <3>1, <4>1
      <4>3. stack[i].kind = "free"
        BY <3>1, <3>2, <3>3, <4>2 DEF Good, Apart
      <4> QED
        BY <3>3, <4>3
    <3> QED
      BY <2>2, <3>2, <3>3 DEF This
  <2> QED
    BY <2>1, <2>2
<1> DEFINE seen == [m \in Nodes |-> {heap[m].slot[f] : f \in Touched(m)} \ {None}]
<1>3. \A m \in Sound : seen[m] \subseteq Sound
  <2> SUFFICES ASSUME NEW m \in Sound, NEW v \in seen[m] PROVE v \in Sound
    OBVIOUS
  <2>1. PICK f \in Touched(m) : heap[m].slot[f] = v /\ v # None
    OBVIOUS
  <2>2. f \in Fields /\ ~Writes(stack, m, f)
    BY TouchedIsUnwritten
  <2>3. <<m, f>> \in Owners(heap, stack, v) /\ v \in Nodes
    BY <2>1, <2>2, OwnersDef DEF Good, Types, BlockType
  <2> QED
    BY <2>3, HeldIsAlive
<1>4. Seen \subseteq Sound
  <2>1. {Root} \cup This \subseteq Sound
    BY <1>1, <1>2
  <2>2. Sound \in SUBSET Nodes
    OBVIOUS
  <2> HIDE DEF Sound
  <2> QED
    BY <1>3, <2>1, <2>2, ReachIsLeast DEF Seen
<1> QED
  BY <1>4

LEMMA SameOwners ==
    ASSUME NEW S \in SUBSET (Nodes \X Fields), NEW T \in SUBSET (Nodes \X Fields),
           \A p \in Nodes, g \in Fields : <<p, g>> \in S <=> <<p, g>> \in T
    PROVE  S = T
<1>1. \A e \in Nodes \X Fields : e = <<e[1], e[2]>> /\ e[1] \in Nodes /\ e[2] \in Fields
  OBVIOUS
<1> QED
  BY <1>1

-----------------------------------------------------------------------------
(* PHP code.                                                               *)

LEMMA InitIsGood == ~Meddling /\ Init => IInv
<1> SUFFICES ASSUME ~Meddling, Init PROVE IInv
  OBVIOUS
<1>1. /\ heap = [n \in Nodes |-> IF n = Root THEN Block(TRUE, 1, FALSE) ELSE Free]
      /\ stack = <<>> /\ thrown = None /\ Len(stack) = 0
  BY EmptySeq DEF Init
<1>2. Types(heap, stack, thrown)
  <2>1. [f \in Fields |-> None] \in [Fields -> Nodes \cup {None}]
    OBVIOUS
  <2>2. Block(TRUE, 1, FALSE) \in BlockType /\ Free \in BlockType
    BY <2>1 DEF Block, Free, BlockType
  <2> QED
    BY <1>1, <2>2, EmptySeq DEF Types
<1>3. /\ Shape(stack) /\ Apart(stack) /\ Frames(heap, stack) /\ OneException(stack, thrown)
      /\ Stores(stack, thrown)
  BY <1>1 DEF Shape, Apart, Frames, OneException, Stores
<1>4. /\ Marks(heap, stack) /\ Pins(heap, stack) /\ Calls(heap) /\ Blank(heap)
  BY <1>1, NodesAreFinite DEF Marks, Pins, CollectsIn, Calls, Blank, Block, Free
<1>5. Exact(heap, stack, thrown, None)
  <2> SUFFICES ASSUME NEW n \in Nodes
               PROVE  heap[n].rc = Cardinality(Owners(heap, stack, n)) + Others(heap, stack, thrown, None, n)
    BY DEF Exact
  <2>1. ASSUME NEW e \in Owners(heap, stack, n) PROVE FALSE
    <3>1. e[1] \in Nodes /\ e[2] \in Fields /\ heap[e[1]].slot[e[2]] = n
      BY DEF Owners
    <3>2. heap[e[1]].slot = [f \in Fields |-> None]
      BY <1>1, <3>1 DEF Block, Free
    <3> QED
      BY <3>1, <3>2, NodesAreFinite
  <2>2. Cardinality(Owners(heap, stack, n)) = 0
    BY <2>1, OwnersAreEdges
  <2>3. heap[n].rc = IF n = Root THEN 1 ELSE 0
    BY <1>1 DEF Block, Free
  <2>4. ~heap[n].pin /\ n # None /\ ~Flies(stack, thrown, n) /\ Held(stack, n) = 0
    <3>1. Held(stack, n) = 0
      <4>1. stack \in Seq(FrameType) /\ \A i \in 1 .. Len(stack) : FALSE
        BY <1>1, <1>2 DEF Types
      <4> QED
        BY <4>1, HeldIsNumber
    <3> QED
      BY <1>1, <3>1, NodesAreFinite DEF Block, Free, Flies
  <2> QED
    BY <2>2, <2>3, <2>4 DEF Others
<1> QED
  BY <1>2, <1>3, <1>4, <1>5 DEF IInv, Good

LEMMA NewStep ==
    ASSUME IInv, NEW o \in Nodes, NEW f \in Fields, NEW dtor \in BOOLEAN, New(o, f, dtor)
    PROVE  IInv'
<1>1. /\ Runs /\ o \in Seen /\ heap[o].slot[f] = None /\ ~Writes(stack, o, f)
      /\ UNCHANGED <<stack, thrown>>
  BY TouchedIsUnwritten DEF New
<1>2. PICK n \in Objects :
          /\ ~heap[n].live
          /\ heap' = [heap EXCEPT ![n] = Block(TRUE, 1, dtor), ![o].slot[f] = n]
  BY DEF New
<1>3. /\ Types(heap, stack, thrown) /\ Good(heap, stack, thrown, None)
      /\ n \in Nodes /\ n # Root /\ n # None /\ Root \in Nodes /\ None \notin Nodes
  BY NodesAreFinite, CollectorAssumption DEF IInv, Good
<1>4. /\ heap[o].live /\ n # o
      /\ \A i \in 1 .. Len(stack) : stack[i].kind = "release" => stack[i].n # o
  BY <1>1, <1>2, SeenIsAlive DEF Runs
<1>5. /\ heap' \in [Nodes -> BlockType]
      /\ heap'[n] = Block(TRUE, 1, dtor)
      /\ heap'[o] = [heap[o] EXCEPT !.slot[f] = n]
      /\ \A m \in Nodes : m # n /\ m # o => heap'[m] = heap[m]
  <2>1. [k \in Fields |-> None] \in [Fields -> Nodes \cup {None}]
    OBVIOUS
  <2>2. Block(TRUE, 1, dtor) \in BlockType
    BY <2>1 DEF Block, BlockType
  <2>3. heap[o] \in BlockType
    BY <1>3 DEF Types
  <2>4. [heap[o] EXCEPT !.slot[f] = n] \in BlockType
    BY <1>3, <2>3 DEF BlockType
  <2> QED
    BY <1>2, <1>3, <1>4, <2>2, <2>4 DEF Types
<1>6. /\ \A m \in Nodes : m # n => /\ heap'[m].live = heap[m].live /\ heap'[m].rc = heap[m].rc
                                   /\ heap'[m].running = heap[m].running
                                   /\ heap'[m].called = heap[m].called
                                   /\ heap'[m].pin = heap[m].pin
                                   /\ heap'[m].dtor = heap[m].dtor
                                   /\ heap'[m].calls = heap[m].calls
      /\ \A m \in Nodes, g \in Fields : m # n =>
             heap'[m].slot[g] = IF m = o /\ g = f THEN n ELSE heap[m].slot[g]
  <2>1. heap[o].slot \in [Fields -> Nodes \cup {None}] /\ heap[o] \in BlockType
    BY <1>3 DEF Types, BlockType
  <2>2. /\ heap'[o].slot = [heap[o].slot EXCEPT ![f] = n]
        /\ heap'[o].live = heap[o].live /\ heap'[o].rc = heap[o].rc
        /\ heap'[o].running = heap[o].running /\ heap'[o].called = heap[o].called
        /\ heap'[o].pin = heap[o].pin /\ heap'[o].dtor = heap[o].dtor
        /\ heap'[o].calls = heap[o].calls
    BY <1>5, <2>1 DEF BlockType
  <2>3. \A g \in Fields : heap'[o].slot[g] = IF g = f THEN n ELSE heap[o].slot[g]
    BY <2>1, <2>2
  <2>4. ASSUME NEW m \in Nodes, NEW g \in Fields, m # n
        PROVE  heap'[m].slot[g] = IF m = o /\ g = f THEN n ELSE heap[m].slot[g]
    BY <1>5, <2>3, <2>4
  <2>5. ASSUME NEW m \in Nodes, m # n
        PROVE  /\ heap'[m].live = heap[m].live /\ heap'[m].rc = heap[m].rc
               /\ heap'[m].running = heap[m].running /\ heap'[m].called = heap[m].called
               /\ heap'[m].pin = heap[m].pin /\ heap'[m].dtor = heap[m].dtor
               /\ heap'[m].calls = heap[m].calls
    BY <1>5, <2>2, <2>5
  <2> QED
    BY <2>4, <2>5
<1>7. /\ heap'[n].live /\ heap'[n].rc = 1 /\ ~heap'[n].running /\ ~heap'[n].called
      /\ ~heap'[n].pin /\ heap'[n].dtor = dtor /\ heap'[n].calls = 0
      /\ \A g \in Fields : heap'[n].slot[g] = None
  BY <1>5 DEF Block
<1>8. /\ Shape(stack) /\ Apart(stack) /\ OneException(stack, thrown) /\ Stores(stack, thrown)
      /\ Types(heap', stack, thrown)
  BY <1>3, <1>5 DEF Good, Types
<1>9. Frames(heap', stack) /\ Marks(heap', stack)
  <2>1. ASSUME NEW i \in 1 .. Len(stack), stack[i].n # None PROVE stack[i].n \in Nodes /\ stack[i].n # n
    <3>1. stack[i] \in FrameType
      BY <1>3, ElementOfSeq DEF Types
    <3>2. stack[i].n \in Nodes
      BY <2>1, <3>1, NodesAreFinite DEF FrameType
    <3> QED
      BY <1>2, <1>3, <2>1, <3>2 DEF Good, Frames
  <2>2. Frames(heap', stack)
    BY <1>3, <1>6, <2>1 DEF Good, Frames
  <2>3. Marks(heap', stack)
    BY <1>3, <1>6, <1>7 DEF Good, Marks
  <2> QED
    BY <2>2, <2>3
<1>10. Pins(heap', stack) /\ Calls(heap') /\ Blank(heap')
  <2>1. ~heap[n].pin
    BY <1>2, <1>3, HeldIsAlive
  <2>2. Pins(heap', stack)
    BY <1>3, <1>6, <1>7, <2>1 DEF Good, Pins
  <2>3. Calls(heap')
    BY <1>3, <1>6, <1>7 DEF Good, Calls
  <2>4. Blank(heap')
    <3>1. ASSUME NEW m \in Nodes, ~heap'[m].live PROVE heap'[m] = Free
      <4>1. m # n /\ m # o /\ ~heap[m].live
        BY <1>4, <1>6, <1>7, <3>1
      <4> QED
        BY <1>3, <1>5, <4>1 DEF Good, Blank
    <3>2. heap'[Root].live
      BY <1>3, <1>6 DEF Good, Blank
    <3> QED
      BY <3>1, <3>2 DEF Blank
  <2> QED
    BY <2>2, <2>3, <2>4
<1>11. Exact(heap', stack, thrown, None)
  <2> SUFFICES ASSUME NEW m \in Nodes
               PROVE  heap'[m].rc = Cardinality(Owners(heap', stack, m)) + Others(heap', stack, thrown, None, m)
    BY DEF Exact
  <2>1. heap[m].rc = Cardinality(Owners(heap, stack, m)) + Others(heap, stack, thrown, None, m)
    BY <1>3 DEF Good, Exact
  <2>2. CASE m # n
    <3>1. ASSUME NEW p \in Nodes, NEW g \in Fields
          PROVE  <<p, g>> \in Owners(heap, stack, m) <=> <<p, g>> \in Owners(heap', stack, m)
      <4>1. CASE p = n
        <5>1. <<p, g>> \notin Owners(heap, stack, m)
          BY <1>2, <4>1, OwnersDef
        <5>2. heap'[p].slot[g] # m
          BY <1>3, <1>7, <4>1
        <5> QED
          BY <5>1, <5>2, OwnersDef
      <4>2. CASE p # n
        BY <1>1, <1>3, <1>6, <2>2, <4>2, OwnersDef
      <4> QED
        BY <4>1, <4>2
    <3>2. Owners(heap', stack, m) = Owners(heap, stack, m)
      BY <3>1, SameOwners, OwnersAreEdges
    <3> QED
      BY <1>6, <2>1, <2>2, <3>2 DEF Others
  <2>3. CASE m = n
    <3>1. Owners(heap, stack, n) = {} /\ ~Flies(stack, thrown, n) /\ Held(stack, n) = 0
      BY <1>2, <1>3, HeldIsAlive, HeldIsNumber DEF Types
    <3>2. <<o, f>> \in Owners(heap', stack, n)
      BY <1>1, <1>4, <1>6, OwnersDef
    <3>3. ASSUME NEW p \in Nodes, NEW g \in Fields, p # o \/ g # f
          PROVE  <<p, g>> \in Owners(heap, stack, n) <=> <<p, g>> \in Owners(heap', stack, n)
      <4>1. <<p, g>> \notin Owners(heap, stack, n)
        BY <3>1
      <4>2. CASE p = n
        BY <1>3, <1>7, <4>1, <4>2, OwnersDef
      <4>3. CASE p # n
        <5>1. heap'[p].slot[g] = heap[p].slot[g] /\ heap'[p].live = heap[p].live
          BY <1>6, <3>3, <4>3
        <5> QED
          BY <4>1, <5>1, OwnersDef
      <4> QED
        BY <4>2, <4>3
    <3>4. Cardinality(Owners(heap', stack, n)) = Cardinality(Owners(heap, stack, n)) + 1
      <4>1. <<o, f>> \notin Owners(heap, stack, n)
        BY <3>1
      <4> DEFINE S == Owners(heap, stack, n)
                 T == Owners(heap', stack, n)
      <4>2. /\ S \in SUBSET (Nodes \X Fields) /\ T \in SUBSET (Nodes \X Fields)
            /\ T \ {<<o, f>>} \in SUBSET (Nodes \X Fields)
        BY OwnersAreEdges
      <4>3. <<o, f>> \in T
        BY <3>2
      <4>4. \A p \in Nodes, g \in Fields : <<p, g>> \in S <=> <<p, g>> \in T \ {<<o, f>>}
        BY <3>3, <4>1
      <4> HIDE DEF S, T
      <4>5. S = T \ {<<o, f>>}
        BY <4>2, <4>4, SameOwners
      <4>6. Cardinality(T) = Cardinality(S) + 1
        BY <4>2, <4>3, <4>5, OneLess
      <4> QED
        BY <4>6 DEF S, T
    <3>5. Cardinality(Owners(heap', stack, n)) = 1
      <4>1. Cardinality(Owners(heap, stack, n)) = 0
        BY <3>1, OwnersAreEdges
      <4> QED
        BY <3>4, <4>1
    <3> QED
      BY <1>3, <1>7, <2>3, <3>1, <3>5 DEF Others
  <2> QED
    BY <2>2, <2>3
<1>12. Good(heap', stack', thrown', None)
  BY <1>1, <1>8, <1>9, <1>10, <1>11 DEF Good
<1> QED
  BY <1>12 DEF IInv

LEMMA LinkStep ==
    ASSUME IInv, NEW o \in Nodes, NEW x \in Nodes, NEW f \in Fields, Link(o, f, x)
    PROVE  IInv'
<1>1. /\ Runs /\ o \in Seen /\ x \in Seen /\ x # Root /\ heap[o].slot[f] = None
      /\ ~Writes(stack, o, f) /\ x # None
      /\ heap' = [Retain(heap, x) EXCEPT ![o].slot[f] = x]
      /\ UNCHANGED <<stack, thrown>>
  BY TouchedIsUnwritten, NodesAreFinite DEF Link
<1>2. /\ Types(heap, stack, thrown) /\ Good(heap, stack, thrown, None)
      /\ Root \in Nodes /\ None \notin Nodes
  BY NodesAreFinite DEF IInv, Good
<1>3. /\ heap[o].live /\ heap[x].live
      /\ \A i \in 1 .. Len(stack) : stack[i].kind = "release" => stack[i].n # o /\ stack[i].n # x
  BY <1>1, SeenIsAlive DEF Runs
<1>4. /\ heap' \in [Nodes -> BlockType]
      /\ \A m \in Nodes : /\ heap'[m].live = heap[m].live
                          /\ heap'[m].rc = IF m = x THEN heap[m].rc + 1 ELSE heap[m].rc
                          /\ heap'[m].running = heap[m].running
                          /\ heap'[m].called = heap[m].called
                          /\ heap'[m].pin = heap[m].pin
                          /\ heap'[m].dtor = heap[m].dtor
                          /\ heap'[m].calls = heap[m].calls
      /\ \A m \in Nodes, g \in Fields :
             heap'[m].slot[g] = IF m = o /\ g = f THEN x ELSE heap[m].slot[g]
      /\ \A m \in Nodes : m # x /\ m # o => heap'[m] = heap[m]
  <2> DEFINE h1 == Retain(heap, x)
             b  == [h1[o] EXCEPT !.slot[f] = x]
  <2>1. heap \in [Nodes -> BlockType] /\ heap[x] \in BlockType
    BY <1>2 DEF Types
  <2>2. [heap[x] EXCEPT !.rc = @ + 1] \in BlockType
    BY <2>1 DEF BlockType
  <2>3. /\ h1 \in [Nodes -> BlockType]
        /\ h1[x] = [heap[x] EXCEPT !.rc = @ + 1]
        /\ \A m \in Nodes : m # x => h1[m] = heap[m]
    BY <1>1, <2>1, <2>2 DEF Retain
  <2>4. \A m \in Nodes : /\ h1[m].live = heap[m].live
                         /\ h1[m].rc = IF m = x THEN heap[m].rc + 1 ELSE heap[m].rc
                         /\ h1[m].running = heap[m].running /\ h1[m].called = heap[m].called
                         /\ h1[m].pin = heap[m].pin /\ h1[m].dtor = heap[m].dtor
                         /\ h1[m].calls = heap[m].calls /\ h1[m].slot = heap[m].slot
    BY <2>1, <2>3 DEF BlockType
  <2>5. heap' = [h1 EXCEPT ![o] = b]
    BY <1>1
  <2> HIDE DEF h1
  <2>6. h1[o] \in BlockType /\ h1[o].slot \in [Fields -> Nodes \cup {None}]
    BY <2>3 DEF BlockType
  <2>7. /\ b \in BlockType
        /\ b.slot = [h1[o].slot EXCEPT ![f] = x]
        /\ b.live = h1[o].live /\ b.rc = h1[o].rc /\ b.running = h1[o].running
        /\ b.called = h1[o].called /\ b.pin = h1[o].pin /\ b.dtor = h1[o].dtor
        /\ b.calls = h1[o].calls
    BY <2>6 DEF BlockType
  <2>8. \A g \in Fields : b.slot[g] = IF g = f THEN x ELSE heap[o].slot[g]
    BY <2>4, <2>6, <2>7
  <2> HIDE DEF b
  <2>9. /\ heap' \in [Nodes -> BlockType] /\ heap'[o] = b
        /\ \A m \in Nodes : m # o => heap'[m] = h1[m]
    BY <2>3, <2>5, <2>7
  <2>10. ASSUME NEW m \in Nodes
         PROVE  /\ heap'[m].live = heap[m].live
                /\ heap'[m].rc = IF m = x THEN heap[m].rc + 1 ELSE heap[m].rc
                /\ heap'[m].running = heap[m].running /\ heap'[m].called = heap[m].called
                /\ heap'[m].pin = heap[m].pin /\ heap'[m].dtor = heap[m].dtor
                /\ heap'[m].calls = heap[m].calls
    <3>1. CASE m = o
      BY <2>4, <2>7, <2>9, <3>1
    <3>2. CASE m # o
      BY <2>4, <2>9, <3>2
    <3> QED
      BY <3>1, <3>2
  <2>11. ASSUME NEW m \in Nodes, NEW g \in Fields
         PROVE  heap'[m].slot[g] = IF m = o /\ g = f THEN x ELSE heap[m].slot[g]
    BY <2>4, <2>8, <2>9
  <2>12. \A m \in Nodes : m # x /\ m # o => heap'[m] = heap[m]
    BY <2>3, <2>9
  <2> QED
    BY <2>9, <2>10, <2>11, <2>12
<1>5. /\ Shape(stack) /\ Apart(stack) /\ OneException(stack, thrown) /\ Stores(stack, thrown)
      /\ Types(heap', stack, thrown)
  BY <1>2, <1>4 DEF Good, Types
<1>6. Frames(heap', stack) /\ Marks(heap', stack)
  <2>1. ASSUME NEW i \in 1 .. Len(stack), stack[i].n # None PROVE stack[i].n \in Nodes
    <3>1. stack[i] \in FrameType
      BY <1>2, ElementOfSeq DEF Types
    <3> QED
      BY <2>1, <3>1, NodesAreFinite DEF FrameType
  <2>2. Frames(heap', stack)
    BY <1>2, <1>3, <1>4, <2>1 DEF Good, Frames
  <2>3. Marks(heap', stack)
    BY <1>2, <1>4 DEF Good, Marks
  <2> QED
    BY <2>2, <2>3
<1>7. Pins(heap', stack) /\ Calls(heap') /\ Blank(heap')
  <2>1. Pins(heap', stack)
    BY <1>2, <1>4 DEF Good, Pins
  <2>2. Calls(heap')
    BY <1>2, <1>4 DEF Good, Calls
  <2>3. Blank(heap')
    BY <1>2, <1>3, <1>4 DEF Good, Blank
  <2> QED
    BY <2>1, <2>2, <2>3
<1>8. Exact(heap', stack, thrown, None)
  <2> SUFFICES ASSUME NEW m \in Nodes
               PROVE  heap'[m].rc = Cardinality(Owners(heap', stack, m)) + Others(heap', stack, thrown, None, m)
    BY DEF Exact
  <2> DEFINE S == Owners(heap, stack, m)
             T == Owners(heap', stack, m)
  <2>1. heap[m].rc = Cardinality(S) + Others(heap, stack, thrown, None, m)
    BY <1>2 DEF Good, Exact
  <2>2. Others(heap', stack, thrown, None, m) = Others(heap, stack, thrown, None, m)
    BY <1>4 DEF Others
  <2>3. /\ S \in SUBSET (Nodes \X Fields) /\ T \in SUBSET (Nodes \X Fields)
        /\ T \ {<<o, f>>} \in SUBSET (Nodes \X Fields)
        /\ Cardinality(S) \in Nat /\ Cardinality(T) \in Nat
    BY OwnersAreEdges
  <2>4. <<o, f>> \notin S
    BY <1>1, <1>2, OwnersDef
  <2>5. \A p \in Nodes, g \in Fields : (p # o \/ g # f) => (<<p, g>> \in S <=> <<p, g>> \in T)
    BY <1>4, OwnersDef
  <2>6. <<o, f>> \in T <=> m = x
    <3>1. heap'[o].live /\ heap'[o].slot[f] = x /\ ~Writes(stack, o, f) /\ stack' = stack
      BY <1>1, <1>3, <1>4
    <3> QED
      BY <1>3, <3>1, OwnersDef
  <2>7. \A p \in Nodes, g \in Fields : <<p, g>> \in S <=> <<p, g>> \in T \ {<<o, f>>}
    BY <2>4, <2>5
  <2>8. Others(heap, stack, thrown, None, m) \in Nat
    BY <1>2, OthersIsNumber DEF Types
  <2> HIDE DEF S, T
  <2>9. S = T \ {<<o, f>>}
    BY <2>3, <2>7, SameOwners
  <2>10. CASE m = x
    <3>1. Cardinality(T) = Cardinality(S) + 1
      BY <2>3, <2>6, <2>9, <2>10, OneLess
    <3>2. heap'[m].rc = heap[m].rc + 1
      BY <1>4, <2>10
    <3> QED
      BY <2>1, <2>2, <2>3, <2>8, <3>1, <3>2 DEF T
  <2>11. CASE m # x
    <3>1. T = S
      BY <2>6, <2>9, <2>11
    <3> QED
      BY <1>4, <2>1, <2>2, <2>11, <3>1 DEF T
  <2> QED
    BY <2>10, <2>11
<1>9. Good(heap', stack', thrown', None)
  BY <1>1, <1>5, <1>6, <1>7, <1>8 DEF Good
<1> QED
  BY <1>9 DEF IInv

LEMMA ThrowStep ==
    ASSUME IInv, NEW x \in Nodes, Throw(x)
    PROVE  IInv'
<1>1. /\ Runs /\ stack # <<>> /\ x \in Seen /\ x # Root
      /\ \A i \in DOMAIN stack : stack[i].exc = None
      /\ heap' = Retain(heap, x) /\ thrown' = x /\ stack' = stack
      /\ \A i \in DOMAIN stack : stack[i].into = None
  BY DEF Throw, Storing, IInv
<1>2. /\ Types(heap, stack, thrown) /\ Good(heap, stack, thrown, None)
      /\ Root \in Nodes /\ None \notin Nodes /\ x # None /\ x \in Objects
  BY <1>1, NodesAreFinite DEF IInv, Good, Nodes
<1>3. /\ heap[x].live
      /\ \A i \in 1 .. Len(stack) : stack[i].kind = "release" => stack[i].n # x
  BY <1>1, SeenIsAlive DEF Runs
<1>4. /\ heap' \in [Nodes -> BlockType]
      /\ \A m \in Nodes : /\ heap'[m].live = heap[m].live
                          /\ heap'[m].rc = IF m = x THEN heap[m].rc + 1 ELSE heap[m].rc
                          /\ heap'[m].running = heap[m].running
                          /\ heap'[m].called = heap[m].called
                          /\ heap'[m].pin = heap[m].pin
                          /\ heap'[m].dtor = heap[m].dtor
                          /\ heap'[m].calls = heap[m].calls
                          /\ heap'[m].slot = heap[m].slot
      /\ \A m \in Nodes : m # x => heap'[m] = heap[m]
  <2> DEFINE b == [heap[x] EXCEPT !.rc = @ + 1]
  <2>1. heap \in [Nodes -> BlockType] /\ heap[x] \in BlockType
    BY <1>2 DEF Types
  <2>2. /\ b \in BlockType /\ b.rc = heap[x].rc + 1 /\ b.live = heap[x].live
        /\ b.running = heap[x].running /\ b.called = heap[x].called /\ b.pin = heap[x].pin
        /\ b.dtor = heap[x].dtor /\ b.calls = heap[x].calls /\ b.slot = heap[x].slot
    BY <2>1 DEF BlockType
  <2>3. heap' = [heap EXCEPT ![x] = b]
    BY <1>1, <1>2 DEF Retain
  <2> HIDE DEF b
  <2> QED
    BY <2>1, <2>2, <2>3
<1>5. DOMAIN stack = 1 .. Len(stack) /\ thrown = None /\ Last(stack).kind = "destructor"
  BY <1>1, <1>2, LenProperties DEF Runs, InPhp, On, Top, Types
<1>6. OneException(stack, x) /\ Stores(stack, x)
  BY <1>1, <1>5 DEF OneException, Stores
<1>7. Shape(stack) /\ Apart(stack) /\ Types(heap', stack, x)
  BY <1>2, <1>4 DEF Good, Types
<1>8. Frames(heap', stack) /\ Marks(heap', stack)
  <2>1. ASSUME NEW i \in 1 .. Len(stack), stack[i].n # None PROVE stack[i].n \in Nodes
    <3>1. stack[i] \in FrameType
      BY <1>2, ElementOfSeq DEF Types
    <3> QED
      BY <2>1, <3>1, NodesAreFinite DEF FrameType
  <2>2. Frames(heap', stack)
    BY <1>2, <1>3, <1>4, <2>1 DEF Good, Frames
  <2>3. Marks(heap', stack)
    BY <1>2, <1>4 DEF Good, Marks
  <2> QED
    BY <2>2, <2>3
<1>9. Pins(heap', stack) /\ Calls(heap') /\ Blank(heap')
  <2>1. Pins(heap', stack)
    BY <1>2, <1>4 DEF Good, Pins
  <2>2. Calls(heap')
    BY <1>2, <1>4 DEF Good, Calls
  <2>3. Blank(heap')
    BY <1>2, <1>3, <1>4 DEF Good, Blank
  <2> QED
    BY <2>1, <2>2, <2>3
<1>10. Exact(heap', stack, x, None)
  <2> SUFFICES ASSUME NEW m \in Nodes
               PROVE  heap'[m].rc = Cardinality(Owners(heap', stack, m)) + Others(heap', stack, x, None, m)
    BY DEF Exact
  <2>1. heap[m].rc = Cardinality(Owners(heap, stack, m)) + Others(heap, stack, thrown, None, m)
    BY <1>2 DEF Good, Exact
  <2>2. ASSUME NEW p \in Nodes, NEW g \in Fields
        PROVE  <<p, g>> \in Owners(heap, stack, m) <=> <<p, g>> \in Owners(heap', stack, m)
    <3>1. heap'[p].live = heap[p].live /\ heap'[p].slot[g] = heap[p].slot[g]
      BY <1>4
    <3> QED
      BY <3>1, OwnersDef
  <2>3. Owners(heap, stack, m) = Owners(heap', stack, m)
    BY <2>2, SameOwners, OwnersAreEdges
  <2>4. ~Flies(stack, thrown, m) /\ (Flies(stack, x, m) <=> m = x)
    BY <1>1, <1>2, <1>5 DEF Flies
  <2>5. Others(heap', stack, x, None, m) = Others(heap, stack, thrown, None, m) + IF m = x THEN 1 ELSE 0
    BY <1>2, <1>4, <2>4, HeldIsNumber DEF Others, Types
  <2>6. Others(heap, stack, thrown, None, m) \in Nat /\ Cardinality(Owners(heap, stack, m)) \in Nat
    BY <1>2, OwnersAreEdges, OthersIsNumber DEF Types
  <2> QED
    BY <1>4, <2>1, <2>3, <2>5, <2>6
<1>11. Good(heap', stack', thrown', None)
  BY <1>1, <1>6, <1>7, <1>8, <1>9, <1>10 DEF Good
<1> QED
  BY <1>11 DEF IInv

-----------------------------------------------------------------------------
(* Release.                                                                *)

\* The count of x follows the reference that was given up.
LEMMA GivenUp ==
    ASSUME NEW h, NEW st, NEW x \in Nodes, Good(h, st, None, x)
    PROVE  LET g == [h EXCEPT ![x].rc = @ - 1]
           IN  Good(g, st, None, None) /\ g[x].live
<1> DEFINE g == [h EXCEPT ![x].rc = @ - 1]
           b == [h[x] EXCEPT !.rc = @ - 1]
<1>1. /\ Types(h, st, None) /\ h \in [Nodes -> BlockType] /\ h[x] \in BlockType
      /\ None \notin Nodes /\ Root \in Nodes
  BY NodesAreFinite DEF Good, Types
<1>2. /\ h[x].live /\ h[x].rc > 0
      /\ \A i \in 1 .. Len(st) : st[i].kind = "release" => st[i].n # x
  BY HeldIsAlive
<1>3. /\ g \in [Nodes -> BlockType]
      /\ \A m \in Nodes : /\ g[m].live = h[m].live
                          /\ g[m].rc = IF m = x THEN h[m].rc - 1 ELSE h[m].rc
                          /\ g[m].running = h[m].running /\ g[m].called = h[m].called
                          /\ g[m].pin = h[m].pin /\ g[m].dtor = h[m].dtor
                          /\ g[m].calls = h[m].calls /\ g[m].slot = h[m].slot
      /\ \A m \in Nodes : m # x => g[m] = h[m]
  <2>1. h[x].rc \in Nat /\ h[x].rc - 1 \in Nat
    BY <1>1, <1>2 DEF BlockType
  <2>2. /\ b \in BlockType /\ b.rc = h[x].rc - 1 /\ b.live = h[x].live
        /\ b.running = h[x].running /\ b.called = h[x].called /\ b.pin = h[x].pin
        /\ b.dtor = h[x].dtor /\ b.calls = h[x].calls /\ b.slot = h[x].slot
    BY <1>1, <2>1 DEF BlockType
  <2>3. g = [h EXCEPT ![x] = b]
    OBVIOUS
  <2> HIDE DEF b, g
  <2> QED
    BY <1>1, <2>2, <2>3
<1> HIDE DEF g
<1>4. Shape(st) /\ Apart(st) /\ OneException(st, None) /\ Stores(st, None) /\ Types(g, st, None)
  BY <1>1, <1>3 DEF Good, Types
<1>5. Frames(g, st) /\ Marks(g, st)
  <2>1. ASSUME NEW i \in 1 .. Len(st), st[i].n # None PROVE st[i].n \in Nodes
    <3>1. st[i] \in FrameType
      BY <1>1, ElementOfSeq DEF Types
    <3> QED
      BY <2>1, <3>1, NodesAreFinite DEF FrameType
  <2>2. Frames(g, st)
    BY <1>2, <1>3, <2>1 DEF Good, Frames
  <2>3. Marks(g, st)
    BY <1>3 DEF Good, Marks
  <2> QED
    BY <2>2, <2>3
<1>6. Pins(g, st) /\ Calls(g) /\ Blank(g)
  <2>1. Pins(g, st)
    BY <1>3 DEF Good, Pins
  <2>2. Calls(g)
    BY <1>3 DEF Good, Calls
  <2>3. Blank(g)
    BY <1>1, <1>2, <1>3 DEF Good, Blank
  <2> QED
    BY <2>1, <2>2, <2>3
<1>7. Exact(g, st, None, None)
  <2> SUFFICES ASSUME NEW m \in Nodes
               PROVE  g[m].rc = Cardinality(Owners(g, st, m)) + Others(g, st, None, None, m)
    BY DEF Exact
  <2>1. h[m].rc = Cardinality(Owners(h, st, m)) + Others(h, st, None, x, m)
    BY DEF Good, Exact
  <2>2. ASSUME NEW p \in Nodes, NEW k \in Fields
        PROVE  <<p, k>> \in Owners(h, st, m) <=> <<p, k>> \in Owners(g, st, m)
    <3>1. g[p].live = h[p].live /\ g[p].slot[k] = h[p].slot[k]
      BY <1>3
    <3> QED
      BY <3>1, OwnersDef
  <2>3. Owners(h, st, m) = Owners(g, st, m)
    BY <2>2, SameOwners, OwnersAreEdges
  <2>4. Others(h, st, None, x, m) = Others(g, st, None, None, m) + IF m = x THEN 1 ELSE 0
    BY <1>1, <1>3, HeldIsNumber DEF Others, Types
  <2>5. Others(g, st, None, None, m) \in Nat /\ Cardinality(Owners(h, st, m)) \in Nat
    BY <1>1, OwnersAreEdges, OthersIsNumber DEF Types
  <2> QED
    BY <1>3, <2>1, <2>3, <2>4, <2>5
<1>8. Good(g, st, None, None) /\ g[x].live
  BY <1>2, <1>3, <1>4, <1>5, <1>6, <1>7 DEF Good
<1> QED
  BY <1>8 DEF g

LEMMA PushKeepsShape ==
    ASSUME NEW st \in Seq(FrameType), NEW fr \in FrameType, Shape(st),
           st # <<>> /\ Last(st).kind \in {"free", "collect"} => fr.kind = "destructor",
           fr.kind \notin {"collect", "store"}, fr.n \in Objects, fr.into = None, fr.val = None,
           fr.kind = "release" => fr.todo \subseteq Fields,
           fr.kind = "destructor" =>
               st # <<>> /\ (Last(st).kind = "collect" \/ (Last(st).kind = "free" /\ Last(st).n = fr.n))
    PROVE  Shape(Append(st, fr))
<1> DEFINE nx == Append(st, fr)
           k  == Len(st)
<1>1. /\ nx \in Seq(FrameType) /\ Len(nx) = k + 1 /\ k \in Nat
      /\ \A i \in 1 .. k : nx[i] = st[i]
      /\ nx[k + 1] = fr
      /\ st # <<>> => k > 0 /\ Last(st) = st[k]
  BY Pushed, EmptySeq, LenProperties DEF Last
<1> HIDE DEF nx
<1>2. ASSUME NEW i \in 1 .. k PROVE FrameIsRight(nx, i)
  <2>1. FrameIsRight(st, i)
    BY <1>2 DEF Shape
  <2>2. CASE i < k
    <3>1. nx[i] = st[i] /\ nx[i + 1] = st[i + 1]
      BY <1>1, <2>2
    <3>2. i > 1 => nx[i - 1] = st[i - 1]
      BY <1>1, <2>2
    <3> QED
      BY <1>1, <2>1, <2>2, <3>1, <3>2 DEF FrameIsRight
  <2>3. CASE i = k
    <3>1. nx[i] = st[i] /\ nx[i + 1] = fr /\ st # <<>> /\ Last(st) = st[i]
      BY <1>1, <2>3, EmptySeq
    <3>2. i > 1 => nx[i - 1] = st[i - 1]
      BY <1>1, <2>3
    <3> QED
      BY <1>1, <2>1, <2>3, <3>1, <3>2 DEF FrameIsRight
  <2> QED
    BY <1>1, <2>2, <2>3
<1>3. FrameIsRight(nx, k + 1)
  <2>1. ~(k + 1 < Len(nx)) /\ nx[k + 1] = fr /\ (k + 1) - 1 = k
    BY <1>1
  <2>2. CASE fr.kind = "destructor"
    <3>1. k > 0 /\ Last(st) = st[k] /\ nx[k] = st[k]
      BY <1>1, <2>2
    <3> QED
      BY <1>1, <2>1, <2>2, <3>1 DEF FrameIsRight
  <2>3. CASE fr.kind # "destructor"
    BY <2>1, <2>3 DEF FrameIsRight
  <2> QED
    BY <2>2, <2>3
<1> QED
  <2>1. \A i \in 1 .. Len(nx) : i \in 1 .. k \/ i = k + 1
    BY <1>1
  <2> QED
    BY <1>2, <1>3, <2>1 DEF Shape, nx

LEMMA PushKeepsApart ==
    ASSUME NEW st \in Seq(FrameType), NEW fr \in FrameType, Apart(st),
           \A i \in 1 .. Len(st) : st[i].n = fr.n => i = Len(st) /\ st[i].kind = "free"
    PROVE  Apart(Append(st, fr))
<1> DEFINE nx == Append(st, fr)
           k  == Len(st)
<1>1. /\ nx \in Seq(FrameType) /\ Len(nx) = k + 1 /\ k \in Nat
      /\ \A i \in 1 .. k : nx[i] = st[i]
      /\ nx[k + 1] = fr
  BY Pushed, LenProperties
<1> HIDE DEF nx
<1>2. ASSUME NEW i \in 1 .. Len(nx), NEW j \in 1 .. Len(nx),
             i < j, nx[i].n # None, nx[i].n = nx[j].n
      PROVE  j = i + 1 /\ nx[i].kind = "free"
  <2>1. i \in 1 .. k /\ nx[i] = st[i] /\ (j \in 1 .. k \/ j = k + 1)
    BY <1>1, <1>2
  <2>2. CASE j \in 1 .. k
    BY <1>1, <1>2, <2>1, <2>2 DEF Apart
  <2>3. CASE j = k + 1
    BY <1>1, <1>2, <2>1, <2>3
  <2> QED
    BY <2>1, <2>2, <2>3
<1> QED
  BY <1>2 DEF Apart, nx

\* The free of x begins: its frame and, if it has one to come, its destructor's go on top.
LEMMA BegunFree ==
    ASSUME NEW h, NEW st, NEW x \in Objects, Good(h, st, None, None),
           st = <<>> \/ Last(st).kind \in {"destructor", "release", "store"},
           \A i \in 1 .. Len(st) : st[i].n # x,
           BeginFree(h, st, x)
    PROVE  /\ stack' \in Seq(FrameType) /\ Shape(stack') /\ Apart(stack')
           /\ Len(st) \in Nat /\ Len(stack') \in Nat /\ Len(stack') > Len(st)
           /\ \A i \in 1 .. Len(st) : stack'[i] = st[i]
           /\ \A i \in Len(st) + 1 .. Len(stack') :
                  /\ stack'[i].n = x /\ stack'[i].exc = None /\ stack'[i].kind # "collect"
                  /\ stack'[i].kind = "release" => stack'[i].todo = Fields
                  /\ stack'[i].into = None /\ stack'[i].val = None
<1> DEFINE free == Frame("free", x, {})
           dtor == Frame("destructor", x, {})
           rel  == Frame("release", x, Fields)
           k    == Len(st)
<1>1. st \in Seq(FrameType) /\ Shape(st) /\ Apart(st) /\ k \in Nat
      /\ (st # <<>> => Last(st) = st[k])
  BY LenProperties DEF Good, Types, Last
<1>2. /\ free \in FrameType /\ free.kind = "free" /\ free.n = x /\ free.exc = None
      /\ dtor \in FrameType /\ dtor.kind = "destructor" /\ dtor.n = x /\ dtor.exc = None
      /\ rel \in FrameType /\ rel.kind = "release" /\ rel.n = x /\ rel.exc = None /\ rel.todo = Fields
      /\ free.into = None /\ dtor.into = None /\ rel.into = None
      /\ free.val = None /\ dtor.val = None /\ rel.val = None
  BY DEF Frame, FrameType
<1>3. CASE h[x].dtor /\ ~h[x].called
  <2> DEFINE a == Append(st, free)
  <2>1. stack' = Append(a, dtor)
    BY <1>3 DEF BeginFree
  <2> HIDE DEF free, dtor, rel
  <2>2. /\ a \in Seq(FrameType) /\ a # <<>> /\ Len(a) = k + 1
        /\ \A i \in 1 .. k : a[i] = st[i]
        /\ a[k + 1] = free
    BY <1>1, <1>2, Pushed
  <2>3. Shape(a)
    BY <1>1, <1>2, PushKeepsShape
  <2>4. Apart(a)
    BY <1>1, <1>2, PushKeepsApart
  <2> HIDE DEF a
  <2>5. Last(a) = free
    BY <2>2 DEF Last
  <2>6. /\ stack' \in Seq(FrameType) /\ Len(stack') = k + 2
        /\ \A i \in 1 .. k + 1 : stack'[i] = a[i]
        /\ stack'[k + 2] = dtor
    <3>1. /\ Append(a, dtor) \in Seq(FrameType) /\ Len(Append(a, dtor)) = Len(a) + 1
          /\ \A i \in 1 .. Len(a) : Append(a, dtor)[i] = a[i]
          /\ Append(a, dtor)[Len(a) + 1] = dtor
      BY <1>2, <2>2, Pushed
    <3>2. Len(a) + 1 = k + 2
      BY <1>1, <2>2
    <3> QED
      BY <2>1, <2>2, <3>1, <3>2
  <2>7. Shape(stack')
    BY <1>2, <2>1, <2>2, <2>3, <2>5, PushKeepsShape
  <2>8. Apart(stack')
    <3>1. \A i \in 1 .. Len(a) : a[i].n = dtor.n => i = Len(a) /\ a[i].kind = "free"
      BY <1>1, <1>2, <2>2
    <3> QED
      BY <1>2, <2>1, <2>2, <2>4, <3>1, PushKeepsApart
  <2>9. /\ k + 2 > k /\ k + 2 \in Nat
        /\ \A i \in 1 .. k : i \in 1 .. k + 1
        /\ \A i \in k + 1 .. k + 2 : (i = k + 1 /\ i \in 1 .. k + 1) \/ i = k + 2
    BY <1>1
  <2>10. \A i \in k + 1 .. k + 2 : stack'[i] = free \/ stack'[i] = dtor
    BY <2>2, <2>6, <2>9
  <2> QED
    BY <1>1, <1>2, <2>2, <2>6, <2>7, <2>8, <2>9, <2>10
<1>4. CASE ~(h[x].dtor /\ ~h[x].called)
  <2>1. stack' = Append(st, rel)
    BY <1>4 DEF BeginFree
  <2> HIDE DEF free, dtor, rel
  <2>2. /\ stack' \in Seq(FrameType) /\ Len(stack') = k + 1
        /\ \A i \in 1 .. k : stack'[i] = st[i]
        /\ stack'[k + 1] = rel
    BY <1>1, <1>2, <2>1, Pushed
  <2>3. Shape(stack')
    BY <1>1, <1>2, <2>1, PushKeepsShape
  <2>4. Apart(stack')
    BY <1>1, <1>2, <2>1, PushKeepsApart
  <2>5. \A i \in k + 1 .. k + 1 : i = k + 1
    BY <1>1
  <2> QED
    BY <1>1, <1>2, <2>2, <2>3, <2>4, <2>5
<1> QED
  BY <1>3, <1>4

LEMMA BeginFreeKeeps ==
    ASSUME NEW h, NEW st, NEW x \in Nodes, Good(h, st, None, None),
           h[x].live, h[x].rc = 0, ~h[x].running,
           st = <<>> \/ Last(st).kind \in {"destructor", "release", "store"},
           BeginFree(h, st, x)
    PROVE  Good(heap', stack', None, None)
<1> DEFINE k == Len(st)
<1>1. /\ Types(h, st, None) /\ h \in [Nodes -> BlockType] /\ h[x] \in BlockType
      /\ st \in Seq(FrameType) /\ None \notin Nodes /\ Root \in Nodes
      /\ None \in Objects \cup {None}
  BY NodesAreFinite DEF Good, Types
<1>2. /\ x # Root /\ ~h[x].pin /\ x \in Objects /\ x # None
  BY <1>1, HeldIsAlive DEF Nodes
<1>3. \A i \in 1 .. k : st[i].n # x
  BY <1>2 DEF Good, Frames
<1>4. /\ stack' \in Seq(FrameType) /\ Shape(stack') /\ Apart(stack')
      /\ k \in Nat /\ Len(stack') \in Nat /\ Len(stack') > k
      /\ \A i \in 1 .. k : stack'[i] = st[i]
      /\ \A i \in k + 1 .. Len(stack') :
             /\ stack'[i].n = x /\ stack'[i].exc = None /\ stack'[i].kind # "collect"
             /\ stack'[i].kind = "release" => stack'[i].todo = Fields
             /\ stack'[i].into = None /\ stack'[i].val = None
  BY <1>2, <1>3, BegunFree
<1>5. /\ heap' \in [Nodes -> BlockType]
      /\ heap'[x].live /\ heap'[x].rc = 0 /\ heap'[x].running /\ heap'[x].called
      /\ heap'[x].pin = h[x].pin /\ heap'[x].dtor = h[x].dtor /\ heap'[x].slot = h[x].slot
      /\ heap'[x].calls = IF h[x].dtor THEN 1 ELSE 0
      /\ \A m \in Nodes : m # x => heap'[m] = h[m]
  <2> DEFINE c == IF h[x].dtor /\ ~h[x].called THEN h[x].calls + 1 ELSE h[x].calls
             b == [h[x] EXCEPT !.running = TRUE, !.called = TRUE, !.calls = c]
  <2>1. h[x].calls = IF h[x].dtor /\ h[x].called THEN 1 ELSE 0
    BY DEF Good, Calls
  <2>2. c = (IF h[x].dtor THEN 1 ELSE 0) /\ c \in {0, 1}
    BY <2>1
  <2>3. heap' = [h EXCEPT ![x] = b]
    BY DEF BeginFree
  <2> HIDE DEF c
  <2>4. /\ b \in BlockType /\ b.live = h[x].live /\ b.rc = h[x].rc /\ b.running /\ b.called
        /\ b.pin = h[x].pin /\ b.dtor = h[x].dtor /\ b.slot = h[x].slot /\ b.calls = c
    BY <1>1, <2>2 DEF BlockType
  <2> HIDE DEF b
  <2> QED
    BY <1>1, <2>2, <2>3, <2>4
<1>6. \A i \in 1 .. Len(stack') : i \in 1 .. k \/ i \in k + 1 .. Len(stack')
  BY <1>4
<1>7. \A i \in 1 .. k : i \in 1 .. Len(stack')
  BY <1>4
<1>8. /\ Types(heap', stack', None)
      /\ SameStores(st, stack') /\ Stores(stack', None)
  <2>1. Types(heap', stack', None)
    BY <1>1, <1>4, <1>5 DEF Types
  <2>2. SameStores(st, stack')
    BY <1>1, <1>4, PushedBlank
  <2>3. \A j \in 1 .. Len(stack') : stack'[j].exc # None => j \in 1 .. k /\ st[j].exc # None
    BY <1>4, <1>6
  <2>4. Stores(st, None)
    BY DEF Good
  <2>5. Stores(stack', None)
    BY <1>4, <2>2, <2>3, <2>4, Unwritten
  <2> QED
    BY <2>1, <2>2, <2>5
<1>9. Frames(heap', stack')
  <2> SUFFICES ASSUME NEW i \in 1 .. Len(stack'), stack'[i].n # None
               PROVE  /\ heap'[stack'[i].n].live /\ heap'[stack'[i].n].running
                      /\ heap'[stack'[i].n].called
                      /\ stack'[i].kind = "release" => heap'[stack'[i].n].rc = 0
    BY DEF Frames
  <2>1. CASE i \in 1 .. k
    <3>1. stack'[i] = st[i] /\ st[i].n # x /\ st[i] \in FrameType
      BY <1>1, <1>3, <1>4, <2>1, ElementOfSeq
    <3>2. st[i].n \in Nodes /\ heap'[st[i].n] = h[st[i].n]
      BY <1>5, <3>1, NodesAreFinite DEF FrameType
    <3> QED
      BY <2>1, <3>1, <3>2 DEF Good, Frames
  <2>2. CASE i \in k + 1 .. Len(stack')
    BY <1>4, <1>5, <2>2
  <2> QED
    BY <1>6, <2>1, <2>2
<1>10. Marks(heap', stack')
  <2> SUFFICES ASSUME NEW m \in Nodes, heap'[m].running
               PROVE  \E i \in 1 .. Len(stack') : stack'[i].n = m
    BY DEF Marks
  <2>1. CASE m = x
    <3>1. k + 1 \in 1 .. Len(stack') /\ k + 1 \in k + 1 .. Len(stack')
      BY <1>4
    <3> QED
      BY <1>4, <2>1, <3>1
  <2>2. CASE m # x
    <3>1. PICK i \in 1 .. k : st[i].n = m
      BY <1>5, <2>2 DEF Good, Marks
    <3> QED
      BY <1>4, <1>7, <3>1
  <2> QED
    BY <2>1, <2>2
<1>11. OneException(stack', None)
  <2>1. \A i \in 1 .. Len(stack') : stack'[i].exc # None => i \in 1 .. k /\ st[i].exc # None
    BY <1>4, <1>6
  <2>2. \A i, j \in 1 .. Len(stack') : stack'[i].exc # None /\ stack'[j].exc # None => i = j
    BY <2>1 DEF Good, OneException
  <2>3. \A i \in 1 .. Len(stack') : stack'[i].kind = "destructor" => stack'[i].exc = None
    BY <1>4, <1>6 DEF Good, OneException
  <2> QED
    BY <2>2, <2>3 DEF OneException
<1>12. Pins(heap', stack') /\ Calls(heap') /\ Blank(heap')
  <2>1. /\ CollectsIn(stack') <=> CollectsIn(st)
        /\ CollectsIn(st) => stack'[1] = st[1]
    <3>1. CASE st = <<>>
      <4>1. k = 0 /\ 1 \in k + 1 .. Len(stack')
        BY <1>4, <3>1, EmptySeq
      <4> QED
        BY <1>4, <3>1, <4>1 DEF CollectsIn
    <3>2. CASE st # <<>>
      <4>1. 1 \in 1 .. k /\ stack' # <<>>
        BY <1>1, <1>4, <3>2, EmptySeq
      <4> QED
        BY <1>4, <3>2, <4>1 DEF CollectsIn
    <3> QED
      BY <3>1, <3>2
  <2>2. Pins(heap', stack')
    BY <1>2, <1>5, <2>1 DEF Good, Pins
  <2>3. Calls(heap')
    BY <1>5 DEF Good, Calls
  <2>4. Blank(heap')
    BY <1>1, <1>2, <1>5 DEF Good, Blank
  <2> QED
    BY <2>2, <2>3, <2>4
<1>13. Exact(heap', stack', None, None)
  <2> SUFFICES ASSUME NEW m \in Nodes
               PROVE  heap'[m].rc = Cardinality(Owners(heap', stack', m)) + Others(heap', stack', None, None, m)
    BY DEF Exact
  <2>1. h[m].rc = Cardinality(Owners(h, st, m)) + Others(h, st, None, None, m)
    BY DEF Good, Exact
  <2>2. ASSUME NEW p \in Nodes, NEW f \in Fields
        PROVE  <<p, f>> \in Owners(h, st, m) <=> <<p, f>> \in Owners(heap', stack', m)
    <3>1. (heap'[p].live <=> h[p].live) /\ heap'[p].slot[f] = h[p].slot[f]
      <4>1. CASE p = x
        BY <1>5, <4>1
      <4>2. CASE p # x
        BY <1>5, <4>2
      <4> QED
        BY <4>1, <4>2
    <3>2. (\A i \in 1 .. k : st[i].kind = "release" /\ st[i].n = p => f \in st[i].todo)
          <=> (\A i \in 1 .. Len(stack') : stack'[i].kind = "release" /\ stack'[i].n = p => f \in stack'[i].todo)
      BY <1>4, <1>6, <1>7
    <3>3. Writes(st, p, f) <=> Writes(stack', p, f)
      BY <1>8, StoresKept
    <3> QED
      BY <3>1, <3>2, <3>3, OwnersDef
  <2>3. Owners(h, st, m) = Owners(heap', stack', m)
    BY <2>2, SameOwners, OwnersAreEdges
  <2>4. Flies(st, None, m) <=> Flies(stack', None, m)
    <3>1. m # None
      BY <1>1
    <3>2. ASSUME NEW i \in 1 .. Len(stack'), stack'[i].exc = m PROVE i \in 1 .. k /\ st[i].exc = m
      BY <1>4, <1>6, <3>1, <3>2
    <3>3. ASSUME NEW i \in 1 .. k, st[i].exc = m PROVE i \in 1 .. Len(stack') /\ stack'[i].exc = m
      BY <1>4, <1>7, <3>3
    <3> QED
      BY <3>1, <3>2, <3>3 DEF Flies
  <2>5. h[m].pin = heap'[m].pin /\ h[m].rc = heap'[m].rc /\ Held(st, m) = Held(stack', m)
    BY <1>5, <1>8, StoresKept
  <2> QED
    BY <2>1, <2>3, <2>4, <2>5 DEF Others
<1> QED
  BY <1>4, <1>8, <1>9, <1>10, <1>11, <1>12, <1>13 DEF Good

\* Release leaves an exact state behind, and no block in it that is not in use any more.
LEMMA ReleaseKeeps ==
    ASSUME NEW h, NEW st, NEW x \in Nodes \cup {None}, Good(h, st, None, x),
           st = <<>> \/ Last(st).kind \in {"destructor", "release", "store"},
           Release(h, st, x)
    PROVE  Good(heap', stack', None, None)
<1>1. CASE x = None
  BY <1>1 DEF Release
<1>2. CASE x # None
  <2> DEFINE g == [h EXCEPT ![x].rc = @ - 1]
  <2>1. x \in Nodes /\ h[x].live
    BY <1>2, HeldIsAlive
  <2>2. Good(g, st, None, None) /\ g[x].live
    BY <2>1, GivenUp
  <2>3. IF g[x].rc = 0 /\ ~g[x].running THEN BeginFree(g, st, x)
        ELSE heap' = g /\ stack' = st
    BY <1>2, <2>1 DEF Release
  <2> HIDE DEF g
  <2>4. CASE g[x].rc = 0 /\ ~g[x].running
    BY <2>1, <2>2, <2>3, <2>4, BeginFreeKeeps
  <2>5. CASE ~(g[x].rc = 0 /\ ~g[x].running)
    BY <2>2, <2>3, <2>5
  <2> QED
    BY <2>4, <2>5
<1> QED
  BY <1>1, <1>2

\* In PHP code the frame on top is a destructor's, or there is none.
LEMMA PhpIsOnTop ==
    ASSUME IInv, InPhp
    PROVE  stack = <<>> \/ Last(stack).kind = "destructor"
  BY DEF InPhp, On, Top

LEMMA UnlinkStep ==
    ASSUME IInv, NEW o \in Nodes, NEW f \in Fields, Unlink(o, f)
    PROVE  IInv'
<1> DEFINE h == [heap EXCEPT ![o].slot[f] = None]
           x == heap[o].slot[f]
           b == [heap[o] EXCEPT !.slot[f] = None]
<1>1. /\ Runs /\ o \in Seen /\ x # None /\ Release(h, stack, x) /\ thrown' = thrown
      /\ thrown = None /\ ~Writes(stack, o, f)
  BY TouchedIsUnwritten DEF Unlink, Runs
<1>2. /\ Types(heap, stack, None) /\ Good(heap, stack, None, None) /\ heap[o] \in BlockType
      /\ Root \in Nodes /\ None \notin Nodes
  BY <1>1, NodesAreFinite DEF IInv, Good, Types
<1>3. /\ heap[o].live
      /\ \A i \in 1 .. Len(stack) : stack[i].kind = "release" => stack[i].n # o
  BY <1>1, SeenIsAlive DEF Runs
<1>4. x \in Nodes
  BY <1>1, <1>2 DEF BlockType
<1>5. /\ h \in [Nodes -> BlockType]
      /\ \A m \in Nodes : /\ h[m].live = heap[m].live /\ h[m].rc = heap[m].rc
                          /\ h[m].running = heap[m].running /\ h[m].called = heap[m].called
                          /\ h[m].pin = heap[m].pin /\ h[m].dtor = heap[m].dtor
                          /\ h[m].calls = heap[m].calls
      /\ \A m \in Nodes, g \in Fields :
             h[m].slot[g] = IF m = o /\ g = f THEN None ELSE heap[m].slot[g]
      /\ \A m \in Nodes : m # o => h[m] = heap[m]
  <2>1. h = [heap EXCEPT ![o] = b]
    OBVIOUS
  <2>2. heap[o].slot \in [Fields -> Nodes \cup {None}]
    BY <1>2 DEF BlockType
  <2>3. /\ b \in BlockType
        /\ b.slot = [heap[o].slot EXCEPT ![f] = None]
        /\ b.live = heap[o].live /\ b.rc = heap[o].rc /\ b.running = heap[o].running
        /\ b.called = heap[o].called /\ b.pin = heap[o].pin /\ b.dtor = heap[o].dtor
        /\ b.calls = heap[o].calls
    BY <1>2 DEF BlockType
  <2>4. \A g \in Fields : b.slot[g] = IF g = f THEN None ELSE heap[o].slot[g]
    BY <2>2, <2>3
  <2> HIDE DEF b, h
  <2>5. heap \in [Nodes -> BlockType]
    BY <1>2 DEF Types
  <2>6. /\ h \in [Nodes -> BlockType] /\ h[o] = b
        /\ \A m \in Nodes : m # o => h[m] = heap[m]
    BY <2>1, <2>3, <2>5
  <2> QED
    BY <2>3, <2>4, <2>6
<1> HIDE DEF h, x
<1>6. /\ Shape(stack) /\ Apart(stack) /\ OneException(stack, None) /\ Stores(stack, None)
      /\ Types(h, stack, None)
  BY <1>2, <1>5 DEF Good, Types
<1>7. Frames(h, stack) /\ Marks(h, stack)
  <2>1. ASSUME NEW i \in 1 .. Len(stack), stack[i].n # None PROVE stack[i].n \in Nodes
    <3>1. stack[i] \in FrameType
      BY <1>2, ElementOfSeq DEF Types
    <3> QED
      BY <2>1, <3>1, NodesAreFinite DEF FrameType
  <2>2. Frames(h, stack)
    BY <1>2, <1>5, <2>1 DEF Good, Frames
  <2>3. Marks(h, stack)
    BY <1>2, <1>5 DEF Good, Marks
  <2> QED
    BY <2>2, <2>3
<1>8. Pins(h, stack) /\ Calls(h) /\ Blank(h)
  <2>1. Pins(h, stack)
    BY <1>2, <1>5 DEF Good, Pins
  <2>2. Calls(h)
    BY <1>2, <1>5 DEF Good, Calls
  <2>3. Blank(h)
    BY <1>2, <1>3, <1>5 DEF Good, Blank
  <2> QED
    BY <2>1, <2>2, <2>3
<1>9. Exact(h, stack, None, x)
  <2> SUFFICES ASSUME NEW m \in Nodes
               PROVE  h[m].rc = Cardinality(Owners(h, stack, m)) + Others(h, stack, None, x, m)
    BY DEF Exact
  <2> DEFINE T == Owners(heap, stack, m)
             S == Owners(h, stack, m)
  <2>1. heap[m].rc = Cardinality(T) + Others(heap, stack, None, None, m)
    BY <1>2 DEF Good, Exact
  <2>2. Others(h, stack, None, x, m) = Others(heap, stack, None, None, m) + IF m = x THEN 1 ELSE 0
    BY <1>2, <1>5, HeldIsNumber DEF Others, Types
  <2>3. /\ S \in SUBSET (Nodes \X Fields) /\ T \in SUBSET (Nodes \X Fields)
        /\ T \ {<<o, f>>} \in SUBSET (Nodes \X Fields)
        /\ Cardinality(S) \in Nat /\ Cardinality(T) \in Nat
        /\ Others(heap, stack, None, None, m) \in Nat
    BY <1>2, OwnersAreEdges, OthersIsNumber DEF Types
  <2>4. <<o, f>> \notin S
    BY <1>2, <1>5, OwnersDef
  <2>5. \A p \in Nodes, g \in Fields : (p # o \/ g # f) => (<<p, g>> \in S <=> <<p, g>> \in T)
    BY <1>5, OwnersDef
  <2>6. <<o, f>> \in T <=> m = x
    BY <1>1, <1>3, OwnersDef DEF x
  <2>7. \A p \in Nodes, g \in Fields : <<p, g>> \in S <=> <<p, g>> \in T \ {<<o, f>>}
    BY <2>4, <2>5
  <2> HIDE DEF S, T
  <2>8. S = T \ {<<o, f>>}
    BY <2>3, <2>7, SameOwners
  <2>9. CASE m = x
    <3>1. Cardinality(T) = Cardinality(S) + 1
      BY <2>3, <2>6, <2>8, <2>9, OneLess
    <3> QED
      BY <1>5, <2>1, <2>2, <2>3, <2>9, <3>1 DEF S
  <2>10. CASE m # x
    <3>1. T = S
      BY <2>6, <2>8, <2>10
    <3> QED
      BY <1>5, <2>1, <2>2, <2>3, <2>10, <3>1 DEF S
  <2> QED
    BY <2>9, <2>10
<1>10. Good(h, stack, None, x)
  BY <1>6, <1>7, <1>8, <1>9 DEF Good
<1>11. stack = <<>> \/ Last(stack).kind \in {"destructor", "release", "store"}
  BY <1>1, PhpIsOnTop DEF Runs
<1>12. Good(heap', stack', None, None)
  BY <1>1, <1>4, <1>10, <1>11, ReleaseKeeps
<1> QED
  BY <1>1, <1>12 DEF IInv

LEMMA CatchStep ==
    ASSUME IInv, Catch
    PROVE  IInv'
<1>1. InPhp /\ thrown # None /\ thrown' = None /\ Release(heap, stack, thrown)
  BY DEF Catch
<1>2. /\ Good(heap, stack, thrown, None) /\ Types(heap, stack, thrown)
      /\ Root \in Nodes /\ None \notin Nodes /\ thrown \in Objects /\ thrown \in Nodes
  BY <1>1, NodesAreFinite DEF IInv, Good, Types
<1>3. \A i \in 1 .. Len(stack) : stack[i].exc = None
  BY <1>1, <1>2 DEF Good, OneException
<1>4. Exact(heap, stack, None, thrown)
  <2> SUFFICES ASSUME NEW m \in Nodes
               PROVE  heap[m].rc = Cardinality(Owners(heap, stack, m)) + Others(heap, stack, None, thrown, m)
    BY DEF Exact
  <2>1. heap[m].rc = Cardinality(Owners(heap, stack, m)) + Others(heap, stack, thrown, None, m)
    BY <1>2 DEF Good, Exact
  <2>2. ~Flies(stack, None, m) /\ (Flies(stack, thrown, m) <=> m = thrown) /\ m # None
    BY <1>2, <1>3 DEF Flies
  <2> QED
    BY <1>2, <2>1, <2>2, HeldIsNumber DEF Others, Types
<1>5. OneException(stack, None) /\ Stores(stack, None) /\ Types(heap, stack, None)
  BY <1>2, <1>3 DEF Good, OneException, Stores, Types
<1>6. Good(heap, stack, None, thrown)
  BY <1>2, <1>4, <1>5 DEF Good
<1>7. stack = <<>> \/ Last(stack).kind \in {"destructor", "release", "store"}
  BY <1>1, PhpIsOnTop
<1>8. Good(heap', stack', None, None)
  BY <1>1, <1>2, <1>6, <1>7, ReleaseKeeps
<1> QED
  BY <1>1, <1>8 DEF IInv

-----------------------------------------------------------------------------
(* The runtime's own steps.                                                *)

LEMMA RetopKeepsShape ==
    ASSUME NEW st \in Seq(FrameType), st # <<>>, NEW fr \in FrameType, Shape(st), Apart(st),
           fr.n = Last(st).n,
           fr.kind = Last(st).kind \/ (Last(st).kind = "free" /\ fr.kind = "release"),
           fr.kind = "release" => fr.todo \subseteq Fields,
           fr.kind = "collect" => fr.todo \subseteq Objects,
           \/ fr.into = Last(st).into /\ fr.prop = Last(st).prop /\ fr.val = Last(st).val
           \/ fr.into = None /\ fr.val = None
    PROVE  Shape([st EXCEPT ![Len(st)] = fr]) /\ Apart([st EXCEPT ![Len(st)] = fr])
<1> DEFINE nx == [st EXCEPT ![Len(st)] = fr]
           k  == Len(st)
<1>1. /\ nx \in Seq(FrameType) /\ Len(nx) = k /\ k \in Nat \ {0}
      /\ \A i \in 1 .. k - 1 : nx[i] = st[i]
      /\ nx[k] = fr /\ Last(st) = st[k]
  BY Retopped, EmptySeq DEF Last
<1> HIDE DEF nx
<1>2. ASSUME NEW i \in 1 .. k PROVE FrameIsRight(nx, i)
  <2>1. FrameIsRight(st, i)
    BY <1>2 DEF Shape
  <2>2. i > 1 => nx[i - 1] = st[i - 1]
    BY <1>1
  <2>3. CASE i = k
    <3>1. nx[i] = fr /\ fr.n = st[i].n /\ ~(i < Len(nx))
      BY <1>1, <2>3
    <3>2. fr.kind = st[i].kind \/ (st[i].kind = "free" /\ fr.kind = "release")
      BY <1>1, <2>3
    <3>3. \/ fr.into = st[i].into /\ fr.prop = st[i].prop /\ fr.val = st[i].val
          \/ fr.into = None /\ fr.val = None
      BY <1>1, <2>3
    <3> QED
      BY <2>1, <2>2, <3>1, <3>2, <3>3 DEF FrameIsRight
  <2>4. CASE i # k
    <3>1. nx[i] = st[i] /\ i < k
      BY <1>1, <2>4
    <3>2. nx[i + 1].kind = st[i + 1].kind \/ st[i + 1].kind = "free"
      BY <1>1, <2>4
    <3>3. nx[i + 1].kind = "destructor" <=> st[i + 1].kind = "destructor"
      BY <1>1, <2>4
    <3> QED
      BY <1>1, <2>1, <2>2, <3>1, <3>3 DEF FrameIsRight
  <2> QED
    BY <2>3, <2>4
<1>3. ASSUME NEW i \in 1 .. k, NEW j \in 1 .. k, i < j, nx[i].n # None, nx[i].n = nx[j].n
      PROVE  j = i + 1 /\ nx[i].kind = "free"
  <2>1. nx[i] = st[i] /\ nx[j].n = st[j].n
    BY <1>1, <1>3
  <2> QED
    BY <1>3, <2>1 DEF Apart
<1> QED
  BY <1>1, <1>2, <1>3 DEF Shape, Apart, nx

LEMMA PopKeepsShape ==
    ASSUME NEW st \in Seq(FrameType), st # <<>>, Shape(st), Apart(st)
    PROVE  Shape(Front(st)) /\ Apart(Front(st))
<1> DEFINE nx == Front(st)
           k  == Len(st)
<1>1. /\ nx \in Seq(FrameType) /\ Len(nx) = k - 1 /\ k \in Nat \ {0}
      /\ \A i \in 1 .. k - 1 : nx[i] = st[i]
  BY Popped
<1> HIDE DEF nx
<1>2. ASSUME NEW i \in 1 .. k - 1 PROVE FrameIsRight(nx, i)
  <2>1. FrameIsRight(st, i) /\ nx[i] = st[i]
    BY <1>1, <1>2 DEF Shape
  <2>2. i > 1 => nx[i - 1] = st[i - 1]
    BY <1>1
  <2>3. i < Len(nx) => i < k /\ nx[i + 1] = st[i + 1]
    BY <1>1
  <2> QED
    BY <1>1, <2>1, <2>2, <2>3 DEF FrameIsRight
<1>3. Apart(nx)
  BY <1>1 DEF Apart
<1> QED
  BY <1>1, <1>2, <1>3 DEF Shape, nx

LEMMA MinIsIn ==
    ASSUME NEW S \in SUBSET Nat, S # {}
    PROVE  Min(S) \in S
<1>1. PICK x \in S : \A y \in S : ~(<<y, x>> \in OpToRel(<, Nat))
  BY NatLessThanWellFounded, WFMin
<1>2. ASSUME NEW y \in S PROVE x =< y
  <2>1. ~(<<y, x>> \in {ss \in Nat \X Nat : ss[1] < ss[2]})
    BY <1>1, Zenon DEF OpToRel
  <2> QED
    BY <2>1
<1>3. \E z \in S : \A y \in S : z =< y
  BY <1>2
<1> QED
  BY <1>3 DEF Min

LEMMA ReleasePropertyStep ==
    ASSUME IInv, ReleaseProperty
    PROVE  IInv'
<1> DEFINE k  == Len(stack)
           n  == stack[k].n
           f  == Min(stack[k].todo)
           fr == [stack[k] EXCEPT !.todo = @ \ {f}]
           st == [stack EXCEPT ![k].todo = @ \ {f}]
           x  == heap[n].slot[f]
<1>1. /\ stack # <<>> /\ stack[k].kind = "release" /\ stack[k].todo # {}
      /\ Release(heap, st, x) /\ thrown' = thrown
  BY DEF ReleaseProperty, On, Top, Last
<1>2. /\ k \in Nat \ {0} /\ k \in 1 .. k /\ stack[k] \in FrameType /\ FrameIsRight(stack, k)
      /\ Last(stack) = stack[k]
  BY <1>1, TopFrame DEF Last
<1>3. /\ Types(heap, stack, thrown) /\ Good(heap, stack, thrown, None) /\ stack \in Seq(FrameType)
      /\ Root \in Nodes /\ None \notin Nodes
  BY NodesAreFinite DEF IInv, Good, Types
<1>4. thrown = None
  BY <1>1, <1>2, <1>3 DEF Good, OneException
<1>5. n \in Objects /\ n \in Nodes /\ n # None /\ heap[n].live /\ stack[k].todo \subseteq Fields
  BY <1>1, <1>2, <1>3, NodesAreFinite DEF FrameIsRight, Good, Frames
<1>6. f \in stack[k].todo /\ f \in Fields
  <2>1. stack[k].todo \in SUBSET Nat
    BY <1>5 DEF Fields
  <2> QED
    BY <1>1, <1>5, <2>1, MinIsIn
<1>7. x \in Nodes \cup {None}
  BY <1>3, <1>5, <1>6 DEF Types, BlockType
<1>8. /\ fr \in FrameType /\ fr.kind = "release" /\ fr.n = n /\ fr.exc = stack[k].exc
      /\ fr.todo = stack[k].todo \ {f}
      /\ fr.into = stack[k].into /\ fr.prop = stack[k].prop /\ fr.val = stack[k].val
  BY <1>1, <1>2 DEF FrameType
<1>9. st = [stack EXCEPT ![k] = fr]
  OBVIOUS
<1> HIDE DEF fr, st, f, n, x
<1>10. /\ st \in Seq(FrameType) /\ st # <<>> /\ Len(st) = k
       /\ \A i \in 1 .. k - 1 : st[i] = stack[i]
       /\ st[k] = fr /\ Last(st) = fr
  BY <1>1, <1>3, <1>8, <1>9, Retopped DEF Last
<1>11. Shape(st) /\ Apart(st)
  <2>1. Shape(stack) /\ Apart(stack) /\ fr.todo \subseteq Fields
    BY <1>3, <1>5, <1>8 DEF Good
  <2> QED
    BY <1>1, <1>2, <1>3, <1>8, <1>9, <2>1, RetopKeepsShape DEF n
<1>12. \A i \in 1 .. k : /\ st[i].kind = stack[i].kind /\ st[i].n = stack[i].n
                         /\ st[i].exc = stack[i].exc
                         /\ st[i].todo = IF i = k THEN stack[i].todo \ {f} ELSE stack[i].todo
                         /\ st[i].into = stack[i].into /\ st[i].prop = stack[i].prop
                         /\ st[i].val = stack[i].val
  <2>1. \A i \in 1 .. k : i \in 1 .. k - 1 \/ i = k
    BY <1>2
  <2>2. \A i \in 1 .. k - 1 : i # k
    BY <1>2
  <2> QED
    BY <1>1, <1>8, <1>10, <2>1, <2>2 DEF n
<1>13. /\ Types(heap, st, None) /\ Frames(heap, st) /\ Marks(heap, st) /\ OneException(st, None)
       /\ SameStores(stack, st) /\ Stores(st, None)
  <2>1. Types(heap, st, None)
    BY <1>3, <1>10 DEF Types
  <2>2. Frames(heap, st)
    <3> SUFFICES ASSUME NEW i \in 1 .. k, st[i].n # None
                 PROVE  /\ heap[st[i].n].live /\ heap[st[i].n].running /\ heap[st[i].n].called
                        /\ st[i].kind = "release" => heap[st[i].n].rc = 0
      BY <1>10 DEF Frames
    <3>1. st[i].n = stack[i].n /\ st[i].kind = stack[i].kind
      BY <1>12
    <3>2. Frames(heap, stack)
      BY <1>3 DEF Good
    <3> QED
      BY <3>1, <3>2 DEF Frames
  <2>3. Marks(heap, st)
    <3>1. \A i \in 1 .. k : st[i].n = stack[i].n
      BY <1>12
    <3>2. Marks(heap, stack)
      BY <1>3 DEF Good
    <3> QED
      BY <1>10, <3>1, <3>2 DEF Marks
  <2>4. OneException(st, None)
    BY <1>3, <1>10, <1>12 DEF Good, OneException
  <2>5. SameStores(stack, st)
    <3>1. Len(st) =< Len(stack) /\ \A i \in Len(st) + 1 .. Len(stack) : FALSE
      BY <1>2, <1>10
    <3>2. \A i \in 1 .. Len(st) : /\ st[i].into = stack[i].into /\ st[i].prop = stack[i].prop
                                  /\ st[i].val = stack[i].val
      BY <1>10, <1>12
    <3> QED
      BY <1>3, <1>10, <3>1, <3>2, PoppedBlank
  <2>6. Stores(st, None)
    <3>1. Stores(stack, None) /\ Len(st) \in Nat /\ Len(stack) \in Nat
      BY <1>2, <1>3, <1>4, <1>10 DEF Good
    <3>2. \A j \in 1 .. Len(st) : st[j].exc # None => j \in 1 .. Len(stack) /\ stack[j].exc # None
      BY <1>10, <1>12
    <3> QED
      BY <2>5, <3>1, <3>2, Unwritten
  <2> QED
    BY <2>1, <2>2, <2>3, <2>4, <2>5, <2>6
<1>14. Pins(heap, st) /\ Calls(heap) /\ Blank(heap)
  <2>1. /\ CollectsIn(st) <=> CollectsIn(stack)
        /\ CollectsIn(stack) => st[1].todo = stack[1].todo
    <3>1. 1 \in 1 .. k
      BY <1>2
    <3>2. CollectsIn(stack) => k # 1
      BY <1>1 DEF CollectsIn
    <3> QED
      BY <1>1, <1>10, <1>12, <3>1, <3>2 DEF CollectsIn
  <2>2. Pins(heap, st)
    BY <1>3, <2>1 DEF Good, Pins
  <2> QED
    BY <1>3, <2>2 DEF Good
<1>15. Exact(heap, st, None, x)
  <2> SUFFICES ASSUME NEW m \in Nodes
               PROVE  heap[m].rc = Cardinality(Owners(heap, st, m)) + Others(heap, st, None, x, m)
    BY DEF Exact
  <2> DEFINE T == Owners(heap, stack, m)
             S == Owners(heap, st, m)
  <2>1. heap[m].rc = Cardinality(T) + Others(heap, stack, None, None, m)
    BY <1>3, <1>4 DEF Good, Exact
  <2>2. Flies(stack, None, m) <=> Flies(st, None, m)
    BY <1>3, <1>10, <1>12 DEF Flies
  <2>3. Others(heap, st, None, x, m) = Others(heap, stack, None, None, m) + IF m = x THEN 1 ELSE 0
    <3>1. Held(stack, m) = Held(st, m) /\ Held(stack, m) \in Nat
      BY <1>3, <1>13, StoresKept, HeldIsNumber
    <3> QED
      BY <1>3, <2>2, <3>1 DEF Others
  <2>4. /\ S \in SUBSET (Nodes \X Fields) /\ T \in SUBSET (Nodes \X Fields)
        /\ T \ {<<n, f>>} \in SUBSET (Nodes \X Fields)
        /\ Cardinality(S) \in Nat /\ Cardinality(T) \in Nat
        /\ Others(heap, stack, None, None, m) \in Nat
    BY <1>3, OwnersAreEdges, OthersIsNumber
  <2>5. <<n, f>> \notin S
    <3>1. st[k].kind = "release" /\ st[k].n = n /\ st[k].todo = stack[k].todo \ {f} /\ k \in 1 .. Len(st)
      BY <1>1, <1>2, <1>10, <1>12 DEF n
    <3> QED
      BY <3>1, OwnersDef
  <2>6. ASSUME NEW p \in Nodes, NEW g \in Fields, p # n \/ g # f
        PROVE  <<p, g>> \in S <=> <<p, g>> \in T
    <3>1. (\A i \in 1 .. k : stack[i].kind = "release" /\ stack[i].n = p => g \in stack[i].todo)
          <=> (\A i \in 1 .. k : st[i].kind = "release" /\ st[i].n = p => g \in st[i].todo)
      BY <1>12, <2>6 DEF n
    <3>2. Writes(stack, p, g) <=> Writes(st, p, g)
      BY <1>13, StoresKept
    <3> QED
      BY <1>10, <3>1, <3>2, OwnersDef
  <2>7. <<n, f>> \in T <=> m = x
    <3>1. ASSUME NEW i \in 1 .. k, stack[i].kind = "release", stack[i].n = n PROVE f \in stack[i].todo
      <4>1. CASE i = k
        BY <1>6, <4>1
      <4>2. CASE i # k
        <5>1. i < k /\ stack[i].n # None /\ stack[i].n = stack[k].n
          BY <1>2, <1>5, <3>1, <4>2 DEF n
        <5>2. stack[i].kind = "free"
          BY <1>2, <1>3, <5>1 DEF Good, Apart
        <5> QED
          BY <3>1, <5>2
      <4> QED
        BY <4>1, <4>2
    <3>2. ~Writes(stack, n, f)
      <4>1. \A i \in 1 .. k : stack[i].into # n
        BY <1>1, <1>2, <1>3, <1>5, HeldIsAlive DEF n
      <4> QED
        BY <4>1 DEF Writes
    <3> QED
      BY <1>5, <1>6, <3>1, <3>2, OwnersDef DEF x
  <2>8. \A p \in Nodes, g \in Fields : <<p, g>> \in S <=> <<p, g>> \in T \ {<<n, f>>}
    BY <2>5, <2>6
  <2> HIDE DEF S, T
  <2>9. S = T \ {<<n, f>>}
    BY <2>4, <2>8, SameOwners
  <2>10. CASE m = x
    <3>1. Cardinality(T) = Cardinality(S) + 1
      BY <2>4, <2>7, <2>9, <2>10, OneLess
    <3> QED
      BY <2>1, <2>3, <2>4, <2>10, <3>1 DEF S
  <2>11. CASE m # x
    <3>1. T = S
      BY <2>7, <2>9, <2>11
    <3> QED
      BY <2>1, <2>3, <2>4, <2>11, <3>1 DEF S
  <2> QED
    BY <2>10, <2>11
<1>16. Good(heap, st, None, x)
  BY <1>11, <1>13, <1>14, <1>15 DEF Good
<1>17. Good(heap', stack', None, None)
  BY <1>1, <1>7, <1>8, <1>10, <1>16, ReleaseKeeps
<1> QED
  BY <1>1, <1>4, <1>17 DEF IInv

\* A free or a collection is over: its frame is gone, and if it held an exception this one
\* is in flight again or held by the frame below.
LEMMA FrameIsLeft ==
    ASSUME IInv, stack # <<>>, Top.kind # "destructor", Top.into = None,
           Leave(Front(stack), Top.exc)
    PROVE  /\ stack' \in Seq(FrameType) /\ thrown' \in Objects \cup {None}
           /\ Len(stack) \in Nat \ {0} /\ Len(stack') = Len(stack) - 1
           /\ \A i \in 1 .. Len(stack) - 1 : /\ stack'[i].kind = stack[i].kind
                                             /\ stack'[i].n = stack[i].n
                                             /\ stack'[i].todo = stack[i].todo
           /\ Shape(stack') /\ Apart(stack') /\ OneException(stack', thrown')
           /\ \A m \in Nodes : Flies(stack', thrown', m) <=> Flies(stack, thrown, m)
           /\ stack' = <<>> => thrown' = Top.exc
           /\ SameStores(stack, stack') /\ Stores(stack', thrown')
<1> DEFINE k   == Len(stack)
           st  == Front(stack)
           exc == Top.exc
<1>1. /\ k \in Nat \ {0} /\ k \in 1 .. k /\ Top = stack[k] /\ Top \in FrameType
      /\ Last(stack) = stack[k]
  BY TopFrame DEF Last
<1>2. /\ Types(heap, stack, thrown) /\ Good(heap, stack, thrown, None) /\ stack \in Seq(FrameType)
      /\ None \notin Nodes /\ OneException(stack, thrown)
  BY NodesAreFinite DEF IInv, Good, Types
<1>3. thrown = None
  BY <1>1, <1>2 DEF OneException
<1>4. /\ st \in Seq(FrameType) /\ Len(st) = k - 1
      /\ \A i \in 1 .. k - 1 : st[i] = stack[i]
      /\ st = <<>> <=> k = 1
  BY <1>2, Popped
<1>5. Shape(st) /\ Apart(st)
  BY <1>2, PopKeepsShape DEF Good
<1>6. exc \in Objects \cup {None} /\ exc = stack[k].exc
  BY <1>1 DEF FrameType
<1>7. \A i \in 1 .. k : i \in 1 .. k - 1 \/ i = k
  BY <1>1
<1>8. \A i \in 1 .. k - 1 : i \in 1 .. k /\ i # k
  BY <1>1
<1>9. \A i \in 1 .. k - 1 : exc # None => stack[i].exc = None
  BY <1>1, <1>2, <1>6, <1>8 DEF OneException
<1>13. /\ \A i \in 1 .. k : stack[i].into # None => exc = None
       /\ stack[k].into = None /\ stack[k].val = None
  <2>1. stack[k].into = None /\ stack[k].val = None
    BY <1>1, <1>2 DEF Good, Shape, FrameIsRight
  <2>2. ASSUME NEW i \in 1 .. k, stack[i].into # None PROVE exc = None
    <3>1. k \in i .. k
      BY <1>1
    <3> QED
      BY <1>2, <1>6, <2>2, <3>1 DEF Good, Stores
  <2> QED
    BY <2>1, <2>2
<1>10. \A m \in Nodes : Flies(stack, thrown, m) <=> m = exc \/ \E i \in 1 .. k - 1 : stack[i].exc = m
  BY <1>1, <1>2, <1>3, <1>6, <1>7, <1>8 DEF Flies
<1> HIDE DEF st, exc
<1>11. CASE exc = None \/ st = <<>> \/ Last(st).kind = "destructor"
  <2>1. stack' = st /\ thrown' = exc
    BY <1>11 DEF Leave, st, exc
  <2>2. OneException(stack', thrown')
    <3>1. \A i, j \in 1 .. k - 1 : st[i].exc # None /\ st[j].exc # None => i = j
      BY <1>2, <1>4, <1>8 DEF OneException
    <3>2. \A i \in 1 .. k - 1 : st[i].kind = "destructor" => st[i].exc = None
      BY <1>2, <1>4, <1>8 DEF OneException
    <3>3. exc # None => /\ \A i \in 1 .. k - 1 : st[i].exc = None
                        /\ st = <<>> \/ Last(st).kind = "destructor"
      BY <1>4, <1>9, <1>11
    <3> QED
      BY <1>4, <2>1, <3>1, <3>2, <3>3 DEF OneException
  <2>3. ASSUME NEW m \in Nodes PROVE Flies(stack', thrown', m) <=> Flies(stack, thrown, m)
    BY <1>4, <1>10, <2>1 DEF Flies
  <2>4. SameStores(stack, stack')
    <3>1. /\ Len(stack') =< k
          /\ \A i \in Len(stack') + 1 .. k : i = k
          /\ \A i \in 1 .. Len(stack') : stack'[i] = stack[i]
      BY <1>1, <1>4, <2>1
    <3> QED
      BY <1>2, <1>4, <1>13, <2>1, <3>1, PoppedBlank
  <2>5. Stores(stack', thrown')
    <3>1. \A j \in 1 .. Len(stack') : stack'[j].exc # None => j \in 1 .. k /\ stack[j].exc # None
      BY <1>4, <1>8, <2>1
    <3>2. Stores(stack, thrown) /\ Len(stack') \in Nat /\ k \in Nat
      BY <1>1, <1>2, <1>4, <2>1 DEF Good
    <3> QED
      BY <1>13, <2>1, <2>4, <3>1, <3>2, Unwritten
  <2> QED
    BY <1>1, <1>4, <1>5, <1>6, <2>1, <2>2, <2>3, <2>4, <2>5 DEF exc
<1>12. CASE exc # None /\ st # <<>> /\ Last(st).kind # "destructor"
  <2> DEFINE fr == [st[k - 1] EXCEPT !.exc = exc]
  <2>1. thrown' = None /\ stack' = [st EXCEPT ![Len(st)].exc = exc]
    BY <1>12 DEF Leave, st, exc
  <2>2. k - 1 \in 1 .. k - 1 /\ st[k - 1] \in FrameType /\ Last(st) = st[k - 1]
    BY <1>1, <1>4, <1>12, ElementOfSeq DEF Last
  <2>3. /\ fr \in FrameType /\ fr.kind = st[k - 1].kind /\ fr.n = st[k - 1].n
        /\ fr.todo = st[k - 1].todo /\ fr.exc = exc
        /\ fr.into = st[k - 1].into /\ fr.prop = st[k - 1].prop /\ fr.val = st[k - 1].val
    BY <1>6, <2>2 DEF FrameType
  <2>4. stack' = [st EXCEPT ![Len(st)] = fr]
    BY <1>4, <2>1
  <2> HIDE DEF fr
  <2>5. /\ stack' \in Seq(FrameType) /\ stack' # <<>> /\ Len(stack') = k - 1
        /\ \A i \in 1 .. (k - 1) - 1 : stack'[i] = st[i]
        /\ stack'[k - 1] = fr
    BY <1>4, <1>12, <2>3, <2>4, Retopped
  <2>6. Shape(stack') /\ Apart(stack')
    <3>1. FrameIsRight(st, k - 1)
      BY <1>4, <1>5, <2>2 DEF Shape
    <3>2. /\ fr.kind = "release" => fr.todo \subseteq Fields
          /\ fr.kind = "collect" => fr.todo \subseteq Objects
      BY <2>3, <3>1 DEF FrameIsRight
    <3> QED
      BY <1>4, <1>5, <1>12, <2>2, <2>3, <2>4, <3>2, RetopKeepsShape
  <2>7. \A i \in 1 .. k - 1 : i \in 1 .. (k - 1) - 1 \/ i = k - 1
    BY <1>1
  <2>8. \A i \in 1 .. (k - 1) - 1 : i \in 1 .. k - 1 /\ i # k - 1
    BY <1>1
  <2>9. \A i \in 1 .. k - 1 : /\ stack'[i].kind = stack[i].kind /\ stack'[i].n = stack[i].n
                              /\ stack'[i].todo = stack[i].todo
                              /\ stack'[i].exc = IF i = k - 1 THEN exc ELSE stack[i].exc
                              /\ stack'[i].into = stack[i].into /\ stack'[i].prop = stack[i].prop
                              /\ stack'[i].val = stack[i].val
    <3>1. ASSUME NEW i \in 1 .. (k - 1) - 1 PROVE stack'[i] = stack[i] /\ i # k - 1
      BY <1>4, <2>5, <2>8
    <3>2. /\ stack'[k - 1].kind = stack[k - 1].kind /\ stack'[k - 1].n = stack[k - 1].n
          /\ stack'[k - 1].todo = stack[k - 1].todo /\ stack'[k - 1].exc = exc
          /\ stack'[k - 1].into = stack[k - 1].into /\ stack'[k - 1].prop = stack[k - 1].prop
          /\ stack'[k - 1].val = stack[k - 1].val
      BY <1>4, <2>2, <2>3, <2>5
    <3> QED
      BY <2>7, <3>1, <3>2
  <2>10. OneException(stack', thrown')
    <3>1. \A i \in 1 .. k - 1 : stack'[i].exc # None => i = k - 1
      BY <1>9, <1>12, <2>9
    <3>2. stack'[k - 1].kind # "destructor"
      BY <1>12, <2>2, <2>3, <2>5
    <3> QED
      BY <2>1, <2>5, <3>1, <3>2 DEF OneException
  <2>11. ASSUME NEW m \in Nodes PROVE Flies(stack', thrown', m) <=> Flies(stack, thrown, m)
    <3>1. Flies(stack', thrown', m) <=> \E i \in 1 .. k - 1 : stack'[i].exc = m
      BY <1>2, <2>1, <2>5 DEF Flies
    <3>2. (\E i \in 1 .. k - 1 : stack'[i].exc = m) <=> m = exc
      BY <1>2, <1>9, <1>12, <2>2, <2>9
    <3>3. ~\E i \in 1 .. k - 1 : stack[i].exc = m
      BY <1>2, <1>9, <1>12
    <3> QED
      BY <1>10, <3>1, <3>2, <3>3
  <2>12. SameStores(stack, stack')
    <3>1. Len(stack') =< k /\ \A i \in Len(stack') + 1 .. k : i = k
      BY <1>1, <2>5
    <3> QED
      BY <1>2, <1>13, <2>5, <2>9, <3>1, PoppedBlank
  <2>13. Stores(stack', thrown')
    <3>1. \A i \in 1 .. k : stack[i].into = None
      BY <1>12, <1>13
    <3> QED
      BY <2>12, <3>1 DEF Stores, SameStores
  <2> QED
    BY <1>1, <2>1, <2>5, <2>6, <2>9, <2>10, <2>11, <2>12, <2>13
<1> QED
  BY <1>11, <1>12

\* Nothing below works on the same block, except that a free waits for its destructor.
LEMMA TopIsAlone ==
    ASSUME IInv, stack # <<>>, Top.n # None,
           Top.kind # "destructor" \/ stack[Len(stack) - 1].kind = "collect"
    PROVE  \A i \in 1 .. Len(stack) - 1 : stack[i].n # Top.n
<1> DEFINE k == Len(stack)
<1> SUFFICES ASSUME NEW i \in 1 .. k - 1, stack[i].n = Top.n PROVE FALSE
  OBVIOUS
<1>1. k \in Nat \ {0} /\ k \in 1 .. k /\ Top = stack[k] /\ i \in 1 .. k /\ i < k
  BY TopFrame
<1>2. k = i + 1 /\ stack[i].kind = "free"
  BY <1>1 DEF IInv, Good, Apart
<1>3. FrameIsRight(stack, i)
  BY <1>1 DEF IInv, Good, Shape
<1>4. stack[k].kind = "destructor" /\ k - 1 = i
  BY <1>1, <1>2, <1>3 DEF FrameIsRight
<1> QED
  BY <1>1, <1>2, <1>4

\* The free of n is over, and n alone is different.
LEMMA FreeIsLeft ==
    ASSUME IInv, stack # <<>>, Top.kind \in {"free", "release"}, Leave(Front(stack), Top.exc),
           heap' \in [Nodes -> BlockType], ~heap'[Top.n].running,
           \A m \in Nodes : m # Top.n => heap'[m] = heap[m]
    PROVE  /\ Types(heap', stack', thrown') /\ Shape(stack') /\ Apart(stack')
           /\ Frames(heap', stack') /\ Marks(heap', stack') /\ OneException(stack', thrown')
           /\ CollectsIn(stack') <=> CollectsIn(stack)
           /\ CollectsIn(stack) => stack'[1].todo = stack[1].todo
           /\ SameStores(stack, stack') /\ Stores(stack', thrown')
           /\ Top.into = None
<1> DEFINE k == Len(stack)
           n == Top.n
<1>1. /\ k \in Nat \ {0} /\ k \in 1 .. k /\ Top = stack[k] /\ Top \in FrameType
      /\ FrameIsRight(stack, k)
  BY TopFrame
<1>2. /\ Good(heap, stack, thrown, None) /\ stack \in Seq(FrameType)
      /\ None \notin Nodes /\ n \in Objects /\ n \in Nodes /\ n # None
      /\ Top.into = None
  BY <1>1, NodesAreFinite DEF IInv, Good, Types, FrameIsRight
<1>3. /\ stack' \in Seq(FrameType) /\ thrown' \in Objects \cup {None}
      /\ Len(stack') = k - 1
      /\ \A i \in 1 .. k - 1 : /\ stack'[i].kind = stack[i].kind /\ stack'[i].n = stack[i].n
                               /\ stack'[i].todo = stack[i].todo
      /\ Shape(stack') /\ Apart(stack') /\ OneException(stack', thrown')
      /\ SameStores(stack, stack') /\ Stores(stack', thrown')
  BY <1>2, FrameIsLeft
<1>4. \A i \in 1 .. k - 1 : stack[i].n # n
  BY <1>2, TopIsAlone
<1>5. Frames(heap', stack')
  <2> SUFFICES ASSUME NEW i \in 1 .. k - 1, stack'[i].n # None
               PROVE  /\ heap'[stack'[i].n].live /\ heap'[stack'[i].n].running
                      /\ heap'[stack'[i].n].called
                      /\ stack'[i].kind = "release" => heap'[stack'[i].n].rc = 0
    BY <1>3 DEF Frames
  <2>1. /\ i \in 1 .. k /\ stack[i].n # None /\ stack[i] \in FrameType
        /\ stack'[i].n = stack[i].n /\ stack'[i].kind = stack[i].kind
    BY <1>1, <1>2, <1>3, ElementOfSeq
  <2>2. stack[i].n \in Nodes /\ heap'[stack[i].n] = heap[stack[i].n]
    BY <1>4, <2>1, NodesAreFinite DEF FrameType
  <2> QED
    BY <1>2, <2>1, <2>2 DEF Good, Frames
<1>6. Marks(heap', stack')
  <2> SUFFICES ASSUME NEW m \in Nodes, heap'[m].running PROVE \E i \in 1 .. k - 1 : stack'[i].n = m
    BY <1>3 DEF Marks
  <2>1. m # n /\ heap[m].running
    OBVIOUS
  <2>2. PICK i \in 1 .. k : stack[i].n = m
    BY <1>2, <2>1 DEF Good, Marks
  <2>3. i \in 1 .. k - 1
    BY <1>1, <2>1, <2>2
  <2> QED
    BY <1>3, <2>2, <2>3
<1>7. /\ CollectsIn(stack') <=> CollectsIn(stack)
      /\ CollectsIn(stack) => stack'[1].todo = stack[1].todo
  <2>1. CASE k = 1
    <3>1. stack' = <<>>
      BY <1>3, <2>1, EmptySeq
    <3> QED
      BY <1>1, <2>1, <3>1 DEF CollectsIn
  <2>2. CASE k # 1
    <3>1. 1 \in 1 .. k - 1 /\ stack' # <<>>
      BY <1>1, <1>3, <2>2, EmptySeq
    <3> QED
      BY <1>3, <3>1 DEF CollectsIn
  <2> QED
    BY <2>1, <2>2
<1> QED
  BY <1>2, <1>3, <1>5, <1>6, <1>7 DEF Types

LEMMA ResurrectStep ==
    ASSUME IInv, Resurrect
    PROVE  IInv'
<1> DEFINE k == Len(stack)
           n == Top.n
<1>1. /\ stack # <<>> /\ Top.kind = "free" /\ Leave(Front(stack), Top.exc)
      /\ heap' = [heap EXCEPT ![n].running = FALSE]
  BY DEF Resurrect, On
<1>2. /\ k \in Nat \ {0} /\ k \in 1 .. k /\ Top = stack[k] /\ Top \in FrameType
      /\ FrameIsRight(stack, k)
  BY <1>1, TopFrame
<1>3. /\ Types(heap, stack, thrown) /\ Good(heap, stack, thrown, None) /\ stack \in Seq(FrameType)
      /\ None \notin Nodes /\ Root \in Nodes /\ n \in Nodes /\ heap[n] \in BlockType
      /\ heap \in [Nodes -> BlockType]
  BY <1>1, <1>2, NodesAreFinite DEF IInv, Good, Types, FrameIsRight
<1>4. heap[n].live
  BY <1>1, <1>2, <1>3 DEF Good, Frames
<1>5. /\ heap' \in [Nodes -> BlockType] /\ ~heap'[n].running
      /\ \A m \in Nodes : m # n => heap'[m] = heap[m]
      /\ \A m \in Nodes : /\ heap'[m].live = heap[m].live /\ heap'[m].rc = heap[m].rc
                          /\ heap'[m].called = heap[m].called /\ heap'[m].pin = heap[m].pin
                          /\ heap'[m].dtor = heap[m].dtor /\ heap'[m].calls = heap[m].calls
                          /\ heap'[m].slot = heap[m].slot
  <2> DEFINE b == [heap[n] EXCEPT !.running = FALSE]
  <2>1. /\ b \in BlockType /\ ~b.running /\ b.live = heap[n].live /\ b.rc = heap[n].rc
        /\ b.called = heap[n].called /\ b.pin = heap[n].pin /\ b.dtor = heap[n].dtor
        /\ b.calls = heap[n].calls /\ b.slot = heap[n].slot
    BY <1>3 DEF BlockType
  <2>2. heap' = [heap EXCEPT ![n] = b]
    BY <1>1
  <2> HIDE DEF b
  <2> QED
    BY <1>3, <2>1, <2>2
<1>6. /\ Types(heap', stack', thrown') /\ Shape(stack') /\ Apart(stack')
      /\ Frames(heap', stack') /\ Marks(heap', stack') /\ OneException(stack', thrown')
      /\ CollectsIn(stack') <=> CollectsIn(stack)
      /\ CollectsIn(stack) => stack'[1].todo = stack[1].todo
      /\ SameStores(stack, stack') /\ Stores(stack', thrown') /\ Top.into = None
  BY <1>1, <1>5, FreeIsLeft
<1>7. Pins(heap', stack')
  BY <1>3, <1>5, <1>6 DEF Good, Pins
<1>8. Calls(heap')
  BY <1>3, <1>5 DEF Good, Calls
<1>9. Blank(heap')
  BY <1>3, <1>4, <1>5 DEF Good, Blank
<1>10. Exact(heap', stack', thrown', None)
  <2> SUFFICES ASSUME NEW m \in Nodes
               PROVE  heap'[m].rc = Cardinality(Owners(heap', stack', m)) + Others(heap', stack', thrown', None, m)
    BY DEF Exact
  <2>1. heap[m].rc = Cardinality(Owners(heap, stack, m)) + Others(heap, stack, thrown, None, m)
    BY <1>3 DEF Good, Exact
  <2>2. /\ Len(stack') = k - 1
        /\ \A i \in 1 .. k - 1 : /\ stack'[i].kind = stack[i].kind /\ stack'[i].n = stack[i].n
                                 /\ stack'[i].todo = stack[i].todo
        /\ Flies(stack', thrown', m) <=> Flies(stack, thrown, m)
        /\ Held(stack', m) = Held(stack, m)
    BY <1>1, <1>6, FrameIsLeft, StoresKept
  <2>3. ASSUME NEW p \in Nodes, NEW f \in Fields
        PROVE  <<p, f>> \in Owners(heap, stack, m) <=> <<p, f>> \in Owners(heap', stack', m)
    <3>1. heap'[p].live = heap[p].live /\ heap'[p].slot[f] = heap[p].slot[f]
      BY <1>5
    <3>2. \A i \in 1 .. k : i \in 1 .. k - 1 \/ i = k
      BY <1>2
    <3>3. \A i \in 1 .. k - 1 : i \in 1 .. k
      BY <1>2
    <3>4. (\A i \in 1 .. k : stack[i].kind = "release" /\ stack[i].n = p => f \in stack[i].todo)
          <=> (\A i \in 1 .. Len(stack') : stack'[i].kind = "release" /\ stack'[i].n = p => f \in stack'[i].todo)
      BY <1>1, <1>2, <2>2, <3>2, <3>3
    <3>5. Writes(stack, p, f) <=> Writes(stack', p, f)
      BY <1>6, StoresKept
    <3> QED
      BY <3>1, <3>4, <3>5, OwnersDef
  <2>4. Owners(heap, stack, m) = Owners(heap', stack', m)
    BY <2>3, SameOwners, OwnersAreEdges
  <2> QED
    BY <1>5, <2>1, <2>2, <2>4 DEF Others
<1>11. Good(heap', stack', thrown', None)
  BY <1>6, <1>7, <1>8, <1>9, <1>10 DEF Good
<1> QED
  BY <1>11 DEF IInv

LEMMA FreeBlockStep ==
    ASSUME IInv, FreeBlock
    PROVE  IInv'
<1> DEFINE k == Len(stack)
           n == Top.n
<1>1. /\ stack # <<>> /\ Top.kind = "release" /\ Top.todo = {} /\ Leave(Front(stack), Top.exc)
      /\ heap' = [heap EXCEPT ![n] = Free]
  BY DEF FreeBlock, On
<1>2. /\ k \in Nat \ {0} /\ k \in 1 .. k /\ Top = stack[k] /\ Top \in FrameType
      /\ FrameIsRight(stack, k)
  BY <1>1, TopFrame
<1>3. /\ Types(heap, stack, thrown) /\ Good(heap, stack, thrown, None) /\ stack \in Seq(FrameType)
      /\ None \notin Nodes /\ Root \in Nodes /\ n \in Nodes /\ n # None /\ heap[n] \in BlockType
      /\ heap \in [Nodes -> BlockType]
  BY <1>1, <1>2, NodesAreFinite DEF IInv, Good, Types, FrameIsRight
<1>4. /\ heap[n].live /\ heap[n].rc = 0
      /\ n # Root /\ ~heap[n].pin /\ ~Flies(stack, thrown, n) /\ Owners(heap, stack, n) = {}
  <2>1. heap[n].live /\ heap[n].rc = 0
    BY <1>1, <1>2, <1>3 DEF Good, Frames
  <2>2. heap[n].rc \in Nat /\ ~(heap[n].rc > 0)
    BY <2>1
  <2> QED
    BY <1>3, <2>1, <2>2, HeldIsAlive
<1>5. /\ heap' \in [Nodes -> BlockType] /\ heap'[n] = Free
      /\ ~Free.running /\ ~Free.live /\ Free.rc = 0 /\ ~Free.pin /\ ~Free.called /\ Free.calls = 0
      /\ ~Free.dtor
      /\ \A m \in Nodes : m # n => heap'[m] = heap[m]
  <2>1. [f \in Fields |-> None] \in [Fields -> Nodes \cup {None}]
    OBVIOUS
  <2>2. Free \in BlockType
    BY <2>1 DEF Free, Block, BlockType
  <2>3. ~Free.running /\ ~Free.live /\ Free.rc = 0 /\ ~Free.pin /\ ~Free.called /\ Free.calls = 0 /\ ~Free.dtor
    BY DEF Free, Block
  <2> QED
    BY <1>1, <1>3, <2>2, <2>3
<1>6. /\ Types(heap', stack', thrown') /\ Shape(stack') /\ Apart(stack')
      /\ Frames(heap', stack') /\ Marks(heap', stack') /\ OneException(stack', thrown')
      /\ CollectsIn(stack') <=> CollectsIn(stack)
      /\ CollectsIn(stack) => stack'[1].todo = stack[1].todo
      /\ SameStores(stack, stack') /\ Stores(stack', thrown') /\ Top.into = None
  BY <1>1, <1>5, FreeIsLeft
<1>7. Pins(heap', stack')
  <2>1. ASSUME NEW m \in Nodes
        PROVE  /\ heap'[m].pin => CollectsIn(stack') /\ m # Root /\ (heap'[m].called \/ m \in stack'[1].todo)
               /\ CollectsIn(stack') /\ m \in stack'[1].todo => heap'[m].pin /\ ~heap'[m].called
    <3>1. CASE m = n
      BY <1>3, <1>4, <1>5, <1>6, <3>1 DEF Good, Pins
    <3>2. CASE m # n
      BY <1>3, <1>5, <1>6, <3>2 DEF Good, Pins
    <3> QED
      BY <3>1, <3>2
  <2> QED
    BY <2>1 DEF Pins
<1>8. Calls(heap')
  BY <1>3, <1>5 DEF Good, Calls
<1>9. Blank(heap')
  BY <1>3, <1>4, <1>5 DEF Good, Blank
<1>10. Exact(heap', stack', thrown', None)
  <2> SUFFICES ASSUME NEW m \in Nodes
               PROVE  heap'[m].rc = Cardinality(Owners(heap', stack', m)) + Others(heap', stack', thrown', None, m)
    BY DEF Exact
  <2>1. heap[m].rc = Cardinality(Owners(heap, stack, m)) + Others(heap, stack, thrown, None, m)
    BY <1>3 DEF Good, Exact
  <2>2. /\ Len(stack') = k - 1
        /\ \A i \in 1 .. k - 1 : /\ stack'[i].kind = stack[i].kind /\ stack'[i].n = stack[i].n
                                 /\ stack'[i].todo = stack[i].todo
        /\ Flies(stack', thrown', m) <=> Flies(stack, thrown, m)
        /\ Held(stack', m) = Held(stack, m)
    BY <1>1, <1>6, FrameIsLeft, StoresKept
  <2>3. ASSUME NEW p \in Nodes, NEW f \in Fields
        PROVE  <<p, f>> \in Owners(heap, stack, m) <=> <<p, f>> \in Owners(heap', stack', m)
    <3>1. CASE p = n
      <4>1. <<p, f>> \notin Owners(heap, stack, m)
        BY <1>1, <1>2, <3>1, OwnersDef
      <4>2. <<p, f>> \notin Owners(heap', stack', m)
        BY <1>5, <3>1, OwnersDef
      <4> QED
        BY <4>1, <4>2
    <3>2. CASE p # n
      <4>1. heap'[p].live = heap[p].live /\ heap'[p].slot[f] = heap[p].slot[f]
        BY <1>5, <3>2
      <4>2. \A i \in 1 .. k : i \in 1 .. k - 1 \/ i = k
        BY <1>2
      <4>3. \A i \in 1 .. k - 1 : i \in 1 .. k
        BY <1>2
      <4>4. (\A i \in 1 .. k : stack[i].kind = "release" /\ stack[i].n = p => f \in stack[i].todo)
            <=> (\A i \in 1 .. Len(stack') : stack'[i].kind = "release" /\ stack'[i].n = p => f \in stack'[i].todo)
        BY <1>2, <2>2, <3>2, <4>2, <4>3
      <4>5. Writes(stack, p, f) <=> Writes(stack', p, f)
        BY <1>6, StoresKept
      <4> QED
        BY <4>1, <4>4, <4>5, OwnersDef
    <3> QED
      BY <3>1, <3>2
  <2>4. Owners(heap, stack, m) = Owners(heap', stack', m)
    BY <2>3, SameOwners, OwnersAreEdges
  <2>5. heap'[m].rc = heap[m].rc /\ (heap'[m].pin <=> heap[m].pin)
    BY <1>4, <1>5
  <2> QED
    BY <2>1, <2>2, <2>4, <2>5 DEF Others
<1>11. Good(heap', stack', thrown', None)
  BY <1>6, <1>7, <1>8, <1>9, <1>10 DEF Good
<1> QED
  BY <1>11 DEF IInv

LEMMA DismantleStep ==
    ASSUME IInv, Dismantle
    PROVE  IInv'
<1> DEFINE k  == Len(stack)
           n  == Top.n
           fr == [stack[k] EXCEPT !.kind = "release", !.todo = Fields]
<1>1. /\ stack # <<>> /\ Top.kind = "free" /\ heap[n].rc = 0
      /\ stack' = [stack EXCEPT ![k].kind = "release", ![k].todo = Fields]
      /\ heap' = heap /\ thrown' = thrown
  BY DEF Dismantle, On
<1>2. /\ k \in Nat \ {0} /\ k \in 1 .. k /\ Top = stack[k] /\ Top \in FrameType
      /\ FrameIsRight(stack, k) /\ Last(stack) = stack[k]
  BY <1>1, TopFrame DEF Last
<1>3. /\ Types(heap, stack, thrown) /\ Good(heap, stack, thrown, None) /\ stack \in Seq(FrameType)
      /\ None \notin Nodes /\ n \in Nodes /\ n # None
  BY <1>1, <1>2, NodesAreFinite DEF IInv, Good, Types, FrameIsRight
<1>4. thrown = None
  BY <1>1, <1>2, <1>3 DEF Good, OneException
<1>5. /\ fr \in FrameType /\ fr.kind = "release" /\ fr.n = n /\ fr.todo = Fields
      /\ fr.exc = stack[k].exc /\ fr.into = stack[k].into /\ fr.prop = stack[k].prop
      /\ fr.val = stack[k].val
  BY <1>2 DEF FrameType
<1>6. stack' = [stack EXCEPT ![k] = fr]
  BY <1>1, <1>2, <1>3
<1> HIDE DEF fr
<1>7. /\ stack' \in Seq(FrameType) /\ stack' # <<>> /\ Len(stack') = k
      /\ \A i \in 1 .. k - 1 : stack'[i] = stack[i]
      /\ stack'[k] = fr
  <2>1. stack # <<>>
    BY <1>1
  <2> QED
    BY <1>3, <1>5, <1>6, <2>1, Retopped
<1>8. Shape(stack') /\ Apart(stack')
  BY <1>1, <1>2, <1>3, <1>5, <1>6, RetopKeepsShape DEF Good
<1>9. \A i \in 1 .. k : /\ i # k => stack'[i] = stack[i]
                        /\ stack'[i].n = stack[i].n /\ stack'[i].exc = stack[i].exc
                        /\ stack'[i].into = stack[i].into /\ stack'[i].prop = stack[i].prop
                        /\ stack'[i].val = stack[i].val
  <2>1. \A i \in 1 .. k : i \in 1 .. k - 1 \/ i = k
    BY <1>2
  <2> QED
    BY <1>2, <1>5, <1>7, <2>1
<1>10. Types(heap', stack', thrown') /\ Frames(heap', stack') /\ Marks(heap', stack')
  <2>1. Types(heap', stack', thrown')
    BY <1>1, <1>3, <1>7 DEF Types
  <2>2. Frames(heap', stack')
    BY <1>1, <1>2, <1>3, <1>7, <1>9 DEF Good, Frames
  <2>3. Marks(heap', stack')
    BY <1>1, <1>3, <1>7, <1>9 DEF Good, Marks
  <2> QED
    BY <2>1, <2>2, <2>3
<1>11. /\ OneException(stack', thrown')
       /\ SameStores(stack, stack') /\ Stores(stack', thrown')
  <2>1. \A i \in 1 .. k : stack'[i].kind = "destructor" => stack[i].kind = "destructor"
    BY <1>2, <1>5, <1>7, <1>9
  <2>2. OneException(stack', thrown')
    BY <1>1, <1>3, <1>4, <1>7, <1>9, <2>1 DEF Good, OneException
  <2>3. SameStores(stack, stack')
    <3>1. Len(stack') =< k /\ \A i \in Len(stack') + 1 .. k : FALSE
      BY <1>2, <1>7
    <3> QED
      BY <1>3, <1>7, <1>9, <3>1, PoppedBlank
  <2>4. Stores(stack', thrown')
    <3>1. Stores(stack, thrown) /\ Len(stack') \in Nat /\ k \in Nat
      BY <1>2, <1>3, <1>7 DEF Good
    <3>2. \A j \in 1 .. Len(stack') : stack'[j].exc # None => j \in 1 .. k /\ stack[j].exc # None
      BY <1>7, <1>9
    <3> QED
      BY <1>1, <1>4, <2>3, <3>1, <3>2, Unwritten
  <2> QED
    BY <2>2, <2>3, <2>4
<1>12. Pins(heap', stack')
  <2>1. /\ CollectsIn(stack') <=> CollectsIn(stack)
        /\ CollectsIn(stack) => stack'[1].todo = stack[1].todo
    <3>1. CASE k = 1
      BY <1>1, <1>2, <1>5, <1>7, <3>1 DEF CollectsIn
    <3>2. CASE k # 1
      <4>1. 1 \in 1 .. k
        BY <1>2
      <4> QED
        BY <1>1, <1>7, <1>9, <3>2, <4>1 DEF CollectsIn
    <3> QED
      BY <3>1, <3>2
  <2> QED
    BY <1>1, <1>3, <2>1 DEF Good, Pins
<1>13. Exact(heap', stack', thrown', None)
  <2> SUFFICES ASSUME NEW m \in Nodes
               PROVE  heap[m].rc = Cardinality(Owners(heap, stack', m)) + Others(heap, stack', None, None, m)
    BY <1>1, <1>4 DEF Exact
  <2>1. heap[m].rc = Cardinality(Owners(heap, stack, m)) + Others(heap, stack, None, None, m)
    BY <1>3, <1>4 DEF Good, Exact
  <2>2. ASSUME NEW p \in Nodes, NEW f \in Fields
        PROVE  <<p, f>> \in Owners(heap, stack, m) <=> <<p, f>> \in Owners(heap, stack', m)
    <3>1. stack[k].kind = "free" /\ stack'[k].todo = Fields
      BY <1>1, <1>2, <1>5, <1>7
    <3>2. (\A i \in 1 .. k : stack[i].kind = "release" /\ stack[i].n = p => f \in stack[i].todo)
          <=> (\A i \in 1 .. k : stack'[i].kind = "release" /\ stack'[i].n = p => f \in stack'[i].todo)
      BY <1>9, <3>1
    <3>3. Writes(stack, p, f) <=> Writes(stack', p, f)
      BY <1>11, StoresKept
    <3> QED
      BY <1>7, <3>2, <3>3, OwnersDef
  <2>3. Owners(heap, stack, m) = Owners(heap, stack', m)
    BY <2>2, SameOwners, OwnersAreEdges
  <2>4. Flies(stack, None, m) <=> Flies(stack', None, m)
    BY <1>7, <1>9 DEF Flies
  <2>5. Held(stack, m) = Held(stack', m)
    BY <1>11, StoresKept
  <2> QED
    BY <2>1, <2>3, <2>4, <2>5 DEF Others
<1>14. Good(heap', stack', thrown', None)
  BY <1>1, <1>3, <1>8, <1>10, <1>11, <1>12, <1>13 DEF Good
<1> QED
  BY <1>14 DEF IInv

\* A destructor is over: its frame is gone, and what it threw is held by the one below.
LEMMA DestructorIsLeft ==
    ASSUME IInv, Return
    PROVE  /\ stack # <<>> /\ Top.kind = "destructor"
           /\ Len(stack) \in Nat \ {0, 1} /\ Len(stack') = Len(stack) - 1
           /\ stack' \in Seq(FrameType)
           /\ \A i \in 1 .. Len(stack) - 1 : /\ stack'[i].kind = stack[i].kind
                                             /\ stack'[i].n = stack[i].n
                                             /\ stack'[i].todo = stack[i].todo
           /\ Shape(stack') /\ Apart(stack') /\ OneException(stack', None)
           /\ \A m \in Nodes : Flies(stack', None, m) <=> Flies(stack, thrown, m)
           /\ Last(Front(stack)) = stack[Len(stack) - 1]
           /\ SameStores(stack, stack') /\ Stores(stack', None)
<1> DEFINE k  == Len(stack)
           st == Front(stack)
           fr == [stack[k - 1] EXCEPT !.exc = thrown]
<1>1. /\ stack # <<>> /\ Top.kind = "destructor"
      /\ stack' = IF thrown = None THEN st ELSE [st EXCEPT ![Len(st)].exc = thrown]
  BY DEF Return, On
<1>2. /\ k \in Nat \ {0} /\ k \in 1 .. k /\ Top = stack[k] /\ Top \in FrameType
      /\ FrameIsRight(stack, k) /\ Last(stack) = stack[k]
  BY <1>1, TopFrame DEF Last
<1>3. k > 1 /\ stack[k - 1].kind \in {"collect", "free"}
  BY <1>1, <1>2 DEF FrameIsRight
<1>4. /\ Types(heap, stack, thrown) /\ Good(heap, stack, thrown, None) /\ stack \in Seq(FrameType)
      /\ thrown \in Objects \cup {None} /\ OneException(stack, thrown)
      /\ None \notin Nodes
  BY NodesAreFinite DEF IInv, Good, Types
<1>5. /\ st \in Seq(FrameType) /\ Len(st) = k - 1 /\ st # <<>>
      /\ \A i \in 1 .. k - 1 : st[i] = stack[i]
      /\ Shape(st) /\ Apart(st)
  BY <1>1, <1>3, <1>4, Popped, PopKeepsShape DEF Good
<1>6. /\ k - 1 \in 1 .. k - 1 /\ st[k - 1] = stack[k - 1] /\ stack[k - 1] \in FrameType
      /\ Last(st) = stack[k - 1]
  BY <1>2, <1>3, <1>5, ElementOfSeq DEF Last
<1>7. /\ fr \in FrameType /\ fr.kind = stack[k - 1].kind /\ fr.n = stack[k - 1].n
      /\ fr.todo = stack[k - 1].todo /\ fr.exc = thrown
      /\ fr.into = stack[k - 1].into /\ fr.prop = stack[k - 1].prop /\ fr.val = stack[k - 1].val
  BY <1>4, <1>6 DEF FrameType
<1>8. \A i \in 1 .. k : i \in 1 .. k - 1 \/ i = k
  BY <1>2
<1>9. \A i \in 1 .. k - 1 : i \in 1 .. k
  BY <1>2
<1>10. stack[k].exc = None
  BY <1>1, <1>2, <1>4 DEF OneException
<1>11. /\ stack # <<>> /\ Top.kind = "destructor" /\ k \in Nat \ {0, 1}
       /\ Last(Front(stack)) = stack[k - 1]
       /\ stack[k].into = None /\ stack[k].val = None
  BY <1>1, <1>2, <1>3, <1>6 DEF FrameIsRight
<1> HIDE DEF st
<1>12. CASE thrown = None
  <2>1. stack' = st
    BY <1>1, <1>12
  <2>2. OneException(stack', None)
    BY <1>4, <1>5, <1>9, <2>1 DEF OneException
  <2>3. ASSUME NEW m \in Nodes PROVE Flies(stack', None, m) <=> Flies(stack, thrown, m)
    BY <1>4, <1>5, <1>8, <1>9, <1>10, <1>12, <2>1 DEF Flies
  <2>4. SameStores(stack, stack')
    <3>1. /\ Len(stack') =< k
          /\ \A i \in Len(stack') + 1 .. k : i = k
          /\ \A i \in 1 .. Len(stack') : stack'[i] = stack[i]
      BY <1>2, <1>5, <2>1
    <3> QED
      BY <1>4, <1>5, <1>11, <2>1, <3>1, PoppedBlank
  <2>5. Stores(stack', None)
    <3>1. \A j \in 1 .. Len(stack') : stack'[j].exc # None => j \in 1 .. k /\ stack[j].exc # None
      BY <1>5, <1>9, <2>1
    <3>2. Stores(stack, thrown) /\ Len(stack') \in Nat /\ k \in Nat
      BY <1>2, <1>4, <1>5, <2>1 DEF Good
    <3> QED
      BY <1>12, <2>4, <3>1, <3>2, Unwritten
  <2> QED
    BY <1>5, <1>11, <2>1, <2>2, <2>3, <2>4, <2>5
<1>13. CASE thrown # None
  <2>1. \A i \in 1 .. k : stack[i].exc = None
    BY <1>4, <1>13 DEF OneException
  <2>2. stack' = [st EXCEPT ![Len(st)] = fr]
    BY <1>1, <1>5, <1>6, <1>13
  <2> HIDE DEF fr
  <2>3. /\ stack' \in Seq(FrameType) /\ stack' # <<>> /\ Len(stack') = k - 1
        /\ \A i \in 1 .. (k - 1) - 1 : stack'[i] = st[i]
        /\ stack'[k - 1] = fr
    BY <1>5, <1>7, <2>2, Retopped
  <2>4. Shape(stack') /\ Apart(stack')
    <3>1. FrameIsRight(st, k - 1)
      BY <1>5, <1>6 DEF Shape
    <3>2. /\ fr.kind = "release" => fr.todo \subseteq Fields
          /\ fr.kind = "collect" => fr.todo \subseteq Objects
      BY <1>6, <1>7, <3>1 DEF FrameIsRight
    <3> QED
      BY <1>5, <1>6, <1>7, <2>2, <3>2, RetopKeepsShape
  <2>5. \A i \in 1 .. k - 1 : /\ stack'[i].kind = stack[i].kind /\ stack'[i].n = stack[i].n
                              /\ stack'[i].todo = stack[i].todo
                              /\ stack'[i].exc = IF i = k - 1 THEN thrown ELSE None
                              /\ stack'[i].into = stack[i].into /\ stack'[i].prop = stack[i].prop
                              /\ stack'[i].val = stack[i].val
    <3>1. ASSUME NEW i \in 1 .. (k - 1) - 1
          PROVE  i # k - 1 /\ stack'[i] = stack[i] /\ stack[i].exc = None
      BY <1>2, <1>5, <1>9, <2>1, <2>3
    <3>2. \A i \in 1 .. k - 1 : i \in 1 .. (k - 1) - 1 \/ i = k - 1
      BY <1>2
    <3> QED
      BY <1>7, <2>3, <3>1, <3>2
  <2>6. OneException(stack', None)
    <3>1. \A i \in 1 .. k - 1 : stack'[i].kind = "destructor" => i # k - 1
      BY <1>3, <1>6, <2>5
    <3> QED
      BY <2>3, <2>5, <3>1 DEF OneException
  <2>7. ASSUME NEW m \in Nodes PROVE Flies(stack', None, m) <=> Flies(stack, thrown, m)
    <3>1. Flies(stack', None, m) <=> m = thrown
      BY <1>4, <1>6, <2>3, <2>5 DEF Flies
    <3>2. Flies(stack, thrown, m) <=> m = thrown
      BY <1>4, <2>1 DEF Flies
    <3> QED
      BY <3>1, <3>2
  <2>8. SameStores(stack, stack')
    <3>1. Len(stack') =< k /\ \A i \in Len(stack') + 1 .. k : i = k
      BY <1>2, <2>3
    <3> QED
      BY <1>4, <1>11, <2>3, <2>5, <3>1, PoppedBlank
  <2>9. Stores(stack', None)
    <3>1. \A i \in 1 .. k : stack[i].into = None
      BY <1>4, <1>13 DEF Good, Stores
    <3> QED
      BY <2>8, <3>1 DEF Stores, SameStores
  <2> QED
    BY <1>11, <2>3, <2>4, <2>5, <2>6, <2>7, <2>8, <2>9
<1> QED
  BY <1>12, <1>13

LEMMA ReturnStep ==
    ASSUME IInv, Return
    PROVE  IInv'
<1> DEFINE k == Len(stack)
           n == Top.n
<1>1. /\ stack # <<>> /\ Top.kind = "destructor"
      /\ k \in Nat \ {0, 1} /\ Len(stack') = k - 1
      /\ stack' \in Seq(FrameType)
      /\ \A i \in 1 .. k - 1 : /\ stack'[i].kind = stack[i].kind /\ stack'[i].n = stack[i].n
                               /\ stack'[i].todo = stack[i].todo
      /\ Shape(stack') /\ Apart(stack') /\ OneException(stack', None)
      /\ \A m \in Nodes : Flies(stack', None, m) <=> Flies(stack, thrown, m)
      /\ Last(Front(stack)) = stack[k - 1]
      /\ SameStores(stack, stack') /\ Stores(stack', None)
  BY DestructorIsLeft
<1>2. /\ k \in 1 .. k /\ Top = stack[k] /\ Top \in FrameType /\ FrameIsRight(stack, k)
  BY <1>1, TopFrame
<1>3. /\ Types(heap, stack, thrown) /\ Good(heap, stack, thrown, None) /\ stack \in Seq(FrameType)
      /\ None \notin Nodes /\ Root \in Nodes /\ n \in Nodes /\ n # None /\ heap[n] \in BlockType
      /\ heap \in [Nodes -> BlockType] /\ None \in Objects \cup {None}
  BY <1>1, <1>2, NodesAreFinite DEF IInv, Good, Types, FrameIsRight
<1>4. /\ thrown' = None
      /\ heap' = IF stack[k - 1].kind = "collect" THEN [heap EXCEPT ![n].running = FALSE] ELSE heap
  BY <1>1 DEF Return
<1>5. /\ heap' \in [Nodes -> BlockType]
      /\ \A m \in Nodes : m # n => heap'[m] = heap[m]
      /\ stack[k - 1].kind = "collect" => ~heap'[n].running
      /\ stack[k - 1].kind # "collect" => heap' = heap
      /\ \A m \in Nodes : /\ heap'[m].live = heap[m].live /\ heap'[m].rc = heap[m].rc
                          /\ heap'[m].called = heap[m].called /\ heap'[m].pin = heap[m].pin
                          /\ heap'[m].dtor = heap[m].dtor /\ heap'[m].calls = heap[m].calls
                          /\ heap'[m].slot = heap[m].slot
  <2>1. CASE stack[k - 1].kind = "collect"
    <3> DEFINE b == [heap[n] EXCEPT !.running = FALSE]
    <3>1. /\ b \in BlockType /\ ~b.running /\ b.live = heap[n].live /\ b.rc = heap[n].rc
          /\ b.called = heap[n].called /\ b.pin = heap[n].pin /\ b.dtor = heap[n].dtor
          /\ b.calls = heap[n].calls /\ b.slot = heap[n].slot
      BY <1>3 DEF BlockType
    <3>2. heap' = [heap EXCEPT ![n] = b]
      BY <1>4, <2>1
    <3> HIDE DEF b
    <3> QED
      BY <1>3, <2>1, <3>1, <3>2
  <2>2. CASE stack[k - 1].kind # "collect"
    BY <1>3, <1>4, <2>2
  <2> QED
    BY <2>1, <2>2
<1>6. \A i \in 1 .. k - 1 : i \in 1 .. k
  BY <1>1
<1>7. stack[k - 1].kind = "collect" => \A i \in 1 .. k - 1 : stack[i].n # n
  BY <1>1, <1>3, TopIsAlone
<1>8. Frames(heap', stack')
  <2> SUFFICES ASSUME NEW i \in 1 .. k - 1, stack'[i].n # None
               PROVE  /\ heap'[stack'[i].n].live /\ heap'[stack'[i].n].running
                      /\ heap'[stack'[i].n].called
                      /\ stack'[i].kind = "release" => heap'[stack'[i].n].rc = 0
    BY <1>1 DEF Frames
  <2>1. /\ i \in 1 .. k /\ stack[i].n # None /\ stack[i] \in FrameType
        /\ stack'[i].n = stack[i].n /\ stack'[i].kind = stack[i].kind
    BY <1>1, <1>3, <1>6, ElementOfSeq
  <2>2. stack[i].n \in Nodes
    BY <2>1, NodesAreFinite DEF FrameType
  <2>3. /\ heap[stack[i].n].live /\ heap[stack[i].n].running /\ heap[stack[i].n].called
        /\ stack[i].kind = "release" => heap[stack[i].n].rc = 0
    BY <1>3, <2>1 DEF Good, Frames
  <2>4. heap'[stack[i].n] = heap[stack[i].n]
    BY <1>5, <1>7, <2>2
  <2> QED
    BY <2>1, <2>3, <2>4
<1>9. Marks(heap', stack')
  <2> SUFFICES ASSUME NEW m \in Nodes, heap'[m].running PROVE \E i \in 1 .. k - 1 : stack'[i].n = m
    BY <1>1 DEF Marks
  <2>1. heap[m].running
    BY <1>5
  <2>2. PICK i \in 1 .. k : stack[i].n = m
    BY <1>3, <2>1 DEF Good, Marks
  <2>3. CASE i \in 1 .. k - 1
    BY <1>1, <2>2, <2>3
  <2>4. CASE i = k
    <3>1. m = n /\ stack[k - 1].kind # "collect"
      BY <1>2, <1>5, <2>2, <2>4
    <3>2. stack[k - 1].n = n
      BY <1>1, <1>2, <3>1 DEF FrameIsRight
    <3>3. k - 1 \in 1 .. k - 1
      BY <1>1
    <3> QED
      BY <1>1, <3>1, <3>2, <3>3
  <2> QED
    BY <1>1, <2>3, <2>4
<1>10. Types(heap', stack', None)
  BY <1>1, <1>3, <1>5 DEF Types
<1>11. Pins(heap', stack') /\ Calls(heap') /\ Blank(heap')
  <2>1. /\ CollectsIn(stack') <=> CollectsIn(stack)
        /\ CollectsIn(stack) => stack'[1].todo = stack[1].todo
    <3>1. 1 \in 1 .. k - 1 /\ stack' # <<>>
      BY <1>1, EmptySeq
    <3> QED
      BY <1>1, <3>1 DEF CollectsIn
  <2>2. Pins(heap', stack')
    BY <1>3, <1>5, <2>1 DEF Good, Pins
  <2>3. Calls(heap')
    BY <1>3, <1>5 DEF Good, Calls
  <2>4. Blank(heap')
    <3>1. heap[n].live
      BY <1>2, <1>3 DEF Good, Frames
    <3> QED
      BY <1>3, <1>5, <3>1 DEF Good, Blank
  <2> QED
    BY <2>2, <2>3, <2>4
<1>12. Exact(heap', stack', None, None)
  <2> SUFFICES ASSUME NEW m \in Nodes
               PROVE  heap'[m].rc = Cardinality(Owners(heap', stack', m)) + Others(heap', stack', None, None, m)
    BY DEF Exact
  <2>1. heap[m].rc = Cardinality(Owners(heap, stack, m)) + Others(heap, stack, thrown, None, m)
    BY <1>3 DEF Good, Exact
  <2>2. ASSUME NEW p \in Nodes, NEW f \in Fields
        PROVE  <<p, f>> \in Owners(heap, stack, m) <=> <<p, f>> \in Owners(heap', stack', m)
    <3>1. heap'[p].live = heap[p].live /\ heap'[p].slot[f] = heap[p].slot[f]
      BY <1>5
    <3>2. \A i \in 1 .. k : i \in 1 .. k - 1 \/ i = k
      BY <1>1
    <3>3. (\A i \in 1 .. k : stack[i].kind = "release" /\ stack[i].n = p => f \in stack[i].todo)
          <=> (\A i \in 1 .. Len(stack') : stack'[i].kind = "release" /\ stack'[i].n = p => f \in stack'[i].todo)
      BY <1>1, <1>2, <1>6, <3>2
    <3>4. Writes(stack, p, f) <=> Writes(stack', p, f)
      BY <1>1, StoresKept
    <3> QED
      BY <3>1, <3>3, <3>4, OwnersDef
  <2>3. Owners(heap, stack, m) = Owners(heap', stack', m)
    BY <2>2, SameOwners, OwnersAreEdges
  <2>4. Held(stack, m) = Held(stack', m)
    BY <1>1, StoresKept
  <2> QED
    BY <1>1, <1>5, <2>1, <2>3, <2>4 DEF Others
<1>13. Good(heap', stack', thrown', None)
  BY <1>1, <1>4, <1>8, <1>9, <1>10, <1>11, <1>12 DEF Good
<1> QED
  BY <1>13 DEF IInv

LEMMA CollectStep ==
    ASSUME IInv, Collect
    PROVE  IInv'
<1> DEFINE fr == Frame("collect", None, {})
<1>1. /\ InPhp /\ thrown = None /\ ~Suppressed
      /\ stack' = Append(stack, fr) /\ heap' = heap /\ thrown' = thrown
  BY DEF Collect, Runs
<1>2. /\ Types(heap, stack, thrown) /\ Good(heap, stack, thrown, None) /\ stack \in Seq(FrameType)
      /\ None \notin Nodes /\ DOMAIN stack = 1 .. Len(stack)
  BY NodesAreFinite, LenProperties DEF IInv, Good, Types
<1>3. stack = <<>> /\ Len(stack) = 0
  <2>1. SUFFICES ASSUME stack # <<>> PROVE FALSE
    BY EmptySeq
  <2>2. Len(stack) \in Nat \ {0} /\ 1 \in 1 .. Len(stack)
    BY <1>2, <2>1, EmptySeq
  <2>3. stack[1].kind = "destructor"
    BY <1>1, <1>2, <2>2 DEF Suppressed
  <2>4. FrameIsRight(stack, 1)
    BY <1>2, <2>2 DEF Good, Shape
  <2> QED
    BY <2>3, <2>4 DEF FrameIsRight
<1>4. fr \in FrameType /\ fr.kind = "collect" /\ fr.n = None /\ fr.todo = {} /\ fr.exc = None
      /\ fr.into = None /\ fr.val = None
  BY DEF Frame, FrameType
<1> HIDE DEF fr
<1>5. /\ stack' \in Seq(FrameType) /\ stack' # <<>> /\ Len(stack') = 1 /\ stack'[1] = fr
  BY <1>1, <1>2, <1>3, <1>4, Pushed
<1>6. \A i \in 1 .. Len(stack') : i = 1 /\ stack'[i] = fr
  BY <1>5
<1>12. /\ \A th : Stores(stack', th)
       /\ \A m \in Nodes : Held(stack', m) = 0 /\ \A f : ~Writes(stack', m, f)
  BY <1>4, <1>5, <1>6, NoStores
<1>13. \A m \in Nodes : Held(stack, m) = 0 /\ \A f : ~Writes(stack, m, f)
  <2>1. \A i \in 1 .. Len(stack) : FALSE
    BY <1>3
  <2> QED
    BY <1>2, <2>1, NoStores
<1>7. /\ Shape(stack') /\ Apart(stack') /\ OneException(stack', None) /\ Types(heap, stack', None)
  <2>1. FrameIsRight(stack', 1)
    BY <1>4, <1>5 DEF FrameIsRight
  <2>2. Shape(stack')
    BY <1>6, <2>1 DEF Shape
  <2>3. Apart(stack')
    BY <1>6 DEF Apart
  <2>4. OneException(stack', None)
    BY <1>4, <1>6 DEF OneException
  <2>5. Types(heap, stack', None)
    BY <1>1, <1>2, <1>5 DEF Types
  <2> QED
    BY <2>2, <2>3, <2>4, <2>5
<1>8. Frames(heap, stack') /\ Marks(heap, stack')
  <2>1. Frames(heap, stack')
    BY <1>4, <1>6 DEF Frames
  <2>2. \A m \in Nodes : ~heap[m].running
    BY <1>2, <1>3 DEF Good, Marks
  <2> QED
    BY <2>1, <2>2 DEF Marks
<1>9. Pins(heap, stack')
  <2>1. \A m \in Nodes : ~heap[m].pin
    BY <1>2, <1>3 DEF Good, Pins, CollectsIn
  <2> QED
    BY <1>4, <1>5, <2>1 DEF Pins
<1>10. Exact(heap, stack', None, None)
  <2> SUFFICES ASSUME NEW m \in Nodes
               PROVE  heap[m].rc = Cardinality(Owners(heap, stack', m)) + Others(heap, stack', None, None, m)
    BY DEF Exact
  <2>1. heap[m].rc = Cardinality(Owners(heap, stack, m)) + Others(heap, stack, None, None, m)
    BY <1>1, <1>2 DEF Good, Exact
  <2>2. ASSUME NEW p \in Nodes, NEW f \in Fields
        PROVE  <<p, f>> \in Owners(heap, stack, m) <=> <<p, f>> \in Owners(heap, stack', m)
    BY <1>3, <1>4, <1>6, <1>12, <1>13, OwnersDef
  <2>3. Owners(heap, stack, m) = Owners(heap, stack', m)
    BY <2>2, SameOwners, OwnersAreEdges
  <2>4. Flies(stack, None, m) <=> Flies(stack', None, m)
    BY <1>2, <1>3, <1>4, <1>6 DEF Flies
  <2> QED
    BY <1>12, <1>13, <2>1, <2>3, <2>4 DEF Others
<1>11. Good(heap', stack', thrown', None)
  BY <1>1, <1>2, <1>7, <1>8, <1>9, <1>10, <1>12 DEF Good
<1> QED
  BY <1>11 DEF IInv

-----------------------------------------------------------------------------
(* Assignments.                                                            *)

\* One assignment more, at k.
LEMMA OneMoreStore ==
    ASSUME NEW st \in Seq(FrameType), NEW nx \in Seq(FrameType), NEW k \in 1 .. Len(nx),
           \A i \in 1 .. Len(st) : i \in 1 .. Len(nx),
           \A i \in 1 .. Len(nx) : i # k =>
               /\ i \in 1 .. Len(st)
               /\ nx[i].into = st[i].into /\ nx[i].prop = st[i].prop /\ nx[i].val = st[i].val,
           k \in 1 .. Len(st) => st[k].into = None /\ st[k].val = None,
           NEW n \in Nodes
    PROVE  /\ Held(nx, n) = Held(st, n) + (IF nx[k].into = n THEN 1 ELSE 0)
                                        + (IF nx[k].val = n THEN 1 ELSE 0)
           /\ \A f : Writes(nx, n, f) <=> Writes(st, n, f) \/ (nx[k].into = n /\ nx[k].prop = f)
<1>1. n # None
  BY NodesAreFinite
<1>2. /\ IntoAt(nx, n) = IntoAt(st, n) \cup (IF nx[k].into = n THEN {k} ELSE {})
      /\ k \notin IntoAt(st, n)
  BY <1>1 DEF IntoAt
<1>3. /\ ValuesAt(nx, n) = ValuesAt(st, n) \cup (IF nx[k].val = n THEN {k} ELSE {})
      /\ k \notin ValuesAt(st, n)
  BY <1>1 DEF ValuesAt
<1>4. /\ IsFiniteSet(IntoAt(st, n)) /\ IsFiniteSet(ValuesAt(st, n))
      /\ Cardinality(IntoAt(st, n)) \in Nat /\ Cardinality(ValuesAt(st, n)) \in Nat
  BY HeldIsNumber
<1>5. Cardinality(IntoAt(nx, n)) = Cardinality(IntoAt(st, n)) + (IF nx[k].into = n THEN 1 ELSE 0)
  <2>1. CASE nx[k].into = n
    <3>1. IntoAt(nx, n) = IntoAt(st, n) \cup {k}
      BY <1>2, <2>1
    <3> QED
      BY <1>2, <1>4, <2>1, <3>1, FS_AddElement
  <2>2. CASE nx[k].into # n
    <3>1. IntoAt(nx, n) = IntoAt(st, n)
      BY <1>2, <2>2
    <3> QED
      BY <1>4, <2>2, <3>1
  <2> QED
    BY <2>1, <2>2
<1>6. Cardinality(ValuesAt(nx, n)) = Cardinality(ValuesAt(st, n)) + (IF nx[k].val = n THEN 1 ELSE 0)
  <2>1. CASE nx[k].val = n
    <3>1. ValuesAt(nx, n) = ValuesAt(st, n) \cup {k}
      BY <1>3, <2>1
    <3> QED
      BY <1>3, <1>4, <2>1, <3>1, FS_AddElement
  <2>2. CASE nx[k].val # n
    <3>1. ValuesAt(nx, n) = ValuesAt(st, n)
      BY <1>3, <2>2
    <3> QED
      BY <1>4, <2>2, <3>1
  <2> QED
    BY <2>1, <2>2
<1>7. ASSUME NEW f
      PROVE  Writes(nx, n, f) <=> Writes(st, n, f) \/ (nx[k].into = n /\ nx[k].prop = f)
  BY <1>1, Zenon DEF Writes
<1> QED
  BY <1>4, <1>5, <1>6, <1>7 DEF Held

\* Counts and properties change, of blocks in use that no free dismantles.
LEMMA CountsChange ==
    ASSUME NEW h, NEW st, NEW th, NEW x, Good(h, st, th, x), NEW g \in [Nodes -> BlockType],
           \A m \in Nodes : /\ g[m].live = h[m].live /\ g[m].running = h[m].running
                            /\ g[m].called = h[m].called /\ g[m].pin = h[m].pin
                            /\ g[m].dtor = h[m].dtor /\ g[m].calls = h[m].calls
                            /\ ~h[m].live => g[m] = h[m],
           \A m \in Nodes : g[m].rc # h[m].rc =>
               \A i \in 1 .. Len(st) : st[i].kind = "release" => st[i].n # m
    PROVE  Frames(g, st) /\ Marks(g, st) /\ Pins(g, st) /\ Calls(g) /\ Blank(g)
<1>1. ASSUME NEW i \in 1 .. Len(st), st[i].n # None PROVE st[i].n \in Nodes
  <2>1. st[i] \in FrameType
    BY ElementOfSeq DEF Good, Types
  <2> QED
    BY <1>1, <2>1, NodesAreFinite DEF FrameType
<1>2. Frames(g, st)
  <2> SUFFICES ASSUME NEW i \in 1 .. Len(st), st[i].n # None
               PROVE  /\ g[st[i].n].live /\ g[st[i].n].running /\ g[st[i].n].called
                      /\ st[i].kind = "release" => g[st[i].n].rc = 0
    BY DEF Frames
  <2>1. /\ h[st[i].n].live /\ h[st[i].n].running /\ h[st[i].n].called
        /\ st[i].kind = "release" => h[st[i].n].rc = 0
    BY DEF Good, Frames
  <2> QED
    BY <1>1, <2>1
<1>3. Marks(g, st)
  BY DEF Good, Marks
<1>4. Pins(g, st)
  BY DEF Good, Pins
<1>5. Calls(g)
  BY DEF Good, Calls
<1>6. Blank(g)
  <2>1. h[Root].live /\ \A m \in Nodes : ~h[m].live => h[m] = Free
    BY DEF Good, Blank
  <2> QED
    BY <2>1, NodesAreFinite DEF Blank
<1> QED
  BY <1>2, <1>3, <1>4, <1>5, <1>6

\* What is true of the blocks holds over a stack with the same frees and collections.
LEMMA SameWork ==
    ASSUME NEW h, NEW st, NEW nx, Len(nx) \in Nat, Len(st) \in Nat,
           Frames(h, st), Marks(h, st), Pins(h, st),
           \A i \in 1 .. Len(st) : st[i].n # None => i \in 1 .. Len(nx) /\ nx[i].n = st[i].n,
           \A i \in 1 .. Len(nx) : nx[i].n # None =>
               i \in 1 .. Len(st) /\ nx[i].n = st[i].n /\ nx[i].kind = st[i].kind,
           CollectsIn(nx) <=> CollectsIn(st),
           CollectsIn(st) => nx[1].todo = st[1].todo
    PROVE  Frames(h, nx) /\ Marks(h, nx) /\ Pins(h, nx)
<1>1. Frames(h, nx)
  BY DEF Frames
<1>2. Marks(h, nx)
  <2> SUFFICES ASSUME NEW n \in Nodes, h[n].running PROVE \E i \in 1 .. Len(nx) : nx[i].n = n
    BY DEF Marks
  <2>1. PICK i \in 1 .. Len(st) : st[i].n = n
    BY DEF Marks
  <2>2. st[i].n # None
    BY <2>1, NodesAreFinite
  <2> QED
    BY <2>1, <2>2
<1>3. Pins(h, nx)
  BY DEF Pins
<1> QED
  BY <1>1, <1>2, <1>3

\* One owner more for y.
LEMMA Retained ==
    ASSUME NEW h \in [Nodes -> BlockType], NEW y \in Nodes \cup {None}
    PROVE  /\ Retain(h, y) \in [Nodes -> BlockType]
           /\ \A m \in Nodes : LET b == Retain(h, y)[m]
                               IN  /\ b.rc = h[m].rc + (IF m = y THEN 1 ELSE 0)
                                   /\ b.live = h[m].live /\ b.running = h[m].running
                                   /\ b.called = h[m].called /\ b.pin = h[m].pin
                                   /\ b.dtor = h[m].dtor /\ b.calls = h[m].calls
                                   /\ b.slot = h[m].slot
                                   /\ m # y => b = h[m]
<1>1. CASE y = None
  <2>1. Retain(h, y) = h /\ \A m \in Nodes : m # y /\ h[m] \in BlockType
    BY <1>1, NodesAreFinite DEF Retain
  <2>2. \A m \in Nodes : h[m].rc + 0 = h[m].rc
    BY DEF BlockType
  <2> QED
    BY <2>1, <2>2
<1>2. CASE y # None
  <2> DEFINE c == [h[y] EXCEPT !.rc = @ + 1]
  <2>1. y \in Nodes /\ h[y] \in BlockType
    BY <1>2
  <2>2. /\ c \in BlockType /\ c.rc = h[y].rc + 1 /\ c.live = h[y].live
        /\ c.running = h[y].running /\ c.called = h[y].called /\ c.pin = h[y].pin
        /\ c.dtor = h[y].dtor /\ c.calls = h[y].calls /\ c.slot = h[y].slot
    <3>1. h[y].rc + 1 \in Nat
      BY <2>1 DEF BlockType
    <3>2. c.rc = h[y].rc + 1 /\ c.live = h[y].live /\ c.running = h[y].running
      BY <2>1 DEF BlockType
    <3>3. c.called = h[y].called /\ c.pin = h[y].pin /\ c.dtor = h[y].dtor
      BY <2>1 DEF BlockType
    <3>4. c.calls = h[y].calls /\ c.slot = h[y].slot
      BY <2>1 DEF BlockType
    <3>5. c \in BlockType
      BY <2>1, <3>1 DEF BlockType
    <3> QED
      BY <3>2, <3>3, <3>4, <3>5
  <2>3. Retain(h, y) = [h EXCEPT ![y] = c]
    BY <1>2 DEF Retain
  <2>4. \A m \in Nodes : h[m].rc + 0 = h[m].rc
    BY DEF BlockType
  <2> HIDE DEF c
  <2> DEFINE g == Retain(h, y)
  <2>5. /\ g \in [Nodes -> BlockType] /\ g[y] = c /\ \A m \in Nodes : m # y => g[m] = h[m]
    BY <2>1, <2>2, <2>3
  <2> HIDE DEF g
  <2>6. ASSUME NEW m \in Nodes
        PROVE  /\ g[m].rc = h[m].rc + (IF m = y THEN 1 ELSE 0)
               /\ g[m].live = h[m].live /\ g[m].running = h[m].running
               /\ g[m].called = h[m].called /\ g[m].pin = h[m].pin
               /\ g[m].dtor = h[m].dtor /\ g[m].calls = h[m].calls /\ g[m].slot = h[m].slot
               /\ m # y => g[m] = h[m]
    <3>1. CASE m = y
      BY <2>2, <2>5, <3>1
    <3>2. CASE m # y
      BY <2>4, <2>5, <3>2
    <3> QED
      BY <3>1, <3>2
  <2> QED
    BY <2>5, <2>6 DEF g
<1> QED
  BY <1>1, <1>2

LEMMA AssignStep ==
    ASSUME IInv, NEW o \in Nodes, NEW x \in Nodes \cup {None}, NEW f \in Fields, Assign(o, f, x)
    PROVE  IInv'
<1> DEFINE y   == Retain(heap, x)
           g   == Retain(y, o)
           fr  == StoreFrame(o, f, x)
           nx  == Append(stack, fr)
           k   == Len(stack)
           old == heap[o].slot[f]
<1>1. /\ Runs /\ o \in Seen /\ x \in (Seen \ {Root}) \cup {None} /\ old # None
      /\ ~Writes(stack, o, f) /\ thrown = None
      /\ Release(g, nx, old) /\ thrown' = thrown
  BY TouchedIsUnwritten DEF Assign, Runs
<1>2. /\ Types(heap, stack, None) /\ Good(heap, stack, None, None) /\ stack \in Seq(FrameType)
      /\ heap \in [Nodes -> BlockType] /\ Root \in Nodes /\ None \notin Nodes
  BY <1>1, NodesAreFinite DEF IInv, Good, Types
<1>3. /\ heap[o].live
      /\ x # None => heap[x].live
      /\ \A i \in 1 .. k : stack[i].kind = "release" => stack[i].n # o /\ stack[i].n # x
  <2>1. CASE x = None
    <3>1. ASSUME NEW i \in 1 .. k, stack[i].kind = "release" PROVE stack[i].n # None
      <4>1. FrameIsRight(stack, i)
        BY <1>2 DEF Good, Shape
      <4> QED
        BY <1>2, <3>1, <4>1, NodesAreFinite DEF FrameIsRight
    <3> QED
      BY <1>1, <2>1, <3>1, SeenIsAlive DEF Runs
  <2>2. CASE x # None
    BY <1>1, <2>2, SeenIsAlive DEF Runs
  <2> QED
    BY <2>1, <2>2
<1>4. old \in Nodes /\ x \in Objects \cup {None}
  <2>1. heap[o] \in BlockType
    BY <1>2
  <2> QED
    BY <1>1, <2>1 DEF BlockType, Nodes
<1>5. /\ g \in [Nodes -> BlockType]
      /\ \A m \in Nodes : /\ g[m].live = heap[m].live
                          /\ g[m].rc = heap[m].rc + (IF m = x THEN 1 ELSE 0) + (IF m = o THEN 1 ELSE 0)
                          /\ g[m].running = heap[m].running /\ g[m].called = heap[m].called
                          /\ g[m].pin = heap[m].pin /\ g[m].dtor = heap[m].dtor
                          /\ g[m].calls = heap[m].calls /\ g[m].slot = heap[m].slot
                          /\ m # x /\ m # o => g[m] = heap[m]
  <2>1. /\ y \in [Nodes -> BlockType]
        /\ \A m \in Nodes : /\ y[m].live = heap[m].live
                            /\ y[m].rc = heap[m].rc + (IF m = x THEN 1 ELSE 0)
                            /\ y[m].running = heap[m].running /\ y[m].called = heap[m].called
                            /\ y[m].pin = heap[m].pin /\ y[m].dtor = heap[m].dtor
                            /\ y[m].calls = heap[m].calls /\ y[m].slot = heap[m].slot
                            /\ m # x => y[m] = heap[m]
    BY <1>2, Retained
  <2> HIDE DEF y
  <2>2. /\ g \in [Nodes -> BlockType]
        /\ \A m \in Nodes : /\ g[m].live = y[m].live
                            /\ g[m].rc = y[m].rc + (IF m = o THEN 1 ELSE 0)
                            /\ g[m].running = y[m].running /\ g[m].called = y[m].called
                            /\ g[m].pin = y[m].pin /\ g[m].dtor = y[m].dtor
                            /\ g[m].calls = y[m].calls /\ g[m].slot = y[m].slot
                            /\ m # o => g[m] = y[m]
    BY <2>1, Retained
  <2> HIDE DEF g
  <2> QED
    BY <2>1, <2>2
<1>6. /\ fr \in FrameType /\ fr.kind = "store" /\ fr.n = None /\ fr.todo = {} /\ fr.exc = None
      /\ fr.into = o /\ fr.prop = f /\ fr.val = x
  BY <1>4 DEF StoreFrame, Frame, FrameType
<1> HIDE DEF y, g, fr, old
<1>7. /\ nx \in Seq(FrameType) /\ nx # <<>> /\ Len(nx) = k + 1 /\ k \in Nat
      /\ \A i \in 1 .. k : nx[i] = stack[i]
      /\ nx[k + 1] = fr
  BY <1>2, <1>6, Pushed, LenProperties
<1> HIDE DEF nx
<1>8. \A i \in 1 .. k + 1 : i \in 1 .. k \/ i = k + 1
  BY <1>7
<1>9. /\ k + 1 \in 1 .. Len(nx) /\ k + 1 \notin 1 .. k
      /\ \A i \in 1 .. k : i \in 1 .. Len(nx) /\ i # k + 1
  BY <1>7
<1>10. k # 0 => stack[k].kind = "destructor"
  <2>1. stack = <<>> \/ Last(stack).kind = "destructor"
    BY <1>1, PhpIsOnTop DEF Runs
  <2> QED
    BY <1>2, <2>1, EmptySeq DEF Last
<1>11. Shape(nx) /\ Apart(nx)
  <2>1. ASSUME NEW i \in 1 .. k PROVE FrameIsRight(nx, i)
    <3>1. FrameIsRight(stack, i) /\ nx[i] = stack[i]
      BY <1>2, <1>7 DEF Good, Shape
    <3>2. i > 1 => nx[i - 1] = stack[i - 1]
      BY <1>7
    <3>3. CASE i < k
      <4>1. nx[i + 1] = stack[i + 1]
        BY <1>7, <3>3
      <4> QED
        BY <1>7, <3>1, <3>2, <3>3, <4>1 DEF FrameIsRight
    <3>4. CASE i = k
      <4>1. nx[i].kind = "destructor"
        BY <1>7, <1>10, <3>1, <3>4
      <4> QED
        BY <3>1, <3>2, <4>1 DEF FrameIsRight
    <3> QED
      BY <1>7, <3>3, <3>4
  <2>2. FrameIsRight(nx, k + 1)
    <3>1. k + 1 > 1 => (k + 1) - 1 = k /\ nx[k] = stack[k] /\ k # 0
      BY <1>7
    <3>2. k + 1 > 1 => nx[(k + 1) - 1].kind = "destructor"
      BY <1>10, <3>1
    <3> QED
      BY <1>2, <1>6, <1>7, <3>2 DEF FrameIsRight
  <2>3. Shape(nx)
    BY <1>7, <1>8, <2>1, <2>2 DEF Shape
  <2>4. Apart(nx)
    <3> SUFFICES ASSUME NEW i \in 1 .. Len(nx), NEW j \in 1 .. Len(nx),
                        i < j, nx[i].n # None, nx[i].n = nx[j].n
                 PROVE  j = i + 1 /\ nx[i].kind = "free"
      BY DEF Apart
    <3>1. i \in 1 .. k /\ j \in 1 .. k
      BY <1>6, <1>7, <1>8
    <3> QED
      BY <1>2, <1>7, <3>1 DEF Good, Apart
  <2> QED
    BY <2>3, <2>4
<1>12. /\ Frames(g, nx) /\ Marks(g, nx) /\ Pins(g, nx) /\ Calls(g) /\ Blank(g)
  <2>1. \A m \in Nodes : /\ g[m].live = heap[m].live /\ g[m].running = heap[m].running
                         /\ g[m].called = heap[m].called /\ g[m].pin = heap[m].pin
                         /\ g[m].dtor = heap[m].dtor /\ g[m].calls = heap[m].calls
                         /\ ~heap[m].live => g[m] = heap[m]
    <3> TAKE m \in Nodes
    <3>1. ~heap[m].live => m # x /\ m # o
      BY <1>2, <1>3
    <3> QED
      BY <1>5, <3>1
  <2>2. \A m \in Nodes : g[m].rc # heap[m].rc =>
            \A i \in 1 .. k : stack[i].kind = "release" => stack[i].n # m
    BY <1>3, <1>5
  <2>3. Frames(g, stack) /\ Marks(g, stack) /\ Pins(g, stack) /\ Calls(g) /\ Blank(g)
    BY <1>2, <1>5, <2>1, <2>2, CountsChange
  <2>4. /\ CollectsIn(nx) <=> CollectsIn(stack)
        /\ CollectsIn(stack) => nx[1].todo = stack[1].todo
    <3>1. CASE k = 0
      BY <1>2, <1>6, <1>7, <3>1, EmptySeq DEF CollectsIn
    <3>2. CASE k # 0
      <4>1. 1 \in 1 .. k /\ stack # <<>>
        BY <1>7, <3>2, EmptySeq
      <4> QED
        BY <1>7, <4>1 DEF CollectsIn
    <3> QED
      BY <3>1, <3>2
  <2>5. /\ \A i \in 1 .. k : i \in 1 .. Len(nx) /\ nx[i].n = stack[i].n
        /\ \A i \in 1 .. Len(nx) : nx[i].n # None =>
               i \in 1 .. k /\ nx[i].n = stack[i].n /\ nx[i].kind = stack[i].kind
    BY <1>6, <1>7, <1>8, <1>9
  <2>6. Len(nx) \in Nat
    BY <1>7
  <2> QED
    BY <1>7, <2>3, <2>4, <2>5, <2>6, SameWork
<1>13. OneException(nx, None)
  <2>1. \A i \in 1 .. Len(nx) : nx[i].exc # None => i \in 1 .. k
    BY <1>6, <1>7, <1>8
  <2>2. \A i \in 1 .. Len(nx) : nx[i].kind = "destructor" => i \in 1 .. k
    BY <1>6, <1>7, <1>8
  <2> QED
    BY <1>2, <1>7, <2>1, <2>2 DEF Good, OneException
<1>14. Stores(nx, None)
  <2> SUFFICES ASSUME NEW i \in 1 .. Len(nx), nx[i].into # None
               PROVE  /\ \A j \in i .. Len(nx) : nx[j].exc = None
                      /\ \A j \in 1 .. Len(nx) :
                             nx[j].into = nx[i].into /\ nx[j].prop = nx[i].prop => j = i
    BY DEF Stores
  <2>1. CASE i \in 1 .. k
    <3>1. /\ \A j \in i .. k : stack[j].exc = None
          /\ \A j \in 1 .. k : stack[j].into = stack[i].into /\ stack[j].prop = stack[i].prop => j = i
      BY <1>2, <1>7, <2>1 DEF Good, Stores
    <3>2. ASSUME NEW j \in i .. Len(nx) PROVE nx[j].exc = None
      <4>1. j \in i .. k \/ j = k + 1
        BY <1>7, <2>1
      <4>2. j \in i .. k => j \in 1 .. k
        BY <2>1
      <4> QED
        BY <1>6, <1>7, <3>1, <4>1, <4>2
    <3>3. ~(nx[k + 1].into = nx[i].into /\ nx[k + 1].prop = nx[i].prop)
      BY <1>1, <1>6, <1>7, <2>1 DEF Writes
    <3> QED
      BY <1>7, <1>8, <2>1, <3>1, <3>2, <3>3
  <2>2. CASE i = k + 1
    <3>1. \A j \in i .. Len(nx) : j = k + 1
      BY <1>7, <2>2
    <3>2. \A j \in 1 .. k : ~(nx[j].into = nx[i].into /\ nx[j].prop = nx[i].prop)
      BY <1>1, <1>6, <1>7, <2>2 DEF Writes
    <3> QED
      BY <1>6, <1>7, <1>8, <2>2, <3>1, <3>2
  <2> QED
    BY <1>7, <1>8, <2>1, <2>2
<1>15. ASSUME NEW m \in Nodes
       PROVE  /\ Held(nx, m) = Held(stack, m) + (IF m = o THEN 1 ELSE 0) + (IF m = x THEN 1 ELSE 0)
              /\ \A q : Writes(nx, m, q) <=> Writes(stack, m, q) \/ (m = o /\ q = f)
  <2>1. /\ \A i \in 1 .. Len(nx) : i # k + 1 =>
               /\ i \in 1 .. k
               /\ nx[i].into = stack[i].into /\ nx[i].prop = stack[i].prop /\ nx[i].val = stack[i].val
    BY <1>7, <1>8
  <2>2. /\ Held(nx, m) = Held(stack, m) + (IF nx[k + 1].into = m THEN 1 ELSE 0)
                                        + (IF nx[k + 1].val = m THEN 1 ELSE 0)
        /\ \A q : Writes(nx, m, q) <=> Writes(stack, m, q) \/ (nx[k + 1].into = m /\ nx[k + 1].prop = q)
    BY <1>2, <1>7, <1>9, <2>1, OneMoreStore
  <2> QED
    BY <1>6, <1>7, <2>2
<1>16. Exact(g, nx, None, old)
  <2> SUFFICES ASSUME NEW m \in Nodes
               PROVE  g[m].rc = Cardinality(Owners(g, nx, m)) + Others(g, nx, None, old, m)
    BY DEF Exact
  <2> DEFINE T == Owners(heap, stack, m)
             S == Owners(g, nx, m)
  <2>1. heap[m].rc = Cardinality(T) + Others(heap, stack, None, None, m)
    BY <1>2 DEF Good, Exact
  <2>2. /\ S \in SUBSET (Nodes \X Fields) /\ T \in SUBSET (Nodes \X Fields)
        /\ T \ {<<o, f>>} \in SUBSET (Nodes \X Fields)
        /\ Cardinality(S) \in Nat /\ Cardinality(T) \in Nat
        /\ Others(heap, stack, None, None, m) \in Nat
    BY <1>2, OwnersAreEdges, OthersIsNumber
  <2>3. <<o, f>> \notin S
    BY <1>15, OwnersDef
  <2>4. ASSUME NEW p \in Nodes, NEW q \in Fields, p # o \/ q # f
        PROVE  <<p, q>> \in S <=> <<p, q>> \in T
    <3>1. g[p].live = heap[p].live /\ g[p].slot[q] = heap[p].slot[q]
      BY <1>5
    <3>2. Writes(nx, p, q) <=> Writes(stack, p, q)
      BY <1>15, <2>4
    <3>3. (\A i \in 1 .. k : stack[i].kind = "release" /\ stack[i].n = p => q \in stack[i].todo)
          <=> (\A i \in 1 .. Len(nx) : nx[i].kind = "release" /\ nx[i].n = p => q \in nx[i].todo)
      BY <1>6, <1>7, <1>8, <1>9
    <3> QED
      BY <3>1, <3>2, <3>3, OwnersDef
  <2>5. <<o, f>> \in T <=> m = old
    BY <1>1, <1>3, OwnersDef DEF old
  <2>6. \A p \in Nodes, q \in Fields : <<p, q>> \in S <=> <<p, q>> \in T \ {<<o, f>>}
    BY <2>3, <2>4
  <2> HIDE DEF S, T
  <2>7. S = T \ {<<o, f>>}
    BY <2>2, <2>6, SameOwners
  <2>8. Cardinality(T) = Cardinality(S) + IF m = old THEN 1 ELSE 0
    <3>1. CASE m = old
      BY <2>2, <2>5, <2>7, <3>1, OneLess
    <3>2. CASE m # old
      <4>1. T = S
        BY <2>5, <2>7, <3>2
      <4> QED
        BY <2>2, <3>2, <4>1
    <3> QED
      BY <3>1, <3>2
  <2>9. Flies(nx, None, m) <=> Flies(stack, None, m)
    BY <1>2, <1>6, <1>7, <1>8, <1>9 DEF Flies
  <2> DEFINE a == IF m = o THEN 1 ELSE 0
             b == IF m = x THEN 1 ELSE 0
             c == IF m = old THEN 1 ELSE 0
             u == Others(heap, stack, None, None, m)
             v == Others(g, nx, None, old, m)
  <2>10. a \in Nat /\ b \in Nat /\ c \in Nat /\ Held(stack, m) \in Nat
    BY <1>2, HeldIsNumber
  <2>11. v = u + a + b + c
    <3>1. Held(nx, m) = Held(stack, m) + a + b /\ (g[m].pin <=> heap[m].pin) /\ m # None
      BY <1>2, <1>5, <1>15
    <3> HIDE DEF a, b
    <3> QED
      BY <2>9, <2>10, <3>1 DEF Others
  <2>12. g[m].rc = heap[m].rc + b + a
    BY <1>5
  <2> HIDE DEF a, b, c, u, v
  <2>13. heap[m].rc = Cardinality(T) + u /\ Cardinality(T) = Cardinality(S) + c /\ u \in Nat
    BY <2>1, <2>2, <2>8 DEF T, u, c
  <2>14. g[m].rc = Cardinality(S) + v
    BY <2>2, <2>10, <2>11, <2>12, <2>13
  <2> QED
    BY <2>14 DEF S, v
<1>17. Good(g, nx, None, old)
  <2>1. Types(g, nx, None)
    BY <1>5, <1>7 DEF Types
  <2> QED
    BY <1>11, <1>12, <1>13, <1>14, <1>16, <2>1 DEF Good
<1>18. Last(nx).kind = "store"
  BY <1>6, <1>7 DEF Last
<1>19. Good(heap', stack', None, None)
  BY <1>1, <1>4, <1>17, <1>18, ReleaseKeeps
<1> QED
  BY <1>1, <1>19 DEF IInv

LEMMA StoreStep ==
    ASSUME IInv, Store
    PROVE  IInv'
<1> DEFINE k  == Len(stack)
           o  == Top.into
           f  == Top.prop
           x  == Top.val
           b  == [heap[o] EXCEPT !.slot[f] = x]
           h  == [heap EXCEPT ![o].slot[f] = x]
           fr == [Top EXCEPT !.into = None, !.val = None]
           st == [stack EXCEPT ![k].into = None, ![k].val = None]
<1>1. /\ stack # <<>> /\ Top.kind = "store" /\ o # None /\ thrown' = thrown
      /\ Release(IF Top.exc # None THEN heap ELSE h, st, o)
  BY DEF Store, On
<1>2. /\ k \in Nat \ {0} /\ k \in 1 .. k /\ Top = stack[k] /\ Top \in FrameType
      /\ FrameIsRight(stack, k) /\ Last(stack) = stack[k]
  BY <1>1, TopFrame DEF Last
<1>3. /\ Types(heap, stack, thrown) /\ Good(heap, stack, thrown, None) /\ stack \in Seq(FrameType)
      /\ heap \in [Nodes -> BlockType] /\ Root \in Nodes /\ None \notin Nodes
      /\ Shape(stack) /\ Apart(stack) /\ OneException(stack, thrown)
  BY NodesAreFinite DEF IInv, Good, Types
<1>4. /\ o \in Nodes /\ f \in Fields /\ x \in Objects \cup {None} /\ Top.n = None
      /\ heap[o] \in BlockType
  BY <1>1, <1>2, <1>3 DEF FrameType, FrameIsRight
<1>5. /\ thrown = None /\ \A i \in k .. k : stack[i].exc = None
      /\ \A j \in 1 .. k : stack[j].into = o /\ stack[j].prop = f => j = k
  BY <1>1, <1>2, <1>3 DEF Good, Stores
<1>6. Release(h, st, o)
  <2>1. k \in k .. k
    BY <1>2
  <2>2. Top.exc = None
    BY <1>2, <1>5, <2>1
  <2> QED
    BY <1>1, <2>2
<1>7. /\ heap[o].live
      /\ \A i \in 1 .. k : stack[i].kind = "release" => stack[i].n # o
  BY <1>2, <1>3, <1>4, HeldIsAlive
<1>8. /\ fr \in FrameType /\ fr.kind = "store" /\ fr.n = None /\ fr.todo = Top.todo
      /\ fr.exc = Top.exc /\ fr.into = None /\ fr.val = None
  BY <1>1, <1>2, <1>4 DEF FrameType
<1>9. st = [stack EXCEPT ![k] = fr]
  BY <1>2
<1>10. /\ h \in [Nodes -> BlockType]
       /\ \A m \in Nodes : /\ h[m].live = heap[m].live /\ h[m].rc = heap[m].rc
                           /\ h[m].running = heap[m].running /\ h[m].called = heap[m].called
                           /\ h[m].pin = heap[m].pin /\ h[m].dtor = heap[m].dtor
                           /\ h[m].calls = heap[m].calls
                           /\ m # o => h[m] = heap[m]
       /\ \A m \in Nodes, q \in Fields :
              h[m].slot[q] = IF m = o /\ q = f THEN x ELSE heap[m].slot[q]
  <2>1. h = [heap EXCEPT ![o] = b]
    OBVIOUS
  <2>2. heap[o].slot \in [Fields -> Nodes \cup {None}] /\ x \in Nodes \cup {None}
    BY <1>4, NodesAreFinite DEF BlockType
  <2>3. /\ b.slot = [heap[o].slot EXCEPT ![f] = x]
        /\ b.live = heap[o].live /\ b.rc = heap[o].rc /\ b.running = heap[o].running
        /\ b.called = heap[o].called /\ b.pin = heap[o].pin /\ b.dtor = heap[o].dtor
        /\ b.calls = heap[o].calls
    BY <1>4 DEF BlockType
  <2>4. b \in BlockType
    BY <1>4, <2>2 DEF BlockType
  <2>5. \A q \in Fields : b.slot[q] = IF q = f THEN x ELSE heap[o].slot[q]
    BY <2>2, <2>3
  <2> HIDE DEF b, h
  <2>6. /\ h \in [Nodes -> BlockType] /\ h[o] = b
        /\ \A m \in Nodes : m # o => h[m] = heap[m]
    BY <1>3, <1>4, <2>1, <2>4
  <2> QED
    BY <2>3, <2>5, <2>6
<1> HIDE DEF h, fr, st
<1>11. /\ st \in Seq(FrameType) /\ Len(st) = k
       /\ \A i \in 1 .. k - 1 : st[i] = stack[i]
       /\ st[k] = fr
  BY <1>1, <1>3, <1>8, <1>9, Retopped
<1>12. Shape(st) /\ Apart(st)
  BY <1>1, <1>2, <1>3, <1>4, <1>8, <1>9, RetopKeepsShape
<1>13. \A i \in 1 .. k : /\ st[i].kind = stack[i].kind /\ st[i].n = stack[i].n
                         /\ st[i].todo = stack[i].todo /\ st[i].exc = stack[i].exc
                         /\ i # k => st[i] = stack[i]
                         /\ st[i].into # None => i # k
  <2>1. \A i \in 1 .. k : i = k \/ i \in 1 .. k - 1
    BY <1>2
  <2>2. fr.kind = stack[k].kind /\ fr.n = stack[k].n /\ fr.todo = stack[k].todo /\ fr.exc = stack[k].exc
    BY <1>1, <1>2, <1>4, <1>8
  <2> QED
    BY <1>8, <1>11, <2>1, <2>2
<1>14. /\ Frames(h, st) /\ Marks(h, st) /\ Pins(h, st) /\ Calls(h) /\ Blank(h)
  <2>1. \A m \in Nodes : ~heap[m].live => h[m] = heap[m]
    BY <1>4, <1>7, <1>10
  <2>2. Frames(h, stack) /\ Marks(h, stack) /\ Pins(h, stack) /\ Calls(h) /\ Blank(h)
    BY <1>3, <1>10, <2>1, CountsChange
  <2>3. /\ CollectsIn(st) <=> CollectsIn(stack)
        /\ CollectsIn(stack) => st[1].todo = stack[1].todo
    <3>1. 1 \in 1 .. k /\ stack # <<>> /\ st # <<>>
      BY <1>2, <1>3, <1>11, EmptySeq
    <3> QED
      BY <1>13, <3>1 DEF CollectsIn
  <2>4. Len(st) \in Nat /\ k \in Nat
    BY <1>2, <1>11
  <2> QED
    BY <1>11, <1>13, <2>2, <2>3, <2>4, SameWork
<1>15. OneException(st, None)
  BY <1>3, <1>11, <1>13 DEF OneException
<1>16. Stores(st, None)
  <2> SUFFICES ASSUME NEW i \in 1 .. k, st[i].into # None
               PROVE  /\ \A j \in i .. k : st[j].exc = None
                      /\ \A j \in 1 .. k : st[j].into = st[i].into /\ st[j].prop = st[i].prop => j = i
    BY <1>11 DEF Stores
  <2>1. i # k /\ stack[i].into # None /\ st[i] = stack[i]
    BY <1>13
  <2>2. /\ \A j \in i .. k : stack[j].exc = None
        /\ \A j \in 1 .. k : stack[j].into = stack[i].into /\ stack[j].prop = stack[i].prop => j = i
    BY <1>3, <2>1 DEF Good, Stores
  <2>3. \A j \in i .. k : j \in 1 .. k
    OBVIOUS
  <2>4. ASSUME NEW j \in 1 .. k, st[j].into = st[i].into, st[j].prop = st[i].prop PROVE j = i
    <3>1. st[j] = stack[j]
      BY <1>13, <2>4
    <3> QED
      BY <2>1, <2>2, <2>4, <3>1
  <2> QED
    BY <1>13, <2>2, <2>3, <2>4
<1>17. ASSUME NEW m \in Nodes
       PROVE  /\ Held(stack, m) = Held(st, m) + (IF m = o THEN 1 ELSE 0) + (IF m = x THEN 1 ELSE 0)
              /\ \A q : Writes(stack, m, q) <=> Writes(st, m, q) \/ (m = o /\ q = f)
  <2>1. \A i \in 1 .. k : i # k =>
            stack[i].into = st[i].into /\ stack[i].prop = st[i].prop /\ stack[i].val = st[i].val
    BY <1>13
  <2>2. st[k].into = None /\ st[k].val = None
    BY <1>8, <1>11
  <2>3. /\ Held(stack, m) = Held(st, m) + (IF stack[k].into = m THEN 1 ELSE 0)
                                        + (IF stack[k].val = m THEN 1 ELSE 0)
        /\ \A q : Writes(stack, m, q) <=> Writes(st, m, q) \/ (stack[k].into = m /\ stack[k].prop = q)
    BY <1>2, <1>3, <1>11, <2>1, <2>2, OneMoreStore
  <2> QED
    BY <1>2, <2>3
<1>18. ~Writes(st, o, f)
  <2> SUFFICES ASSUME NEW i \in 1 .. k, st[i].into = o, st[i].prop = f PROVE FALSE
    BY <1>11 DEF Writes
  <2>1. i # k /\ st[i] = stack[i]
    BY <1>1, <1>13
  <2> QED
    BY <1>5, <2>1
<1>19. Exact(h, st, None, o)
  <2> SUFFICES ASSUME NEW m \in Nodes
               PROVE  h[m].rc = Cardinality(Owners(h, st, m)) + Others(h, st, None, o, m)
    BY DEF Exact
  <2> DEFINE T == Owners(h, st, m)
             S == Owners(heap, stack, m)
  <2>1. heap[m].rc = Cardinality(S) + Others(heap, stack, None, None, m)
    BY <1>3, <1>5 DEF Good, Exact
  <2>2. /\ S \in SUBSET (Nodes \X Fields) /\ T \in SUBSET (Nodes \X Fields)
        /\ T \ {<<o, f>>} \in SUBSET (Nodes \X Fields)
        /\ Cardinality(S) \in Nat /\ Cardinality(T) \in Nat
    BY OwnersAreEdges
  <2>3. <<o, f>> \notin S
    BY <1>4, <1>17, OwnersDef
  <2>4. ASSUME NEW p \in Nodes, NEW q \in Fields, p # o \/ q # f
        PROVE  <<p, q>> \in S <=> <<p, q>> \in T
    <3>1. h[p].live = heap[p].live /\ h[p].slot[q] = heap[p].slot[q]
      BY <1>10, <2>4
    <3>2. Writes(st, p, q) <=> Writes(stack, p, q)
      BY <1>17, <2>4
    <3>3. (\A i \in 1 .. k : stack[i].kind = "release" /\ stack[i].n = p => q \in stack[i].todo)
          <=> (\A i \in 1 .. Len(st) : st[i].kind = "release" /\ st[i].n = p => q \in st[i].todo)
      BY <1>11, <1>13
    <3> QED
      BY <3>1, <3>2, <3>3, OwnersDef
  <2>5. <<o, f>> \in T <=> m = x
    <3>1. h[o].live /\ h[o].slot[f] = x
      BY <1>4, <1>7, <1>10
    <3>2. \A i \in 1 .. Len(st) : st[i].kind = "release" => st[i].n # o
      BY <1>7, <1>11, <1>13
    <3> QED
      BY <1>4, <1>18, <3>1, <3>2, OwnersDef
  <2>6. \A p \in Nodes, q \in Fields : <<p, q>> \in S <=> <<p, q>> \in T \ {<<o, f>>}
    BY <2>3, <2>4
  <2> HIDE DEF S, T
  <2>7. S = T \ {<<o, f>>}
    BY <2>2, <2>6, SameOwners
  <2>8. Cardinality(T) = Cardinality(S) + IF m = x THEN 1 ELSE 0
    <3>1. CASE m = x
      BY <2>2, <2>5, <2>7, <3>1, OneLess
    <3>2. CASE m # x
      <4>1. T = S
        BY <2>5, <2>7, <3>2
      <4> QED
        BY <2>2, <3>2, <4>1
    <3> QED
      BY <3>1, <3>2
  <2>9. Flies(st, None, m) <=> Flies(stack, None, m)
    BY <1>3, <1>11, <1>13 DEF Flies
  <2> DEFINE c == IF m = o THEN 1 ELSE 0
             d == IF m = x THEN 1 ELSE 0
             u == Others(heap, stack, None, None, m)
             v == Others(h, st, None, o, m)
  <2>10. c \in Nat /\ d \in Nat /\ Held(st, m) \in Nat /\ v \in Nat
    BY <1>11, HeldIsNumber, OthersIsNumber
  <2>11. u = v + d
    <3>1. Held(stack, m) = Held(st, m) + c + d /\ (h[m].pin <=> heap[m].pin) /\ m # None
      BY <1>3, <1>10, <1>17
    <3>2. v = Held(st, m) + (IF Flies(st, None, m) THEN 1 ELSE 0) + (IF m = Root THEN 1 ELSE 0)
                + (IF h[m].pin THEN 1 ELSE 0) + c
      BY DEF Others
    <3> HIDE DEF c, d, v
    <3> QED
      BY <2>9, <2>10, <3>1, <3>2 DEF Others
  <2>12. h[m].rc = heap[m].rc
    BY <1>10
  <2> HIDE DEF c, d, u, v
  <2>13. heap[m].rc = Cardinality(S) + u /\ Cardinality(T) = Cardinality(S) + d
    BY <2>1, <2>8 DEF S, u, d
  <2>14. h[m].rc = Cardinality(T) + v
    BY <2>2, <2>10, <2>11, <2>12, <2>13
  <2> QED
    BY <2>14 DEF T, v
<1>20. Good(h, st, None, o)
  <2>1. Types(h, st, None)
    BY <1>10, <1>11 DEF Types
  <2> QED
    BY <1>12, <1>14, <1>15, <1>16, <1>19, <2>1 DEF Good
<1>21. Last(st).kind = "store"
  BY <1>8, <1>11 DEF Last
<1>22. Good(heap', stack', None, None)
  BY <1>4, <1>6, <1>20, <1>21, ReleaseKeeps
<1> QED
  BY <1>1, <1>5, <1>22 DEF IInv

LEMMA StoredStep ==
    ASSUME IInv, Stored
    PROVE  IInv'
<1> DEFINE k == Len(stack)
<1>1. /\ stack # <<>> /\ Top.kind = "store" /\ Top.into = None
      /\ Leave(Front(stack), Top.exc) /\ heap' = heap
  BY DEF Stored, On
<1>2. /\ k \in Nat \ {0} /\ k \in 1 .. k /\ Top = stack[k] /\ FrameIsRight(stack, k)
  BY <1>1, TopFrame
<1>3. /\ Types(heap, stack, thrown) /\ Good(heap, stack, thrown, None) /\ stack \in Seq(FrameType)
      /\ None \notin Nodes /\ stack[k].n = None
  BY <1>1, <1>2, NodesAreFinite DEF IInv, Good, Types, FrameIsRight
<1>4. /\ stack' \in Seq(FrameType) /\ thrown' \in Objects \cup {None}
      /\ Len(stack') = k - 1
      /\ \A i \in 1 .. k - 1 : /\ stack'[i].kind = stack[i].kind /\ stack'[i].n = stack[i].n
                               /\ stack'[i].todo = stack[i].todo
      /\ Shape(stack') /\ Apart(stack') /\ OneException(stack', thrown')
      /\ \A m \in Nodes : Flies(stack', thrown', m) <=> Flies(stack, thrown, m)
      /\ SameStores(stack, stack') /\ Stores(stack', thrown')
  BY <1>1, FrameIsLeft
<1>5. /\ \A i \in 1 .. k : i \in 1 .. k - 1 \/ i = k
      /\ \A i \in 1 .. k - 1 : i \in 1 .. k
  BY <1>2
<1>6. Frames(heap, stack') /\ Marks(heap, stack') /\ Pins(heap, stack')
  <2>1. Frames(heap, stack) /\ Marks(heap, stack) /\ Pins(heap, stack)
    BY <1>3 DEF Good
  <2>2. /\ CollectsIn(stack') <=> CollectsIn(stack)
        /\ CollectsIn(stack) => stack'[1].todo = stack[1].todo
    <3>1. CASE k = 1
      <4>1. stack' = <<>> /\ stack[1].kind = "store"
        BY <1>1, <1>2, <1>4, <3>1, EmptySeq
      <4> QED
        BY <4>1 DEF CollectsIn
    <3>2. CASE k # 1
      <4>1. 1 \in 1 .. k - 1 /\ stack' # <<>>
        BY <1>2, <1>4, <3>2, EmptySeq
      <4> QED
        BY <1>1, <1>4, <4>1 DEF CollectsIn
    <3> QED
      BY <3>1, <3>2
  <2>3. Len(stack') \in Nat /\ k \in Nat
    BY <1>2, <1>4
  <2>4. /\ \A i \in 1 .. k : stack[i].n # None => i \in 1 .. Len(stack') /\ stack'[i].n = stack[i].n
        /\ \A i \in 1 .. Len(stack') : stack'[i].n # None =>
               i \in 1 .. k /\ stack'[i].n = stack[i].n /\ stack'[i].kind = stack[i].kind
    BY <1>3, <1>4, <1>5
  <2> QED
    BY <2>1, <2>2, <2>3, <2>4, SameWork
<1>7. Exact(heap, stack', thrown', None)
  <2> SUFFICES ASSUME NEW m \in Nodes
               PROVE  heap[m].rc = Cardinality(Owners(heap, stack', m)) + Others(heap, stack', thrown', None, m)
    BY DEF Exact
  <2>1. heap[m].rc = Cardinality(Owners(heap, stack, m)) + Others(heap, stack, thrown, None, m)
    BY <1>3 DEF Good, Exact
  <2>2. ASSUME NEW p \in Nodes, NEW q \in Fields
        PROVE  <<p, q>> \in Owners(heap, stack, m) <=> <<p, q>> \in Owners(heap, stack', m)
    <3>1. (\A i \in 1 .. k : stack[i].kind = "release" /\ stack[i].n = p => q \in stack[i].todo)
          <=> (\A i \in 1 .. Len(stack') : stack'[i].kind = "release" /\ stack'[i].n = p => q \in stack'[i].todo)
      BY <1>1, <1>2, <1>4, <1>5
    <3>2. Writes(stack, p, q) <=> Writes(stack', p, q)
      BY <1>4, StoresKept
    <3> QED
      BY <3>1, <3>2, OwnersDef
  <2>3. Owners(heap, stack, m) = Owners(heap, stack', m)
    BY <2>2, SameOwners, OwnersAreEdges
  <2>4. Held(stack, m) = Held(stack', m) /\ (Flies(stack', thrown', m) <=> Flies(stack, thrown, m))
    BY <1>4, StoresKept
  <2> QED
    BY <2>1, <2>3, <2>4 DEF Others
<1>8. Good(heap', stack', thrown', None)
  <2>1. Types(heap, stack', thrown') /\ Calls(heap) /\ Blank(heap)
    BY <1>3, <1>4 DEF Types, Good
  <2> QED
    BY <1>1, <1>4, <1>6, <1>7, <2>1 DEF Good
<1> QED
  BY <1>8 DEF IInv

-----------------------------------------------------------------------------
(* The collector.                                                          *)

\* While the collector is on top nothing else runs, and the owners that count are the
\* properties of all live blocks.
LEMMA CollectorIsAlone ==
    ASSUME IInv, On("collect")
    PROVE  /\ stack # <<>> /\ Len(stack) = 1 /\ Top = stack[1] /\ Top \in FrameType
           /\ Top.n = None /\ Top.kind = "collect" /\ Top.todo \subseteq Objects
           /\ Top.into = None /\ Top.val = None
           /\ \A m \in Nodes : Held(stack, m) = 0 /\ \A f : ~Writes(stack, m, f)
           /\ CollectsIn(stack) /\ thrown = None
           /\ \A m \in Nodes : ~heap[m].running
           /\ \A m \in Nodes : Flies(stack, thrown, m) <=> Top.exc = m
           /\ \A m \in Nodes, p \in Nodes, f \in Fields :
                  <<p, f>> \in Owners(heap, stack, m) <=> heap[p].live /\ heap[p].slot[f] = m
           /\ \A m \in Nodes : Incoming(m) = Cardinality(Owners(heap, stack, m))
<1>1. stack # <<>> /\ Top.kind = "collect"
  BY DEF On
<1>2. /\ Len(stack) \in Nat \ {0} /\ Len(stack) \in 1 .. Len(stack) /\ Top = stack[Len(stack)]
      /\ Top \in FrameType /\ FrameIsRight(stack, Len(stack)) /\ Last(stack) = Top
  BY <1>1, TopFrame DEF Last
<1>3. /\ Len(stack) = 1 /\ Top = stack[1] /\ Top.n = None /\ Top.todo \subseteq Objects
      /\ Top.into = None /\ Top.val = None
  BY <1>1, <1>2 DEF FrameIsRight
<1>4. /\ Types(heap, stack, thrown) /\ Good(heap, stack, thrown, None) /\ None \notin Nodes
  BY NodesAreFinite DEF IInv, Good
<1>5. thrown = None /\ CollectsIn(stack)
  BY <1>1, <1>2, <1>3, <1>4 DEF Good, OneException, CollectsIn
<1>6. \A i \in 1 .. Len(stack) : i = 1
  BY <1>3
<1>11. \A m \in Nodes : Held(stack, m) = 0 /\ \A f : ~Writes(stack, m, f)
  <2>1. stack \in Seq(FrameType) /\ \A i \in 1 .. Len(stack) : stack[i].into = None /\ stack[i].val = None
    BY <1>3, <1>4, <1>6 DEF Types
  <2> QED
    BY <2>1, NoStores
<1>7. \A m \in Nodes : ~heap[m].running
  BY <1>3, <1>4, <1>6 DEF Good, Marks
<1>8. \A m \in Nodes : Flies(stack, thrown, m) <=> Top.exc = m
  BY <1>2, <1>3, <1>4, <1>5, <1>6 DEF Flies
<1>9. ASSUME NEW m \in Nodes, NEW p \in Nodes, NEW f \in Fields
      PROVE  <<p, f>> \in Owners(heap, stack, m) <=> heap[p].live /\ heap[p].slot[f] = m
  BY <1>1, <1>3, <1>6, <1>11, OwnersDef
<1>10. ASSUME NEW m \in Nodes PROVE Incoming(m) = Cardinality(Owners(heap, stack, m))
  <2> DEFINE S == {e \in Live \X Fields : heap[e[1]].slot[e[2]] = m}
  <2>1. S \in SUBSET (Nodes \X Fields)
    BY DEF Live
  <2>2. \A p \in Nodes, f \in Fields : <<p, f>> \in S <=> heap[p].live /\ heap[p].slot[f] = m
    BY DEF Live
  <2>3. \A p \in Nodes, f \in Fields : <<p, f>> \in S <=> <<p, f>> \in Owners(heap, stack, m)
    BY <1>9, <2>2
  <2>4. Incoming(m) = Cardinality(S)
    BY DEF Incoming
  <2> HIDE DEF S
  <2>5. S = Owners(heap, stack, m)
    BY <2>1, <2>3, SameOwners, OwnersAreEdges
  <2> QED
    BY <2>4, <2>5
<1> QED
  BY <1>1, <1>2, <1>3, <1>5, <1>7, <1>8, <1>9, <1>10, <1>11

\* What the collector marks from is Root and the exception it holds, and what it marks is
\* closed: an unmarked block has no owner but unmarked ones and pins.
LEMMA MarkingIsRight ==
    ASSUME IInv, On("collect")
    PROVE  /\ Anchored \subseteq {Root, Top.exc} /\ Anchored \subseteq Nodes
           /\ Unmarked \subseteq Live /\ Unmarked \subseteq Objects
           /\ Root \in Live \ Unmarked /\ Top.exc \notin Unmarked
           /\ \A p \in Live, f \in Fields :
                  (p \notin Unmarked /\ heap[p].slot[f] # None) =>
                      heap[p].slot[f] \in Live /\ heap[p].slot[f] \notin Unmarked
<1>1. /\ Top.kind = "collect" /\ thrown = None /\ Top \in FrameType
      /\ \A m \in Nodes : ~heap[m].running /\ Held(stack, m) = 0
      /\ \A m \in Nodes : Flies(stack, thrown, m) <=> Top.exc = m
      /\ \A m \in Nodes, p \in Nodes, f \in Fields :
             <<p, f>> \in Owners(heap, stack, m) <=> heap[p].live /\ heap[p].slot[f] = m
      /\ \A m \in Nodes : Incoming(m) = Cardinality(Owners(heap, stack, m))
  BY CollectorIsAlone
<1>2. /\ Good(heap, stack, thrown, None) /\ heap \in [Nodes -> BlockType]
      /\ None \notin Nodes /\ Root \in Nodes
  BY NodesAreFinite DEF IInv, Good, Types
<1>3. ASSUME NEW m \in Live PROVE m \in Anchored <=> m = Root \/ m = Top.exc
  <2>1. m \in Nodes
    BY DEF Live
  <2>2. heap[m].rc = Cardinality(Owners(heap, stack, m)) + Others(heap, stack, thrown, None, m)
    BY <1>2, <2>1 DEF Good, Exact
  <2>3. Cardinality(Owners(heap, stack, m)) \in Nat /\ m # None
    BY <1>2, <2>1, OwnersAreEdges
  <2>4. m \in Anchored <=> heap[m].rc > Incoming(m) + (IF heap[m].pin THEN 1 ELSE 0)
    BY <1>1, <2>1 DEF Anchored
  <2> QED
    BY <1>1, <2>1, <2>2, <2>3, <2>4 DEF Others
<1>4. Anchored \subseteq {Root, Top.exc} /\ Anchored \subseteq Nodes
  BY <1>3 DEF Anchored, Live
<1>5. /\ Anchored \subseteq Reach(Anchored, Edges)
      /\ \A m \in Reach(Anchored, Edges), v \in Nodes : v \in Edges[m] => v \in Reach(Anchored, Edges)
  BY <1>4, ReachIsClosed
<1>6. Root \in Live /\ Root \in Reach(Anchored, Edges)
  <2>1. Root \in Live
    BY <1>2 DEF Good, Blank, Live
  <2> QED
    BY <1>3, <1>5, <2>1
<1>7. Top.exc \notin Unmarked
  <2>1. SUFFICES ASSUME Top.exc \in Live PROVE Top.exc \in Reach(Anchored, Edges)
    BY DEF Unmarked
  <2> QED
    BY <1>3, <1>5, <2>1
<1>8. Unmarked \subseteq Live /\ Unmarked \subseteq Objects
  BY <1>6 DEF Unmarked, Live, Nodes
<1>9. ASSUME NEW p \in Live, NEW f \in Fields, p \notin Unmarked, heap[p].slot[f] # None
      PROVE  heap[p].slot[f] \in Live /\ heap[p].slot[f] \notin Unmarked
  <2> DEFINE v == heap[p].slot[f]
  <2>1. p \in Nodes /\ heap[p].live /\ p \in Reach(Anchored, Edges)
    BY <1>9 DEF Live, Unmarked
  <2>2. v \in Nodes
    BY <1>2, <1>9, <2>1 DEF BlockType
  <2>3. v \in Edges[p]
    BY <1>2, <1>9, <2>1, EdgesAreSlots
  <2>4. <<p, f>> \in Owners(heap, stack, v)
    BY <1>1, <2>1, <2>2
  <2>5. v \in Live
    BY <1>2, <2>2, <2>4, HeldIsAlive DEF Live
  <2> QED
    BY <1>5, <2>1, <2>2, <2>3, <2>5 DEF Unmarked
<1> QED
  BY <1>4, <1>6, <1>7, <1>8, <1>9 DEF Unmarked

LEMMA PinStep ==
    ASSUME IInv, Pin
    PROVE  IInv'
<1> DEFINE chunk == {n \in Unmarked : ~heap[n].pin}
           fr    == [Top EXCEPT !.todo = NeedDestructor]
<1>1. /\ On("collect") /\ Top.todo = {} /\ thrown' = thrown
      /\ heap' = [n \in Nodes |-> IF n \in chunk THEN [heap[n] EXCEPT !.pin = TRUE, !.rc = @ + 1]
                                  ELSE heap[n]]
      /\ stack' = [stack EXCEPT ![Len(stack)].todo = NeedDestructor]
  BY DEF Pin
<1>2. /\ stack # <<>> /\ Len(stack) = 1 /\ Top = stack[1] /\ Top \in FrameType
      /\ Top.n = None /\ Top.kind = "collect" /\ CollectsIn(stack) /\ thrown = None
      /\ \A m \in Nodes : ~heap[m].running /\ Held(stack, m) = 0 /\ \A f : ~Writes(stack, m, f)
      /\ Top.into = None /\ Top.val = None
  BY <1>1, CollectorIsAlone
<1>3. /\ Types(heap, stack, thrown) /\ Good(heap, stack, thrown, None) /\ stack \in Seq(FrameType)
      /\ None \notin Nodes /\ Root \in Nodes /\ heap \in [Nodes -> BlockType]
      /\ Objects \subseteq Nodes
  BY NodesAreFinite DEF IInv, Good, Types
<1>4. Unmarked \subseteq Live /\ Unmarked \subseteq Objects /\ Root \notin Unmarked
  BY <1>1, MarkingIsRight
<1>5. NeedDestructor \subseteq Objects /\ NeedDestructor \subseteq chunk
  BY <1>4 DEF NeedDestructor
<1>6. /\ fr \in FrameType /\ fr.kind = "collect" /\ fr.n = None /\ fr.todo = NeedDestructor
      /\ fr.exc = Top.exc /\ fr.into = None /\ fr.val = None
  BY <1>2, <1>5 DEF FrameType
<1>7. stack' = [stack EXCEPT ![Len(stack)] = fr]
  BY <1>1, <1>2
<1>8. \A n \in Nodes : n \in chunk <=> n \in Unmarked /\ ~heap[n].pin
  OBVIOUS
<1> HIDE DEF fr, chunk
<1>9. /\ stack' \in Seq(FrameType) /\ stack' # <<>> /\ Len(stack') = 1 /\ stack'[1] = fr
  BY <1>2, <1>3, <1>6, <1>7, Retopped
<1>10. Shape(stack') /\ Apart(stack')
  <2>1. Shape(stack) /\ Apart(stack) /\ Last(stack) = Top
    BY <1>2, <1>3 DEF Good, Last
  <2> QED
    BY <1>2, <1>3, <1>5, <1>6, <1>7, <2>1, RetopKeepsShape
<1>11. /\ heap' \in [Nodes -> BlockType]
       /\ \A m \in Nodes : /\ heap'[m].live = heap[m].live
                           /\ heap'[m].rc = IF m \in chunk THEN heap[m].rc + 1 ELSE heap[m].rc
                           /\ heap'[m].pin = IF m \in chunk THEN TRUE ELSE heap[m].pin
                           /\ heap'[m].running = heap[m].running
                           /\ heap'[m].called = heap[m].called
                           /\ heap'[m].dtor = heap[m].dtor /\ heap'[m].calls = heap[m].calls
                           /\ heap'[m].slot = heap[m].slot
       /\ \A m \in Nodes : m \notin chunk => heap'[m] = heap[m]
  <2>1. ASSUME NEW m \in Nodes
        PROVE  /\ [heap[m] EXCEPT !.pin = TRUE, !.rc = @ + 1] \in BlockType
               /\ heap'[m].live = heap[m].live
               /\ heap'[m].rc = IF m \in chunk THEN heap[m].rc + 1 ELSE heap[m].rc
               /\ heap'[m].pin = IF m \in chunk THEN TRUE ELSE heap[m].pin
               /\ heap'[m].running = heap[m].running
               /\ heap'[m].called = heap[m].called
               /\ heap'[m].dtor = heap[m].dtor /\ heap'[m].calls = heap[m].calls
               /\ heap'[m].slot = heap[m].slot
    <3>1. heap[m] \in BlockType
      BY <1>3
    <3> DEFINE b == [heap[m] EXCEPT !.pin = TRUE, !.rc = @ + 1]
    <3>2. /\ b \in BlockType
          /\ b.live = heap[m].live /\ b.rc = heap[m].rc + 1 /\ b.pin = TRUE
          /\ b.running = heap[m].running /\ b.called = heap[m].called
          /\ b.dtor = heap[m].dtor /\ b.calls = heap[m].calls /\ b.slot = heap[m].slot
      <4>1. heap[m].rc + 1 \in Nat
        BY <3>1 DEF BlockType
      <4>2. b.live = heap[m].live /\ b.rc = heap[m].rc + 1 /\ b.pin = TRUE
        BY <3>1 DEF BlockType
      <4>3. /\ b.running = heap[m].running /\ b.called = heap[m].called
            /\ b.dtor = heap[m].dtor /\ b.calls = heap[m].calls /\ b.slot = heap[m].slot
        BY <3>1 DEF BlockType
      <4>4. b \in BlockType
        BY <3>1, <4>1 DEF BlockType
      <4> QED
        BY <4>2, <4>3, <4>4
    <3>3. heap'[m] = IF m \in chunk THEN b ELSE heap[m]
      BY <1>1
    <3>4. b = [heap[m] EXCEPT !.pin = TRUE, !.rc = @ + 1]
      OBVIOUS
    <3> HIDE DEF b
    <3> QED
      BY <3>2, <3>3, <3>4
  <2>2. heap' \in [Nodes -> BlockType]
    BY <1>1, <1>3, <2>1
  <2>3. \A m \in Nodes : m \notin chunk => heap'[m] = heap[m]
    BY <1>1
  <2> QED
    BY <2>1, <2>2, <2>3
<1>12. \A i \in 1 .. Len(stack') : i = 1
  BY <1>9
<1>13. \A i \in 1 .. Len(stack) : i = 1
  BY <1>2
<1>20. /\ \A th : Stores(stack', th)
       /\ \A m \in Nodes : Held(stack', m) = 0 /\ \A f : ~Writes(stack', m, f)
  <2>1. \A i \in 1 .. Len(stack') : stack'[i].into = None /\ stack'[i].val = None
    BY <1>6, <1>9, <1>12
  <2> QED
    BY <1>9, <2>1, NoStores
<1>14. Types(heap', stack', thrown') /\ Frames(heap', stack') /\ Marks(heap', stack')
  <2>1. Types(heap', stack', thrown')
    BY <1>1, <1>3, <1>9, <1>11 DEF Types
  <2>2. Frames(heap', stack')
    BY <1>6, <1>9, <1>12 DEF Frames
  <2>3. Marks(heap', stack')
    BY <1>2, <1>11 DEF Marks
  <2> QED
    BY <2>1, <2>2, <2>3
<1>15. OneException(stack', thrown')
  BY <1>1, <1>2, <1>6, <1>9, <1>12 DEF OneException
<1>16. Pins(heap', stack')
  <2>1. CollectsIn(stack') /\ stack'[1].todo = NeedDestructor
    BY <1>6, <1>9 DEF CollectsIn
  <2> SUFFICES ASSUME NEW n \in Nodes
               PROVE  /\ heap'[n].pin => n # Root /\ (heap'[n].called \/ n \in NeedDestructor)
                      /\ n \in NeedDestructor => heap'[n].pin /\ ~heap'[n].called
    BY <2>1 DEF Pins
  <2>2. heap[n].pin => n # Root /\ heap[n].called
    BY <1>1, <1>2, <1>3 DEF Good, Pins
  <2>3. n \in NeedDestructor <=> n \in Unmarked /\ ~heap[n].pin /\ ~heap[n].called
    BY DEF NeedDestructor
  <2> QED
    BY <1>4, <1>8, <1>11, <2>2, <2>3
<1>17. Calls(heap') /\ Blank(heap')
  <2>1. Calls(heap')
    BY <1>3, <1>11 DEF Good, Calls
  <2>2. \A n \in chunk : heap[n].live
    BY <1>4 DEF chunk, Live
  <2>3. Blank(heap')
    BY <1>3, <1>11, <2>2 DEF Good, Blank
  <2> QED
    BY <2>1, <2>3
<1>18. Exact(heap', stack', thrown', None)
  <2> SUFFICES ASSUME NEW m \in Nodes
               PROVE  heap'[m].rc = Cardinality(Owners(heap', stack', m)) + Others(heap', stack', thrown', None, m)
    BY DEF Exact
  <2>1. heap[m].rc = Cardinality(Owners(heap, stack, m)) + Others(heap, stack, thrown, None, m)
    BY <1>3 DEF Good, Exact
  <2>2. ASSUME NEW p \in Nodes, NEW f \in Fields
        PROVE  <<p, f>> \in Owners(heap, stack, m) <=> <<p, f>> \in Owners(heap', stack', m)
    <3>1. heap'[p].live = heap[p].live /\ heap'[p].slot[f] = heap[p].slot[f]
      BY <1>11
    <3> QED
      BY <1>2, <1>6, <1>9, <1>12, <1>13, <1>20, <3>1, OwnersDef
  <2>3. Owners(heap, stack, m) = Owners(heap', stack', m)
    BY <2>2, SameOwners, OwnersAreEdges
  <2>4. Flies(stack, thrown, m) <=> Flies(stack', thrown', m)
    BY <1>1, <1>2, <1>6, <1>9, <1>12, <1>13 DEF Flies
  <2>5. Others(heap', stack', thrown', None, m)
          = Others(heap, stack, thrown, None, m) + IF m \in chunk THEN 1 ELSE 0
    <3>1. CASE m \in chunk
      <4>1. ~heap[m].pin /\ heap'[m].pin
        BY <1>8, <1>11, <3>1
      <4> QED
        BY <1>2, <1>20, <2>4, <3>1, <4>1 DEF Others
    <3>2. CASE m \notin chunk
      <4>1. heap'[m].pin = heap[m].pin
        BY <1>11, <3>2
      <4> QED
        BY <1>2, <1>20, <2>4, <3>2, <4>1 DEF Others
    <3> QED
      BY <3>1, <3>2
  <2>6. Others(heap, stack, thrown, None, m) \in Nat /\ Cardinality(Owners(heap, stack, m)) \in Nat
    BY <1>3, OwnersAreEdges, OthersIsNumber
  <2>7. heap'[m].rc = heap[m].rc + IF m \in chunk THEN 1 ELSE 0
    <3>1. CASE m \in chunk
      BY <1>11, <3>1
    <3>2. CASE m \notin chunk
      BY <1>11, <2>1, <2>6, <3>2
    <3> QED
      BY <3>1, <3>2
  <2> DEFINE k == IF m \in chunk THEN 1 ELSE 0
  <2>8. k \in Nat
    OBVIOUS
  <2>9. /\ heap'[m].rc = heap[m].rc + k
        /\ Others(heap', stack', thrown', None, m) = Others(heap, stack, thrown, None, m) + k
    BY <2>5, <2>7
  <2> HIDE DEF k
  <2> QED
    BY <2>1, <2>3, <2>6, <2>8, <2>9
<1>19. Good(heap', stack', thrown', None)
  BY <1>10, <1>14, <1>15, <1>16, <1>17, <1>18, <1>20 DEF Good
<1> QED
  BY <1>19 DEF IInv

LEMMA DestructStep ==
    ASSUME IInv, NEW n \in Nodes, Destruct(n)
    PROVE  IInv'
<1> DEFINE fr   == [Top EXCEPT !.todo = @ \ {n}]
           st   == [stack EXCEPT ![Len(stack)] = fr]
           dt   == Frame("destructor", n, {})
           runs == heap[n].dtor /\ ~heap[n].called
<1>1. /\ On("collect") /\ n \in Top.todo /\ thrown' = thrown
      /\ heap' = [heap EXCEPT ![n].called = TRUE, ![n].running = runs,
                              ![n].calls = IF runs THEN @ + 1 ELSE @]
      /\ stack' = IF runs THEN Append([stack EXCEPT ![Len(stack)].todo = @ \ {n}], dt)
                  ELSE [stack EXCEPT ![Len(stack)].todo = @ \ {n}]
  BY DEF Destruct
<1>2. /\ stack # <<>> /\ Len(stack) = 1 /\ Top = stack[1] /\ Top \in FrameType
      /\ Top.n = None /\ Top.kind = "collect" /\ Top.todo \subseteq Objects
      /\ CollectsIn(stack) /\ thrown = None
      /\ \A m \in Nodes : ~heap[m].running /\ Held(stack, m) = 0 /\ \A f : ~Writes(stack, m, f)
      /\ Top.into = None /\ Top.val = None
  BY <1>1, CollectorIsAlone
<1>3. /\ Types(heap, stack, thrown) /\ Good(heap, stack, thrown, None) /\ stack \in Seq(FrameType)
      /\ None \notin Nodes /\ Root \in Nodes /\ heap \in [Nodes -> BlockType]
      /\ heap[n] \in BlockType /\ Objects \subseteq Nodes
      /\ Shape(stack) /\ Apart(stack) /\ Last(stack) = Top
  BY <1>2, NodesAreFinite DEF IInv, Good, Types, Last
<1>4. n \in Objects /\ n # None
  BY <1>1, <1>2, <1>3
<1>5. heap[n].pin /\ ~heap[n].called /\ heap[n].live
  <2>1. heap[n].pin /\ ~heap[n].called
    BY <1>1, <1>2, <1>3 DEF Good, Pins
  <2> QED
    BY <1>3, <2>1, HeldIsAlive
<1>6. /\ fr \in FrameType /\ fr.kind = "collect" /\ fr.n = None /\ fr.todo = Top.todo \ {n}
      /\ fr.exc = Top.exc /\ fr.into = None /\ fr.val = None
  BY <1>2 DEF FrameType
<1>7. stack' = IF runs THEN Append(st, dt) ELSE st
  BY <1>1, <1>2
<1>8. /\ dt \in FrameType /\ dt.kind = "destructor" /\ dt.n = n /\ dt.exc = None
      /\ dt.into = None /\ dt.val = None
  BY <1>4 DEF FrameType, Frame
<1> HIDE DEF fr, dt
<1>9. /\ st \in Seq(FrameType) /\ st # <<>> /\ Len(st) = 1 /\ st[1] = fr
  BY <1>2, <1>3, <1>6, Retopped
<1>10. Shape(st) /\ Apart(st)
  BY <1>2, <1>3, <1>6, RetopKeepsShape
<1> HIDE DEF st
<1>11. /\ stack' \in Seq(FrameType) /\ stack' # <<>> /\ stack'[1] = fr
       /\ Len(stack') = IF runs THEN 2 ELSE 1
       /\ runs => stack'[2] = dt
       /\ Shape(stack') /\ Apart(stack')
  <2>1. CASE runs
    <3>1. /\ stack' \in Seq(FrameType) /\ stack' # <<>> /\ Len(stack') = 2
          /\ stack'[1] = fr /\ stack'[2] = dt
      <4>1. /\ stack' \in Seq(FrameType) /\ stack' # <<>> /\ Len(stack') = Len(st) + 1
            /\ \A i \in 1 .. Len(st) : stack'[i] = st[i]
            /\ stack'[Len(st) + 1] = dt
        BY <1>7, <1>8, <1>9, <2>1, Pushed
      <4> QED
        BY <1>9, <4>1
    <3>2. Last(st) = fr
      BY <1>9 DEF Last
    <3>3. Shape(stack')
      BY <1>4, <1>6, <1>7, <1>8, <1>9, <1>10, <2>1, <3>2, PushKeepsShape
    <3>4. \A i \in 1 .. Len(st) : st[i].n # n
      BY <1>4, <1>6, <1>9
    <3>5. Apart(stack')
      BY <1>7, <1>8, <1>9, <1>10, <2>1, <3>4, PushKeepsApart
    <3> QED
      BY <2>1, <3>1, <3>3, <3>5
  <2>2. CASE ~runs
    BY <1>7, <1>9, <1>10, <2>2
  <2> QED
    BY <2>1, <2>2
<1>12. /\ heap' \in [Nodes -> BlockType]
       /\ \A m \in Nodes : /\ heap'[m].live = heap[m].live /\ heap'[m].rc = heap[m].rc
                           /\ heap'[m].pin = heap[m].pin /\ heap'[m].dtor = heap[m].dtor
                           /\ heap'[m].slot = heap[m].slot
       /\ heap'[n].called /\ (heap'[n].running <=> runs)
       /\ heap'[n].calls = IF runs THEN heap[n].calls + 1 ELSE heap[n].calls
       /\ \A m \in Nodes : m # n => heap'[m] = heap[m]
  <2> DEFINE b == [heap[n] EXCEPT !.called = TRUE, !.running = runs,
                                  !.calls = IF runs THEN @ + 1 ELSE @]
  <2>1. heap[n].calls = 0
    BY <1>3, <1>5 DEF Good, Calls
  <2>2. /\ b.live = heap[n].live /\ b.rc = heap[n].rc /\ b.pin = heap[n].pin
        /\ b.dtor = heap[n].dtor /\ b.slot = heap[n].slot
    BY <1>3 DEF BlockType
  <2>3. b.called = TRUE /\ b.running = runs /\ b.calls = IF runs THEN heap[n].calls + 1 ELSE heap[n].calls
    BY <1>3 DEF BlockType
  <2>4. runs \in BOOLEAN /\ (IF runs THEN heap[n].calls + 1 ELSE heap[n].calls) \in {0, 1}
    BY <2>1
  <2>5. b \in BlockType
    BY <1>3, <2>4, Zenon DEF BlockType
  <2>6. heap' = [heap EXCEPT ![n] = b]
    BY <1>1
  <2> HIDE DEF b
  <2> QED
    BY <1>3, <2>2, <2>3, <2>5, <2>6
<1> HIDE DEF runs
<1>13. \A i \in 1 .. Len(stack') : i = 1 \/ (i = 2 /\ runs)
  BY <1>11
<1>14. \A i \in 1 .. Len(stack) : i = 1
  BY <1>2
<1>21. /\ \A th : Stores(stack', th)
       /\ \A m \in Nodes : Held(stack', m) = 0 /\ \A f : ~Writes(stack', m, f)
  <2>1. \A i \in 1 .. Len(stack') : stack'[i].into = None /\ stack'[i].val = None
    BY <1>6, <1>8, <1>11, <1>13
  <2> QED
    BY <1>11, <2>1, NoStores
<1>15. Types(heap', stack', thrown') /\ Frames(heap', stack') /\ Marks(heap', stack')
  <2>1. Types(heap', stack', thrown')
    BY <1>1, <1>3, <1>11, <1>12 DEF Types
  <2>2. Frames(heap', stack')
    <3> SUFFICES ASSUME NEW i \in 1 .. Len(stack'), stack'[i].n # None
                 PROVE  /\ heap'[stack'[i].n].live /\ heap'[stack'[i].n].running
                        /\ heap'[stack'[i].n].called
                        /\ stack'[i].kind = "release" => heap'[stack'[i].n].rc = 0
      BY DEF Frames
    <3>1. runs /\ stack'[i] = dt
      BY <1>6, <1>11, <1>13
    <3> QED
      BY <1>5, <1>8, <1>12, <3>1
  <2>3. Marks(heap', stack')
    <3> SUFFICES ASSUME NEW m \in Nodes, heap'[m].running PROVE \E i \in 1 .. Len(stack') : stack'[i].n = m
      BY DEF Marks
    <3>1. m = n /\ runs
      BY <1>2, <1>12
    <3>2. 2 \in 1 .. Len(stack') /\ stack'[2].n = m
      BY <1>8, <1>11, <3>1
    <3> QED
      BY <3>2
  <2> QED
    BY <2>1, <2>2, <2>3
<1>16. OneException(stack', thrown')
  <2>1. \A i \in 1 .. Len(stack') : stack'[i].exc # None => i = 1
    BY <1>8, <1>11, <1>13
  <2>2. \A i \in 1 .. Len(stack') : stack'[i].kind = "destructor" => stack'[i].exc = None
    BY <1>6, <1>8, <1>11, <1>13
  <2> QED
    BY <1>1, <1>2, <2>1, <2>2 DEF OneException
<1>17. Pins(heap', stack')
  <2>1. CollectsIn(stack') /\ stack'[1].todo = Top.todo \ {n}
    BY <1>6, <1>11 DEF CollectsIn
  <2> SUFFICES ASSUME NEW m \in Nodes
               PROVE  /\ heap'[m].pin => m # Root /\ (heap'[m].called \/ m \in Top.todo \ {n})
                      /\ m \in Top.todo \ {n} => heap'[m].pin /\ ~heap'[m].called
    BY <2>1 DEF Pins
  <2>2. /\ heap[m].pin => m # Root /\ (heap[m].called \/ m \in Top.todo)
        /\ m \in Top.todo => heap[m].pin /\ ~heap[m].called
    BY <1>2, <1>3 DEF Good, Pins
  <2> QED
    BY <1>12, <2>2
<1>18. Calls(heap') /\ Blank(heap')
  <2>1. Calls(heap')
    <3>1. heap[n].calls = 0
      BY <1>3, <1>5 DEF Good, Calls
    <3>2. heap'[n].calls = IF heap'[n].dtor /\ heap'[n].called THEN 1 ELSE 0
      BY <1>5, <1>12, <3>1 DEF runs
    <3> QED
      BY <1>3, <1>12, <3>2 DEF Good, Calls
  <2>2. Blank(heap')
    BY <1>3, <1>5, <1>12 DEF Good, Blank
  <2> QED
    BY <2>1, <2>2
<1>19. Exact(heap', stack', thrown', None)
  <2> SUFFICES ASSUME NEW m \in Nodes
               PROVE  heap'[m].rc = Cardinality(Owners(heap', stack', m)) + Others(heap', stack', thrown', None, m)
    BY DEF Exact
  <2>1. heap[m].rc = Cardinality(Owners(heap, stack, m)) + Others(heap, stack, thrown, None, m)
    BY <1>3 DEF Good, Exact
  <2>2. ASSUME NEW p \in Nodes, NEW f \in Fields
        PROVE  <<p, f>> \in Owners(heap, stack, m) <=> <<p, f>> \in Owners(heap', stack', m)
    <3>1. heap'[p].live = heap[p].live /\ heap'[p].slot[f] = heap[p].slot[f]
      BY <1>12
    <3>2. \A i \in 1 .. Len(stack') : stack'[i].kind # "release"
      BY <1>6, <1>8, <1>11, <1>13
    <3>3. \A i \in 1 .. Len(stack) : stack[i].kind # "release"
      BY <1>2, <1>14
    <3> QED
      BY <1>2, <1>21, <3>1, <3>2, <3>3, OwnersDef
  <2>3. Owners(heap, stack, m) = Owners(heap', stack', m)
    BY <2>2, SameOwners, OwnersAreEdges
  <2>4. Flies(stack, thrown, m) <=> Flies(stack', thrown', m)
    <3>1. Flies(stack, thrown, m) <=> Top.exc = m
      BY <1>1, CollectorIsAlone
    <3>2. 1 \in 1 .. Len(stack') /\ stack'[1].exc = Top.exc
      BY <1>6, <1>11
    <3>3. \A i \in 1 .. Len(stack') : stack'[i].exc = m => i = 1
      BY <1>3, <1>8, <1>11, <1>13
    <3>4. thrown' # m
      BY <1>1, <1>2, <1>3
    <3> QED
      BY <3>1, <3>2, <3>3, <3>4 DEF Flies
  <2>5. heap'[m].rc = heap[m].rc /\ (heap'[m].pin <=> heap[m].pin)
    BY <1>12
  <2> QED
    BY <1>2, <1>21, <2>1, <2>3, <2>4, <2>5 DEF Others
<1>20. Good(heap', stack', thrown', None)
  BY <1>11, <1>15, <1>16, <1>17, <1>18, <1>19, <1>21 DEF Good
<1> QED
  BY <1>20 DEF IInv

\* Blocks that agree on everything are the same.
LEMMA SameBlocks ==
    ASSUME NEW u \in BlockType, NEW v \in BlockType,
           u.live = v.live, u.rc = v.rc, u.running = v.running, u.called = v.called,
           u.pin = v.pin, u.dtor = v.dtor, u.slot = v.slot, u.calls = v.calls
    PROVE  u = v
  BY DEF BlockType

\* The owners of m among the unmarked blocks.
LEMMA OwnersOfTheDropped ==
    ASSUME IInv, On("collect"), NEW m \in Nodes
    PROVE  LET D == {e \in Unmarked \X Fields : heap[e[1]].slot[e[2]] = m}
           IN  /\ D \subseteq Owners(heap, stack, m)
               /\ Cardinality(D) \in Nat
               /\ Cardinality(Owners(heap, stack, m) \ D) = Cardinality(Owners(heap, stack, m)) - Cardinality(D)
               /\ \A p \in Nodes, f \in Fields : <<p, f>> \in D <=> p \in Unmarked /\ heap[p].slot[f] = m
<1> DEFINE D == {e \in Unmarked \X Fields : heap[e[1]].slot[e[2]] = m}
           S == Owners(heap, stack, m)
<1>1. Unmarked \subseteq Live /\ Live \subseteq Nodes
  BY MarkingIsRight DEF Live
<1>2. \A p \in Nodes, f \in Fields : <<p, f>> \in S <=> heap[p].live /\ heap[p].slot[f] = m
  BY CollectorIsAlone
<1>3. \A p \in Nodes, f \in Fields : <<p, f>> \in D <=> p \in Unmarked /\ heap[p].slot[f] = m
  OBVIOUS
<1>4. D \in SUBSET (Nodes \X Fields)
  BY <1>1
<1>5. S \in SUBSET (Nodes \X Fields)
  BY OwnersAreEdges
<1> HIDE DEF D, S
<1>6. D \subseteq S
  <2> SUFFICES ASSUME NEW e \in D PROVE e \in S
    OBVIOUS
  <2>1. PICK p \in Nodes, f \in Fields : e = <<p, f>>
    BY <1>4
  <2>2. heap[p].live
    BY <1>1, <1>3, <2>1 DEF Live
  <2> QED
    BY <1>2, <1>3, <2>1, <2>2
<1>7. IsFiniteSet(S) /\ Cardinality(S) \in Nat /\ Cardinality(D) \in Nat
  BY <1>4, <1>5, EdgesAreFinite
<1>8. Cardinality(S \ D) = Cardinality(S) - Cardinality(D)
  <2>1. Cardinality(S \ D) = Cardinality(S) - Cardinality(S \cap D)
    BY <1>7, FS_Difference
  <2>2. S \cap D = D
    BY <1>6
  <2> QED
    BY <2>1, <2>2
<1>9. /\ D \subseteq S /\ Cardinality(D) \in Nat
      /\ Cardinality(S \ D) = Cardinality(S) - Cardinality(D)
      /\ \A p \in Nodes, f \in Fields : <<p, f>> \in D <=> p \in Unmarked /\ heap[p].slot[f] = m
  BY <1>3, <1>6, <1>7, <1>8
<1> QED
  BY <1>9 DEF D, S

\* What a sweep leaves of a block that is not garbage.
LEMMA MarkedAreKept ==
    ASSUME IInv, Sweep, NEW m \in Nodes, m \notin Unmarked
    PROVE  /\ heap'[m] \in BlockType
           /\ heap'[m].live = heap[m].live /\ heap'[m].running = heap[m].running
           /\ heap'[m].called = heap[m].called /\ heap'[m].dtor = heap[m].dtor
           /\ heap'[m].calls = heap[m].calls /\ heap'[m].slot = heap[m].slot
           /\ ~heap'[m].pin
           /\ heap'[m].rc = Cardinality(Owners(heap', stack', m)) + Others(heap', stack', thrown', None, m)
           /\ ~heap[m].live => heap'[m] = Free
<1> DEFINE D == {e \in Unmarked \X Fields : heap[e[1]].slot[e[2]] = m}
           S == Owners(heap, stack, m)
           T == Owners(heap', stack', m)
           r == heap[m].rc - Cardinality(D) - (IF heap[m].pin THEN 1 ELSE 0)
           b == [heap[m] EXCEPT !.pin = FALSE, !.rc = r]
<1>1. /\ On("collect") /\ Leave(Front(stack), Top.exc)
      /\ heap' = [n \in Nodes |->
              IF n \in Unmarked THEN Free
              ELSE [heap[n] EXCEPT !.pin = FALSE,
                       !.rc = @ - Cardinality({e \in Unmarked \X Fields : heap[e[1]].slot[e[2]] = n})
                                - (IF heap[n].pin THEN 1 ELSE 0)]]
  BY DEF Sweep
<1>2. /\ stack # <<>> /\ Len(stack) = 1 /\ Top.kind = "collect" /\ Top \in FrameType
      /\ Held(stack, m) = 0 /\ Top.into = None
      /\ \A n \in Nodes : Flies(stack, thrown, n) <=> Top.exc = n
      /\ \A p \in Nodes, f \in Fields : <<p, f>> \in S <=> heap[p].live /\ heap[p].slot[f] = m
  BY <1>1, CollectorIsAlone
<1>3. /\ Good(heap, stack, thrown, None) /\ heap \in [Nodes -> BlockType] /\ heap[m] \in BlockType
      /\ None \notin Nodes /\ m # None
  BY NodesAreFinite DEF IInv, Good, Types
<1>4. /\ D \subseteq S /\ Cardinality(D) \in Nat
      /\ Cardinality(S \ D) = Cardinality(S) - Cardinality(D)
      /\ \A p \in Nodes, f \in Fields : <<p, f>> \in D <=> p \in Unmarked /\ heap[p].slot[f] = m
  BY <1>1, OwnersOfTheDropped
<1>5. heap'[m] = b
  BY <1>1, <1>3
<1>6. heap[m].rc = Cardinality(S) + Others(heap, stack, thrown, None, m)
  BY <1>3 DEF Good, Exact
<1>7. Cardinality(S) \in Nat /\ Cardinality(S \ D) \in Nat
  <2>1. S \in SUBSET (Nodes \X Fields)
    BY OwnersAreEdges
  <2>2. S \ D \in SUBSET (Nodes \X Fields)
    BY <2>1
  <2> QED
    BY <2>1, <2>2, EdgesAreFinite
<1>8. /\ Len(stack') = 0 /\ stack' \in Seq(FrameType)
      /\ Flies(stack', thrown', m) <=> Flies(stack, thrown, m)
      /\ Held(stack', m) = 0 /\ \A p \in Nodes, f \in Fields : ~Writes(stack', p, f)
  <2>1. /\ stack # <<>> /\ Len(stack) = 1 /\ Top.kind # "destructor" /\ Top.into = None
        /\ Leave(Front(stack), Top.exc)
    BY <1>1, <1>2
  <2>2. /\ Len(stack') = 0 /\ stack' \in Seq(FrameType)
        /\ Flies(stack', thrown', m) <=> Flies(stack, thrown, m)
    BY <2>1, FrameIsLeft
  <2>3. \A i \in 1 .. Len(stack') : FALSE
    BY <2>2
  <2> QED
    BY <2>2, <2>3, NoStores
<1>9. \A i \in 1 .. Len(stack') : FALSE
  BY <1>8
<1>10. \A p \in Nodes : /\ p \in Unmarked => ~heap'[p].live
                        /\ p \notin Unmarked => heap'[p].live = heap[p].live /\ heap'[p].slot = heap[p].slot
  <2> TAKE p \in Nodes
  <2>1. heap[p] \in BlockType
    BY <1>3
  <2>2. CASE p \in Unmarked
    BY <1>1, <2>2 DEF Free, Block
  <2>3. CASE p \notin Unmarked
    <3> DEFINE q == heap[p].rc - Cardinality({e \in Unmarked \X Fields : heap[e[1]].slot[e[2]] = p})
                               - (IF heap[p].pin THEN 1 ELSE 0)
    <3>1. heap'[p] = [heap[p] EXCEPT !.pin = FALSE, !.rc = q]
      BY <1>1, <2>3
    <3> HIDE DEF q
    <3> QED
      BY <2>1, <2>3, <3>1 DEF BlockType
  <2> QED
    BY <2>2, <2>3
<1>11. T = S \ D
  <2>1. ASSUME NEW p \in Nodes, NEW f \in Fields
        PROVE  <<p, f>> \in T <=> <<p, f>> \in S \ D
    <3>1. <<p, f>> \in T <=> heap'[p].live /\ heap'[p].slot[f] = m
      BY <1>8, <1>9, OwnersDef
    <3> QED
      BY <1>2, <1>4, <1>10, <3>1
  <2>2. T \in SUBSET (Nodes \X Fields) /\ S \ D \in SUBSET (Nodes \X Fields)
    BY OwnersAreEdges
  <2> HIDE DEF T, S, D
  <2> QED
    BY <2>1, <2>2, SameOwners
<1> HIDE DEF D, S, T
<1> DEFINE others == Others(heap, stack, thrown, None, m)
           pinned == IF heap[m].pin THEN 1 ELSE 0
<1>12. others - pinned = (IF Flies(stack, thrown, m) THEN 1 ELSE 0) + (IF m = Root THEN 1 ELSE 0)
  BY <1>2, <1>3 DEF Others
<1>13. others \in Nat /\ pinned \in Nat /\ others - pinned \in Nat
  BY <1>2, <1>12 DEF Others
<1>14. r = Cardinality(S \ D) + (others - pinned)
  <2>1. r = heap[m].rc - Cardinality(D) - pinned /\ heap[m].rc = Cardinality(S) + others
    BY <1>6
  <2> HIDE DEF r, others, pinned
  <2> QED
    BY <1>4, <1>7, <1>13, <2>1
<1>15. r \in Nat
  <2> HIDE DEF r, others, pinned
  <2> QED
    BY <1>7, <1>13, <1>14
<1> HIDE DEF r
<1>16. /\ b.live = heap[m].live /\ b.running = heap[m].running /\ b.called = heap[m].called
       /\ b.dtor = heap[m].dtor /\ b.calls = heap[m].calls /\ b.slot = heap[m].slot
       /\ b.pin = FALSE /\ b.rc = r
  BY <1>3 DEF BlockType
<1>17. b \in BlockType
  BY <1>3, <1>15 DEF BlockType
<1>18. heap'[m].rc = Cardinality(T) + Others(heap', stack', thrown', None, m)
  <2>1. heap'[m].rc = r /\ heap'[m].pin = FALSE
    BY <1>5, <1>16
  <2>2. Others(heap', stack', thrown', None, m) = (IF Flies(stack, thrown, m) THEN 1 ELSE 0) + (IF m = Root THEN 1 ELSE 0)
    BY <1>3, <1>8, <2>1 DEF Others
  <2> QED
    BY <1>11, <1>12, <1>14, <2>1, <2>2
<1>19. ASSUME ~heap[m].live PROVE b = Free
  <2>1. heap[m] = Free
    BY <1>3, <1>19 DEF Good, Blank
  <2>2. Free.rc = 0 /\ Free.pin = FALSE
    BY DEF Free, Block
  <2>3. Cardinality(D) = 0 /\ heap[m].rc = 0 /\ pinned = 0
    <3>1. S = {}
      BY <1>3, <1>19, HeldIsAlive DEF S
    <3>2. D = {}
      BY <1>4, <3>1
    <3> QED
      BY <2>1, <2>2, <3>2, FS_EmptySet
  <2>4. r = 0
    <3>1. r = heap[m].rc - Cardinality(D) - pinned
      BY DEF r
    <3> HIDE DEF pinned
    <3> QED
      BY <2>3, <3>1
  <2>5. [Free EXCEPT !.pin = FALSE, !.rc = 0] = Free
    <3> DEFINE u == [Free EXCEPT !.pin = FALSE, !.rc = 0]
    <3>1. Free \in BlockType
      BY <1>3, <2>1
    <3>2. u \in BlockType
      BY <3>1 DEF BlockType
    <3>3. /\ u.live = Free.live /\ u.rc = Free.rc /\ u.running = Free.running
          /\ u.called = Free.called /\ u.pin = Free.pin /\ u.dtor = Free.dtor
          /\ u.slot = Free.slot /\ u.calls = Free.calls
      BY <2>2, <3>1 DEF BlockType
    <3> HIDE DEF u
    <3>4. u = Free
      BY <3>1, <3>2, <3>3, SameBlocks
    <3> QED
      BY <3>4 DEF u
  <2> QED
    BY <2>1, <2>4, <2>5
<1> HIDE DEF b
<1> QED
  BY <1>5, <1>16, <1>17, <1>18, <1>19 DEF T

LEMMA SweepStep ==
    ASSUME IInv, Sweep
    PROVE  IInv'
<1>1. /\ On("collect") /\ Leave(Front(stack), Top.exc)
      /\ \A m \in Unmarked : m \in Nodes => heap'[m] = Free
  BY DEF Sweep
<1>2. /\ stack # <<>> /\ Len(stack) = 1 /\ Top.kind = "collect" /\ Top \in FrameType
      /\ \A n \in Nodes : Flies(stack, thrown, n) <=> Top.exc = n
      /\ \A n \in Nodes : ~heap[n].running
      /\ Top.into = None
  BY <1>1, CollectorIsAlone
<1>3. /\ Good(heap, stack, thrown, None) /\ heap \in [Nodes -> BlockType]
      /\ None \notin Nodes /\ Root \in Nodes
  BY NodesAreFinite DEF IInv, Good, Types
<1>4. /\ Unmarked \subseteq Live /\ Root \in Live \ Unmarked /\ Top.exc \notin Unmarked
      /\ \A p \in Live, f \in Fields :
             (p \notin Unmarked /\ heap[p].slot[f] # None) => heap[p].slot[f] \notin Unmarked
  BY <1>1, MarkingIsRight
<1>5. /\ stack' \in Seq(FrameType) /\ thrown' \in Objects \cup {None} /\ Len(stack') = 0
      /\ Shape(stack') /\ Apart(stack') /\ OneException(stack', thrown')
      /\ \A m \in Nodes : Flies(stack', thrown', m) <=> Flies(stack, thrown, m)
      /\ Stores(stack', thrown')
  BY <1>1, <1>2, FrameIsLeft
<1>6. (\A i \in 1 .. Len(stack') : FALSE) /\ stack' = <<>>
  BY <1>5, EmptySeq
<1>16. \A m \in Nodes : Held(stack', m) = 0
  BY <1>5, <1>6, NoStores
<1>7. /\ ~Free.running /\ ~Free.live /\ Free.rc = 0 /\ ~Free.pin /\ ~Free.called /\ Free.calls = 0
      /\ ~Free.dtor /\ Free \in BlockType
  <2>1. [f \in Fields |-> None] \in [Fields -> Nodes \cup {None}]
    OBVIOUS
  <2> QED
    BY <2>1 DEF Free, Block, BlockType
<1>8. ASSUME NEW m \in Nodes, m \notin Unmarked
      PROVE  /\ heap'[m] \in BlockType
             /\ heap'[m].live = heap[m].live /\ heap'[m].running = heap[m].running
             /\ heap'[m].called = heap[m].called /\ heap'[m].dtor = heap[m].dtor
             /\ heap'[m].calls = heap[m].calls /\ heap'[m].slot = heap[m].slot
             /\ ~heap'[m].pin
             /\ heap'[m].rc = Cardinality(Owners(heap', stack', m)) + Others(heap', stack', thrown', None, m)
             /\ ~heap[m].live => heap'[m] = Free
  BY <1>8, MarkedAreKept
<1>9. Types(heap', stack', thrown')
  <2>1. \A m \in Nodes : heap'[m] \in BlockType
    BY <1>1, <1>7, <1>8
  <2>2. \E g : heap' = [m \in Nodes |-> g[m]]
    <3>1. heap' = [m \in Nodes |-> heap'[m]]
      BY DEF Sweep
    <3> QED
      BY <3>1
  <2>3. heap' \in [Nodes -> BlockType]
    BY <2>1, <2>2
  <2> QED
    BY <1>5, <2>3 DEF Types
<1>10. Frames(heap', stack') /\ Marks(heap', stack')
  <2>1. \A m \in Nodes : ~heap'[m].running
    BY <1>1, <1>2, <1>7, <1>8
  <2> QED
    BY <1>6, <2>1 DEF Frames, Marks
<1>11. Pins(heap', stack')
  <2>1. \A m \in Nodes : ~heap'[m].pin
    BY <1>1, <1>7, <1>8
  <2> QED
    BY <1>6, <2>1 DEF Pins, CollectsIn
<1>12. Calls(heap') /\ Blank(heap')
  <2>1. \A m \in Nodes : heap'[m].calls = IF heap'[m].dtor /\ heap'[m].called THEN 1 ELSE 0
    <3> TAKE m \in Nodes
    <3>1. CASE m \in Unmarked
      BY <1>1, <1>7, <3>1
    <3>2. CASE m \notin Unmarked
      BY <1>3, <1>8, <3>2 DEF Good, Calls
    <3> QED
      BY <3>1, <3>2
  <2>2. \A m \in Nodes : ~heap'[m].live => heap'[m] = Free
    BY <1>1, <1>8
  <2>3. heap'[Root].live
    BY <1>3, <1>4, <1>8 DEF Live
  <2> QED
    BY <2>1, <2>2, <2>3 DEF Calls, Blank
<1>13. ASSUME NEW m \in Nodes
       PROVE  heap'[m].rc = Cardinality(Owners(heap', stack', m)) + Others(heap', stack', thrown', None, m)
  <2>1. CASE m \notin Unmarked
    BY <1>8, <2>1
  <2>2. CASE m \in Unmarked
    <3>1. heap'[m].rc = 0 /\ ~heap'[m].pin
      BY <1>1, <1>7, <2>2
    <3>2. Others(heap', stack', thrown', None, m) = 0
      BY <1>2, <1>3, <1>4, <1>5, <1>16, <2>2, <3>1 DEF Others
    <3>3. ASSUME NEW p \in Nodes, NEW f \in Fields PROVE <<p, f>> \notin Owners(heap', stack', m)
      <4>1. SUFFICES ASSUME heap'[p].live, heap'[p].slot[f] = m PROVE FALSE
        BY OwnersDef
      <4>2. p \notin Unmarked /\ p \in Live /\ heap[p].slot[f] = m
        BY <1>1, <1>7, <1>8, <4>1 DEF Live
      <4> QED
        BY <1>3, <1>4, <2>2, <4>2
    <3>4. Owners(heap', stack', m) = {}
      <4>1. Owners(heap', stack', m) \in SUBSET (Nodes \X Fields)
        BY OwnersAreEdges
      <4> DEFINE W == Owners(heap', stack', m)
      <4>2. W \in SUBSET (Nodes \X Fields) /\ \A p \in Nodes, f \in Fields : <<p, f>> \notin W
        BY <3>3, <4>1
      <4> HIDE DEF W
      <4>3. W = {}
        BY <4>2
      <4> QED
        BY <4>3 DEF W
    <3>5. Cardinality(Owners(heap', stack', m)) = 0
      BY <3>4, OwnersAreEdges
    <3> QED
      BY <3>1, <3>2, <3>5
  <2> QED
    BY <2>1, <2>2
<1>14. Exact(heap', stack', thrown', None)
  BY <1>13 DEF Exact
<1>15. Good(heap', stack', thrown', None)
  BY <1>5, <1>9, <1>10, <1>11, <1>12, <1>14 DEF Good
<1> QED
  BY <1>15 DEF IInv

-----------------------------------------------------------------------------
(* The theorems.                                                           *)

LEMMA NextIsGood == IInv /\ [Next]_vars => IInv'
<1> SUFFICES ASSUME IInv, [Next]_vars PROVE IInv'
  OBVIOUS
<1>1. CASE Php
  <2>1. ASSUME NEW o \in Nodes, NEW f \in Fields, NEW dtor \in BOOLEAN, New(o, f, dtor) PROVE IInv'
    BY <2>1, NewStep
  <2>2. ASSUME NEW o \in Nodes, NEW x \in Nodes, NEW f \in Fields, Link(o, f, x) PROVE IInv'
    BY <2>2, LinkStep
  <2>3. ASSUME NEW o \in Nodes, NEW f \in Fields, Unlink(o, f) PROVE IInv'
    BY <2>3, UnlinkStep
  <2>4. ASSUME NEW x \in Nodes, Throw(x) PROVE IInv'
    BY <2>4, ThrowStep
  <2>5. ASSUME NEW o \in Nodes, NEW x \in Nodes \cup {None}, NEW f \in Fields, Assign(o, f, x)
        PROVE  IInv'
    BY <2>5, AssignStep
  <2> QED
    BY <1>1, <2>1, <2>2, <2>3, <2>4, <2>5, CatchStep, CollectStep DEF Php
<1>2. CASE Return
  BY <1>2, ReturnStep
<1>3. CASE Runtime
  <2>1. ASSUME NEW n \in Nodes, Destruct(n) PROVE IInv'
    BY <2>1, DestructStep
  <2> QED
    BY <1>3, <2>1, ResurrectStep, DismantleStep, ReleasePropertyStep, FreeBlockStep, StoreStep,
       StoredStep, PinStep, SweepStep DEF Runtime
<1>4. CASE UNCHANGED vars
  <2>1. heap' = heap /\ stack' = stack /\ thrown' = thrown
    BY <1>4 DEF vars
  <2> QED
    BY <2>1 DEF IInv
<1> QED
  BY <1>1, <1>2, <1>3, <1>4 DEF Next

LEMMA AlwaysGood == ~Meddling /\ Spec => []IInv
<1> QED
  BY InitIsGood, NextIsGood, PTL DEF Spec

\* What the model's own definitions say of DOMAIN stack is what the invariant says of
\* 1 .. Len(stack).
LEMMA GoodStack ==
    ASSUME IInv
    PROVE  /\ DOMAIN stack = 1 .. Len(stack) /\ Len(stack) \in Nat
           /\ heap \in [Nodes -> BlockType] /\ thrown \in Objects \cup {None}
           /\ None \notin Nodes /\ Root \in Nodes /\ Objects \subseteq Nodes
           /\ \A i \in 1 .. Len(stack) : stack[i] \in FrameType
           /\ \A p \in Nodes, f \in Fields : f \in Owned(p) <=> f \in OwnedIn(stack, p)
           /\ Collecting <=> CollectsIn(stack)
<1>1. /\ DOMAIN stack = 1 .. Len(stack) /\ Len(stack) \in Nat
      /\ heap \in [Nodes -> BlockType] /\ thrown \in Objects \cup {None}
      /\ \A i \in 1 .. Len(stack) : stack[i] \in FrameType
  BY LenProperties, ElementOfSeq DEF IInv, Good, Types
<1>2. \A p \in Nodes, f \in Fields : f \in Owned(p) <=> f \in OwnedIn(stack, p)
  <2> TAKE p \in Nodes, f \in Fields
  <2>1. f \in Pending(p) <=> Writes(stack, p, f)
    BY <1>1 DEF Pending, Writes
  <2> QED
    BY <1>1, <2>1 DEF Owned, OwnedIn
<1>3. Collecting <=> CollectsIn(stack)
  <2>1. ASSUME NEW i \in 1 .. Len(stack), stack[i].kind = "collect" PROVE CollectsIn(stack)
    <3>1. i = 1
      BY <2>1 DEF IInv, Good, Shape, FrameIsRight
    <3>2. stack # <<>>
      BY <1>1, EmptySeq
    <3> QED
      BY <2>1, <3>1, <3>2 DEF CollectsIn
  <2>2. CollectsIn(stack) => 1 \in 1 .. Len(stack)
    <3>1. CollectsIn(stack) => Len(stack) # 0
      BY EmptySeq DEF CollectsIn, IInv, Good, Types
    <3> QED
      BY <1>1, <3>1
  <2> QED
    BY <1>1, <2>1, <2>2 DEF Collecting, CollectsIn
<1> QED
  BY <1>1, <1>2, <1>3, NodesAreFinite

\* The sets that CountsAreExact counts.
LEMMA CountedRight ==
    ASSUME IInv, NEW n \in Nodes
    PROVE  /\ {e \in Live \X Fields : e[2] \in Owned(e[1]) /\ heap[e[1]].slot[e[2]] = n}
                  = Owners(heap, stack, n)
           /\ Cardinality({i \in DOMAIN stack : stack[i].exc = n}) + (IF thrown = n THEN 1 ELSE 0)
                  = IF Flies(stack, thrown, n) THEN 1 ELSE 0
<1> DEFINE S == {e \in Live \X Fields : e[2] \in Owned(e[1]) /\ heap[e[1]].slot[e[2]] = n}
           I == {i \in DOMAIN stack : stack[i].exc = n}
<1>1. S = Owners(heap, stack, n)
  <2>1. S \in SUBSET (Nodes \X Fields)
    BY DEF Live
  <2>2. ASSUME NEW p \in Nodes, NEW f \in Fields
        PROVE  <<p, f>> \in S <=> <<p, f>> \in Owners(heap, stack, n)
    <3>1. <<p, f>> \in S <=> heap[p].live /\ f \in Owned(p) /\ heap[p].slot[f] = n
      BY DEF Live
    <3>2. <<p, f>> \in Owners(heap, stack, n)
             <=> heap[p].live /\ f \in OwnedIn(stack, p) /\ heap[p].slot[f] = n
      BY DEF Owners
    <3> QED
      BY <3>1, <3>2, GoodStack
  <2> HIDE DEF S
  <2> QED
    BY <2>1, <2>2, SameOwners, OwnersAreEdges
<1>2. n # None /\ DOMAIN stack = 1 .. Len(stack)
  BY GoodStack
<1>3. OneException(stack, thrown)
  BY DEF IInv, Good
<1>4. Cardinality(I) + (IF thrown = n THEN 1 ELSE 0) = IF Flies(stack, thrown, n) THEN 1 ELSE 0
  <2>1. CASE thrown = n
    <3>1. I = {}
      BY <1>2, <1>3, <2>1 DEF OneException
    <3>2. Cardinality(I) = 0
      BY <3>1, FS_EmptySet
    <3> HIDE DEF I
    <3> QED
      BY <2>1, <3>2 DEF Flies
  <2>2. CASE thrown # n /\ Flies(stack, thrown, n)
    <3>1. PICK i \in 1 .. Len(stack) : stack[i].exc = n
      BY <2>2 DEF Flies
    <3>2. I = {i}
      BY <1>2, <1>3, <3>1 DEF OneException
    <3>3. Cardinality(I) = 1
      BY <3>2, FS_Singleton
    <3> HIDE DEF I
    <3> QED
      BY <2>2, <3>3
  <2>3. CASE ~Flies(stack, thrown, n)
    <3>1. I = {}
      BY <1>2, <2>3 DEF Flies
    <3>2. Cardinality(I) = 0
      BY <3>1, FS_EmptySet
    <3>3. thrown # n
      BY <2>3 DEF Flies
    <3> HIDE DEF I
    <3> QED
      BY <2>3, <3>2, <3>3
  <2> QED
    BY <2>1, <2>2, <2>3
<1> QED
  BY <1>1, <1>4

LEMMA CountsAreRight == IInv => CountsAreExact
<1> SUFFICES ASSUME IInv PROVE CountsAreExact
  OBVIOUS
<1>1. /\ DOMAIN stack = 1 .. Len(stack)
      /\ heap \in [Nodes -> BlockType] /\ thrown \in Objects \cup {None}
      /\ None \notin Nodes /\ Root \in Nodes /\ Objects \subseteq Nodes
      /\ \A i \in 1 .. Len(stack) : stack[i] \in FrameType
      /\ Collecting <=> CollectsIn(stack)
  BY GoodStack
<1>2. ASSUME NEW n \in Nodes
      PROVE  /\ heap[n].rc = Cardinality(Owners(heap, stack, n)) + Others(heap, stack, thrown, None, n)
             /\ Others(heap, stack, thrown, None, n)
                  = Held(stack, n) + (IF Flies(stack, thrown, n) THEN 1 ELSE 0)
                    + (IF n = Root THEN 1 ELSE 0) + (IF heap[n].pin /\ Collecting THEN 1 ELSE 0)
  <2>1. heap[n].rc = Cardinality(Owners(heap, stack, n)) + Others(heap, stack, thrown, None, n)
    BY DEF IInv, Good, Exact
  <2>2. heap[n].pin /\ Collecting <=> heap[n].pin
    BY <1>1 DEF IInv, Good, Pins
  <2>3. n # None /\ Held(stack, n) \in Nat
    BY <1>1, HeldIsNumber DEF IInv, Good, Types
  <2> QED
    BY <2>1, <2>2, <2>3 DEF Others
<1>3. ASSUME NEW n \in Nodes
      PROVE  heap[n].rc =
               Cardinality({e \in Live \X Fields : e[2] \in Owned(e[1]) /\ heap[e[1]].slot[e[2]] = n})
               + Cardinality({i \in DOMAIN stack : stack[i].exc = n})
               + Cardinality({i \in DOMAIN stack : stack[i].into = n})
               + Cardinality({i \in DOMAIN stack : stack[i].val = n})
               + (IF thrown = n THEN 1 ELSE 0) + (IF n = Root THEN 1 ELSE 0)
               + (IF heap[n].pin /\ Collecting THEN 1 ELSE 0)
  <2> DEFINE S == {e \in Live \X Fields : e[2] \in Owned(e[1]) /\ heap[e[1]].slot[e[2]] = n}
             I == {i \in DOMAIN stack : stack[i].exc = n}
             J == {i \in DOMAIN stack : stack[i].into = n}
             K == {i \in DOMAIN stack : stack[i].val = n}
             t == IF thrown = n THEN 1 ELSE 0
             r == IF n = Root THEN 1 ELSE 0
             p == IF heap[n].pin /\ Collecting THEN 1 ELSE 0
             l == IF Flies(stack, thrown, n) THEN 1 ELSE 0
  <2>1. S = Owners(heap, stack, n) /\ Cardinality(I) + t = l
    BY CountedRight
  <2>2. Cardinality(Owners(heap, stack, n)) \in Nat
    BY OwnersAreEdges
  <2>3. Cardinality(I) \in Nat
    <3>1. IsFiniteSet(1 .. Len(stack))
      BY GoodStack, FS_Interval
    <3>2. I \subseteq 1 .. Len(stack)
      BY <1>1
    <3> HIDE DEF I
    <3> QED
      BY <3>1, <3>2, FS_Subset, FS_CardinalityType
  <2>7. /\ Held(stack, n) = Cardinality(J) + Cardinality(K)
        /\ Cardinality(J) \in Nat /\ Cardinality(K) \in Nat
    <3>1. J = IntoAt(stack, n) /\ K = ValuesAt(stack, n)
      BY <1>1 DEF IntoAt, ValuesAt
    <3>2. stack \in Seq(FrameType)
      BY DEF IInv, Good, Types
    <3> HIDE DEF J, K
    <3> QED
      BY <3>1, <3>2, HeldIsNumber DEF Held
  <2>4. heap[n].rc = Cardinality(Owners(heap, stack, n)) + (Held(stack, n) + l + r + p)
    BY <1>2
  <2>5. t \in Nat /\ r \in Nat /\ p \in Nat
    OBVIOUS
  <2> HIDE DEF S, I, J, K, t, r, p, l
  <2>6. heap[n].rc = Cardinality(S) + Cardinality(I) + Cardinality(J) + Cardinality(K) + t + r + p
    BY <2>1, <2>2, <2>3, <2>4, <2>5, <2>7
  <2> QED
    BY <2>6 DEF S, I, J, K, t, r, p
<1>4. TypeOK
  <2>1. \A i \in DOMAIN stack :
            stack[i].kind \in {"destructor", "free", "release", "collect", "store"}
    BY <1>1 DEF FrameType
  <2> QED
    BY <1>1, <2>1 DEF TypeOK, BlockType
<1> QED
  BY <1>3, <1>4 DEF CountsAreExact, Live

LEMMA ReachableIsLive == IInv => ReachableIsAlive
<1> SUFFICES ASSUME IInv PROVE ReachableIsAlive
  OBVIOUS
<1> DEFINE edges == [m \in Nodes |-> {heap[m].slot[f] : f \in Owned(m)} \ {None}]
<1>1. /\ DOMAIN stack = 1 .. Len(stack)
      /\ heap \in [Nodes -> BlockType] /\ thrown \in Objects \cup {None}
      /\ None \notin Nodes /\ Root \in Nodes /\ Objects \subseteq Nodes
      /\ \A i \in 1 .. Len(stack) : stack[i] \in FrameType
      /\ \A p \in Nodes, f \in Fields : f \in Owned(p) <=> f \in OwnedIn(stack, p)
      /\ Good(heap, stack, thrown, None)
  BY GoodStack DEF IInv
<1>2. ASSUME NEW n \in InUse PROVE n \in Live
  <2>1. CASE n = Root
    BY <1>1, <2>1, HeldIsAlive DEF Live
  <2>2. CASE n \in Flying
    <3>1. n \in Nodes /\ Flies(stack, thrown, n)
      BY <1>1, <1>2, <2>2 DEF Flying, Flies, InUse, FrameType
    <3> QED
      BY <1>1, <3>1, HeldIsAlive DEF Live
  <2>3. ASSUME NEW i \in DOMAIN stack, n = stack[i].n PROVE n \in Live
    <3>1. n # None /\ i \in 1 .. Len(stack) /\ n \in Nodes
      BY <1>1, <1>2, <2>3 DEF InUse, FrameType
    <3> QED
      BY <1>1, <2>3, <3>1 DEF Good, Frames, Live
  <2>4. ASSUME NEW i \in DOMAIN stack, stack[i].kind = "collect", n \in stack[i].todo \cap Nodes
        PROVE  n \in Live
    <3>1. i = 1 /\ CollectsIn(stack)
      <4>1. i = 1
        BY <1>1, <2>4 DEF Good, Shape, FrameIsRight
      <4>2. Collecting
        BY <2>4 DEF Collecting
      <4> QED
        BY <4>1, <4>2, GoodStack
    <3>2. heap[n].pin
      BY <1>1, <2>4, <3>1 DEF Good, Pins
    <3> QED
      BY <1>1, <2>4, <3>2, HeldIsAlive DEF Live
  <2>5. ASSUME NEW i \in DOMAIN stack, n = stack[i].into \/ n = stack[i].val PROVE n \in Live
    <3>1. n # None /\ i \in 1 .. Len(stack) /\ n \in Nodes
      BY <1>1, <1>2, <2>5 DEF InUse, FrameType
    <3> QED
      BY <1>1, <2>5, <3>1, HeldIsAlive DEF Live
  <2> QED
    BY <2>1, <2>2, <2>3, <2>4, <2>5 DEF InUse
<1>3. ASSUME NEW m \in Live, NEW v \in edges[m] PROVE v \in Live
  <2>1. m \in Nodes /\ heap[m].live /\ heap[m] \in BlockType
    BY <1>1 DEF Live
  <2>2. PICK f \in Owned(m) : v = heap[m].slot[f]
    BY <2>1
  <2>3. f \in Fields /\ v # None
    BY <2>1, <2>2 DEF Owned
  <2>4. v \in Nodes
    BY <2>1, <2>2, <2>3 DEF BlockType
  <2>5. <<m, f>> \in Owners(heap, stack, v)
    BY <1>1, <2>1, <2>2, <2>3 DEF Owners
  <2> QED
    BY <1>1, <2>4, <2>5, HeldIsAlive DEF Live
<1> HIDE DEF edges
<1>4. Reach(InUse, edges) \subseteq Live
  <2>1. Live \in SUBSET Nodes /\ InUse \subseteq Live /\ \A m \in Live : edges[m] \subseteq Live
    BY <1>2, <1>3 DEF Live
  <2> QED
    BY <2>1, ReachIsLeast
<1> QED
  BY <1>4 DEF ReachableIsAlive, Live, edges

\* Releasing a reference frees nothing at once, and takes nothing off the stack.
LEMMA ReleaseFreesNothing ==
    ASSUME NEW h \in [Nodes -> BlockType], NEW st \in Seq(FrameType), NEW x \in Nodes \cup {None},
           Release(h, st, x)
    PROVE  /\ \A m \in Nodes : heap'[m].live = h[m].live
           /\ st # <<>> => stack' # <<>>
<1> DEFINE g == [h EXCEPT ![x].rc = @ - 1]
<1>1. CASE x = None \/ ~h[x].live
  BY <1>1 DEF Release
<1>2. CASE ~(x = None \/ ~h[x].live)
  <2>1. x \in Nodes /\ h[x] \in BlockType
    BY <1>2
  <2>2. DOMAIN g = Nodes /\ \A m \in Nodes : g[m].live = h[m].live /\ g[m] = IF m = x THEN [h[x] EXCEPT !.rc = @ - 1] ELSE h[m]
    BY <2>1 DEF BlockType
  <2>3. CASE g[x].rc = 0 /\ ~g[x].running
    <3> DEFINE runs == g[x].dtor /\ ~g[x].called
               fd   == Frame("free", x, {})
               dd   == Frame("destructor", x, {})
               rd   == Frame("release", x, Fields)
    <3>1. /\ heap' = [g EXCEPT ![x].running = TRUE, ![x].called = TRUE,
                               ![x].calls = IF runs THEN @ + 1 ELSE @]
          /\ stack' = IF runs THEN Append(Append(st, fd), dd) ELSE Append(st, rd)
      BY <1>2, <2>3 DEF Release, BeginFree
    <3>2. \A m \in Nodes : heap'[m].live = h[m].live
      <4>1. \A m \in Nodes : m # x => heap'[m] = g[m]
        BY <2>2, <3>1
      <4>2. heap'[x].live = g[x].live
        <5> DEFINE u == [g[x] EXCEPT !.running = TRUE, !.called = TRUE,
                                     !.calls = IF runs THEN @ + 1 ELSE @]
        <5>1. heap'[x] = u
          BY <2>1, <2>2, <3>1
        <5>2. u.live = g[x].live
          BY <2>1, <2>2 DEF BlockType
        <5> QED
          BY <5>1, <5>2
      <4> QED
        BY <2>1, <2>2, <4>1, <4>2
    <3>3. st # <<>> => stack' # <<>>
      <4>1. CASE runs
        <5>1. Len(Append(Append(st, fd), dd)) = Len(st) + 2 /\ Len(st) \in Nat
          BY LenProperties
        <5> QED
          BY <3>1, <4>1, <5>1, EmptySeq
      <4>2. CASE ~runs
        <5>1. Len(Append(st, rd)) = Len(st) + 1 /\ Len(st) \in Nat
          BY LenProperties
        <5> QED
          BY <3>1, <4>2, <5>1, EmptySeq
      <4> QED
        BY <4>1, <4>2
    <3> QED
      BY <3>2, <3>3
  <2>4. CASE ~(g[x].rc = 0 /\ ~g[x].running)
    BY <1>2, <2>2, <2>4 DEF Release
  <2> QED
    BY <2>3, <2>4
<1> QED
  BY <1>1, <1>2

\* Only the end of a free and a sweep take a block out of use, and only a sweep ends a
\* collection.
LEMMA WhatEnds ==
    ASSUME IInv, Next
    PROVE  /\ FreeBlock \/ Sweep \/ \A m \in Nodes : heap[m].live => heap'[m].live
           /\ (Collecting /\ stack' = <<>>) => Sweep
<1> DEFINE Kept == \A m \in Nodes : heap[m].live => heap'[m].live
           Goes == stack # <<>> => stack' # <<>>
<1>1. /\ DOMAIN stack = 1 .. Len(stack) /\ Len(stack) \in Nat
      /\ heap \in [Nodes -> BlockType] /\ thrown \in Objects \cup {None}
      /\ None \notin Nodes /\ Root \in Nodes /\ Objects \subseteq Nodes
      /\ stack \in Seq(FrameType)
      /\ Collecting <=> CollectsIn(stack)
  BY GoodStack DEF IInv, Good, Types
<1>2. Collecting => stack # <<>> /\ stack[1].kind = "collect"
  BY <1>1 DEF CollectsIn
<1>3. CASE Php
  <2>1. ASSUME NEW o \in Nodes, NEW f \in Fields, NEW dtor \in BOOLEAN, New(o, f, dtor)
        PROVE  Kept /\ Goes
    <3>1. PICK n \in Objects :
             /\ ~heap[n].live
             /\ heap' = [heap EXCEPT ![n] = Block(TRUE, 1, dtor), ![o].slot[f] = n]
      BY <2>1 DEF New
    <3>2. stack' = stack
      BY <2>1 DEF New
    <3> DEFINE g == [heap EXCEPT ![n] = Block(TRUE, 1, dtor)]
    <3>3. DOMAIN g = Nodes /\ heap' = [g EXCEPT ![o].slot[f] = n]
      BY <1>1, <3>1
    <3>4. \A m \in Nodes : heap[m].live => g[m].live /\ g[m] = heap[m]
      BY <1>1, <3>1
    <3> HIDE DEF g
    <3>5. \A m \in Nodes : heap[m].live => heap'[m].live
      <4> TAKE m \in Nodes
      <4> HAVE heap[m].live
      <4>1. g[m].live /\ g[m] \in BlockType
        BY <1>1, <3>4
      <4>2. CASE m # o
        BY <3>3, <4>1, <4>2
      <4>3. CASE m = o
        <5> DEFINE u == [g[o] EXCEPT !.slot[f] = n]
        <5>1. heap'[o] = u
          BY <3>3
        <5>2. u.live = g[o].live
          BY <4>1, <4>3 DEF BlockType
        <5> QED
          BY <4>1, <4>3, <5>1, <5>2
      <4> QED
        BY <4>2, <4>3
    <3> QED
      BY <3>2, <3>5
  <2>2. ASSUME NEW o \in Nodes, NEW x \in Nodes, NEW f \in Fields, Link(o, f, x)
        PROVE  Kept /\ Goes
    <3> DEFINE g == Retain(heap, x)
    <3>1. stack' = stack /\ heap' = [g EXCEPT ![o].slot[f] = x]
      BY <2>2 DEF Link
    <3>2. DOMAIN g = Nodes /\ g[x].live = heap[x].live /\ \A m \in Nodes : m # x => g[m] = heap[m]
      BY <1>1 DEF Retain, BlockType
    <3> HIDE DEF g
    <3>3. \A m \in Nodes : m # o => heap'[m] = g[m]
      BY <3>1, <3>2
    <3>4. heap'[o].live = g[o].live
      <4> DEFINE u == [g[o] EXCEPT !.slot[f] = x]
      <4>1. heap'[o] = u
        BY <3>1, <3>2
      <4>2. u.live = g[o].live
        OBVIOUS
      <4> QED
        BY <4>1, <4>2
    <3> QED
      BY <3>1, <3>2, <3>3, <3>4
  <2>3. ASSUME NEW o \in Nodes, NEW f \in Fields, Unlink(o, f) PROVE Kept /\ Goes
    <3> DEFINE x == heap[o].slot[f]
               b == [heap[o] EXCEPT !.slot[f] = None]
               h == [heap EXCEPT ![o].slot[f] = None]
    <3>1. Release(h, stack, x)
      BY <2>3 DEF Unlink
    <3>2. heap[o] \in BlockType /\ x \in Nodes \cup {None}
      BY <1>1 DEF BlockType
    <3>3. b.live = heap[o].live
      BY <3>2 DEF BlockType
    <3>4. b \in BlockType
      BY <3>2 DEF BlockType
    <3>5. h = [heap EXCEPT ![o] = b]
      OBVIOUS
    <3> HIDE DEF b, h, x
    <3>6. h \in [Nodes -> BlockType] /\ \A m \in Nodes : h[m].live = heap[m].live
      BY <1>1, <3>3, <3>4, <3>5
    <3>7. /\ \A m \in Nodes : heap'[m].live = h[m].live
          /\ stack # <<>> => stack' # <<>>
      BY <1>1, <3>1, <3>2, <3>6, ReleaseFreesNothing
    <3> QED
      BY <3>6, <3>7
  <2>4. ASSUME NEW x \in Nodes, Throw(x) PROVE Kept /\ Goes
    BY <1>1, <2>4 DEF Throw, Retain, BlockType
  <2>5. ASSUME Catch PROVE Kept /\ Goes
    <3>1. Release(heap, stack, thrown) /\ thrown \in Nodes \cup {None}
      BY <1>1, <2>5 DEF Catch
    <3>2. /\ \A m \in Nodes : heap'[m].live = heap[m].live
          /\ stack # <<>> => stack' # <<>>
      BY <1>1, <3>1, ReleaseFreesNothing
    <3> QED
      BY <3>2
  <2>6. ASSUME Collect PROVE Kept /\ Goes
    <3>1. heap' = heap /\ stack' = Append(stack, Frame("collect", None, {}))
      BY <2>6 DEF Collect
    <3>2. Len(stack') = Len(stack) + 1
      BY <1>1, <3>1, LenProperties
    <3> QED
      BY <1>1, <3>1, <3>2, EmptySeq
  <2>8. ASSUME NEW o \in Nodes, NEW x \in Nodes \cup {None}, NEW f \in Fields, Assign(o, f, x)
        PROVE  Kept /\ Goes
    <3> DEFINE fr  == StoreFrame(o, f, x)
               y   == Retain(heap, x)
               g   == Retain(y, o)
               old == heap[o].slot[f]
    <3>1. Release(g, Append(stack, fr), old) /\ x \in (Nodes \ {Root}) \cup {None}
      BY <2>8, SeenIsAlive DEF Assign, Runs
    <3>2. /\ y \in [Nodes -> BlockType] /\ \A m \in Nodes : y[m].live = heap[m].live
      BY <1>1, Retained
    <3> HIDE DEF y
    <3>3. /\ g \in [Nodes -> BlockType] /\ \A m \in Nodes : g[m].live = y[m].live
      BY <3>2, Retained
    <3> HIDE DEF g
    <3>4. fr \in FrameType
      BY <3>1 DEF StoreFrame, Frame, FrameType, Nodes
    <3>5. old \in Nodes \cup {None}
      BY <1>1 DEF BlockType
    <3> HIDE DEF fr, old
    <3> DEFINE nx == Append(stack, fr)
    <3>6. nx \in Seq(FrameType) /\ nx # <<>>
      BY <1>1, <3>4, Pushed
    <3>7. Release(g, nx, old)
      BY <3>1
    <3> HIDE DEF nx
    <3>8. /\ \A m \in Nodes : heap'[m].live = g[m].live
          /\ nx # <<>> => stack' # <<>>
      BY <3>3, <3>5, <3>6, <3>7, ReleaseFreesNothing
    <3> QED
      BY <3>2, <3>3, <3>6, <3>8
  <2>7. Kept /\ Goes
    BY <1>3, <2>1, <2>2, <2>3, <2>4, <2>5, <2>6, <2>8 DEF Php
  <2> QED
    BY <1>2, <2>7
<1>4. CASE Return
  <2>1. /\ Len(stack) \in Nat \ {0, 1} /\ Len(stack') = Len(stack) - 1 /\ stack' \in Seq(FrameType)
    BY <1>4, DestructorIsLeft
  <2>2. stack' # <<>>
    BY <2>1, EmptySeq
  <2>3. Kept
    <3>1. heap' = heap \/ heap' = [heap EXCEPT ![Top.n].running = FALSE]
      BY <1>4 DEF Return
    <3> DEFINE n == Top.n
    <3>2. ASSUME heap' = [heap EXCEPT ![n].running = FALSE] PROVE Kept
      <4> HIDE DEF n
      <4> QED
        BY <1>1, <3>2 DEF BlockType
    <3> QED
      BY <3>1, <3>2
  <2> QED
    BY <2>2, <2>3
<1>5. ASSUME stack # <<>>, Top.kind \in {"free", "release"}, Leave(Front(stack), Top.exc),
             Collecting
      PROVE  stack' # <<>>
  <2>3. Top.into = None
    BY <1>5, TopFrame DEF FrameIsRight
  <2>1. /\ Len(stack) \in Nat \ {0} /\ Len(stack') = Len(stack) - 1 /\ stack' \in Seq(FrameType)
    BY <1>5, <2>3, FrameIsLeft
  <2>2. Len(stack) # 1
    BY <1>2, <1>5, TopFrame
  <2> QED
    BY <2>1, <2>2, EmptySeq
<1>13. CASE Store
  <2> DEFINE o  == Top.into
             h  == [heap EXCEPT ![o].slot[Top.prop] = Top.val]
             g  == IF Top.exc # None THEN heap ELSE h
             fr == [Top EXCEPT !.into = None, !.val = None]
             st == [stack EXCEPT ![Len(stack)].into = None, ![Len(stack)].val = None]
  <2>1. stack # <<>> /\ Top.kind = "store" /\ o # None /\ Release(g, st, o)
    BY <1>13 DEF Store, On
  <2>2. Top = stack[Len(stack)] /\ Top \in FrameType /\ FrameIsRight(stack, Len(stack))
    BY <2>1, TopFrame
  <2>3. o \in Nodes /\ Top.prop \in Fields /\ Top.val \in Nodes \cup {None}
    BY <1>1, <2>1, <2>2 DEF FrameType, FrameIsRight
  <2>4. h \in [Nodes -> BlockType] /\ \A m \in Nodes : h[m].live = heap[m].live
    <3> DEFINE b == [heap[o] EXCEPT !.slot[Top.prop] = Top.val]
    <3>1. heap[o] \in BlockType
      BY <1>1, <2>3
    <3>2. b \in BlockType
      BY <2>3, <3>1 DEF BlockType
    <3>3. b.live = heap[o].live
      BY <3>1 DEF BlockType
    <3>4. h = [heap EXCEPT ![o] = b]
      OBVIOUS
    <3> HIDE DEF b, h
    <3> QED
      BY <1>1, <3>2, <3>3, <3>4
  <2>5. g \in [Nodes -> BlockType] /\ \A m \in Nodes : g[m].live = heap[m].live
    BY <1>1, <2>4
  <2>6. fr \in FrameType
    BY <2>2 DEF FrameType
  <2>7. st = [stack EXCEPT ![Len(stack)] = fr]
    BY <2>2
  <2> HIDE DEF g, fr, st
  <2>8. st \in Seq(FrameType) /\ st # <<>>
    BY <1>1, <2>1, <2>6, <2>7, Retopped
  <2>9. /\ \A m \in Nodes : heap'[m].live = g[m].live
        /\ st # <<>> => stack' # <<>>
    BY <2>1, <2>3, <2>5, <2>8, ReleaseFreesNothing
  <2> QED
    BY <2>5, <2>8, <2>9
<1>14. CASE Stored
  <2>1. stack # <<>> /\ Top.kind = "store" /\ Top.into = None /\ Leave(Front(stack), Top.exc)
    BY <1>14 DEF Stored, On
  <2>2. Len(stack) \in Nat \ {0} /\ Len(stack') = Len(stack) - 1 /\ stack' \in Seq(FrameType)
    BY <2>1, FrameIsLeft
  <2>3. ASSUME Collecting PROVE stack' # <<>>
    <3>1. Len(stack) # 1
      BY <1>2, <2>1, <2>3, TopFrame
    <3> QED
      BY <2>2, <3>1, EmptySeq
  <2>4. heap' = heap
    BY <1>14 DEF Stored
  <2> QED
    BY <2>3, <2>4
<1>6. CASE Resurrect
  <2>1. heap' = [heap EXCEPT ![Top.n].running = FALSE]
    BY <1>6 DEF Resurrect
  <2>2. Kept
    BY <1>1, <2>1 DEF BlockType
  <2> QED
    BY <1>5, <1>6, <2>2 DEF Resurrect, On
<1>7. CASE Dismantle
  <2>1. heap' = heap /\ stack # <<>> /\ stack' = [stack EXCEPT ![Len(stack)].kind = "release", ![Len(stack)].todo = Fields]
    BY <1>7 DEF Dismantle, On
  <2>2. DOMAIN stack' = DOMAIN stack
    BY <2>1
  <2>3. stack' # <<>>
    BY <1>1, <2>1, <2>2, EmptySeq
  <2> QED
    BY <2>1, <2>3
<1>8. CASE ReleaseProperty
  <2> DEFINE f  == Min(Top.todo)
             x  == heap[Top.n].slot[f]
             fr == [Top EXCEPT !.todo = @ \ {f}]
             st == [stack EXCEPT ![Len(stack)].todo = @ \ {f}]
  <2>1. /\ stack # <<>> /\ Top.kind = "release" /\ Top.todo # {} /\ Release(heap, st, x)
    BY <1>8 DEF ReleaseProperty, On
  <2>2. Top = stack[Len(stack)] /\ Top \in FrameType /\ FrameIsRight(stack, Len(stack))
    BY <2>1, TopFrame
  <2>3. Top.n \in Nodes /\ Top.todo \subseteq Fields
    BY <1>1, <2>1, <2>2 DEF FrameIsRight
  <2>4. f \in Fields
    <3>1. Top.todo \in SUBSET Nat
      BY <2>3 DEF Fields
    <3> QED
      BY <2>1, <2>3, <3>1, MinIsIn
  <2> HIDE DEF f
  <2>5. x \in Nodes \cup {None}
    BY <1>1, <2>3, <2>4 DEF BlockType
  <2>6. fr \in FrameType
    BY <2>2 DEF FrameType
  <2>7. st = [stack EXCEPT ![Len(stack)] = fr]
    BY <2>2
  <2> HIDE DEF fr, st, x
  <2>8. st \in Seq(FrameType) /\ st # <<>>
    BY <1>1, <2>1, <2>6, <2>7, Retopped
  <2>9. /\ \A m \in Nodes : heap'[m].live = heap[m].live
        /\ st # <<>> => stack' # <<>>
    BY <1>1, <2>1, <2>5, <2>8, ReleaseFreesNothing
  <2> QED
    BY <2>8, <2>9
<1>9. CASE FreeBlock
  BY <1>5, <1>9 DEF FreeBlock, On
<1>10. CASE Pin
  <2>1. /\ stack # <<>> /\ stack' = [stack EXCEPT ![Len(stack)].todo = NeedDestructor]
        /\ heap' = [n \in Nodes |-> IF n \in {n1 \in Unmarked : ~heap[n1].pin}
                                    THEN [heap[n] EXCEPT !.pin = TRUE, !.rc = @ + 1]
                                    ELSE heap[n]]
    BY <1>10 DEF Pin, On
  <2>2. stack' # <<>>
    <3>1. stack # <<>> /\ DOMAIN stack' = DOMAIN stack
      BY <2>1
    <3>2. 1 \in DOMAIN stack'
      BY <1>1, <3>1, EmptySeq
    <3> QED
      BY <3>2
  <2>3. Kept
    <3> TAKE m \in Nodes
    <3>1. heap'[m] = heap[m] \/ heap'[m] = [heap[m] EXCEPT !.pin = TRUE, !.rc = @ + 1]
      BY <2>1
    <3>2. heap[m] \in BlockType
      BY <1>1
    <3> QED
      BY <3>1, <3>2 DEF BlockType
  <2> QED
    BY <2>2, <2>3
<1>11. CASE Sweep
  BY <1>11
<1>12. ASSUME NEW n \in Nodes, Destruct(n) PROVE Kept /\ Goes
  <2> DEFINE runs == heap[n].dtor /\ ~heap[n].called
             st   == [stack EXCEPT ![Len(stack)].todo = @ \ {n}]
             b    == [heap[n] EXCEPT !.called = TRUE, !.running = runs,
                                     !.calls = IF runs THEN @ + 1 ELSE @]
  <2>1. /\ stack # <<>>
        /\ heap' = [heap EXCEPT ![n].called = TRUE, ![n].running = runs,
                                ![n].calls = IF runs THEN @ + 1 ELSE @]
        /\ stack' = IF runs THEN Append(st, Frame("destructor", n, {})) ELSE st
    BY <1>12 DEF Destruct, On
  <2>2. heap' = [heap EXCEPT ![n] = b] /\ b.live = heap[n].live
    BY <1>1, <2>1 DEF BlockType
  <2> HIDE DEF b
  <2>4. Kept
    BY <1>1, <2>2
  <2>5. stack' # <<>>
    <3> DEFINE fr == [Top EXCEPT !.todo = @ \ {n}]
               dt == Frame("destructor", n, {})
    <3>1. Top \in FrameType /\ Top = stack[Len(stack)]
      BY <2>1, TopFrame
    <3>2. fr \in FrameType
      BY <3>1 DEF FrameType
    <3>3. st = [stack EXCEPT ![Len(stack)] = fr]
      BY <3>1
    <3> HIDE DEF fr, st, dt
    <3>4. st \in Seq(FrameType) /\ st # <<>>
      BY <1>1, <2>1, <3>2, <3>3, Retopped
    <3>5. Append(st, dt) # <<>>
      <4>1. Len(Append(st, dt)) = Len(st) + 1 /\ Len(st) \in Nat
        BY <3>4, LenProperties
      <4>2. Len(Append(st, dt)) # 0
        BY <4>1
      <4> QED
        BY <4>2, EmptySeq
    <3> QED
      BY <2>1, <3>4, <3>5 DEF dt
  <2> QED
    BY <2>4, <2>5
<1> QED
  BY <1>2, <1>3, <1>4, <1>6, <1>7, <1>8, <1>9, <1>10, <1>11, <1>12,
     <1>13, <1>14 DEF Next, Runtime

LEMMA DestructedBeforeFreed ==
    ASSUME IInv, [Next]_vars, NEW n \in Objects, heap[n].live, ~heap'[n].live
    PROVE  heap[n].calls = IF heap[n].dtor THEN 1 ELSE 0
<1>1. n \in Nodes /\ heap \in [Nodes -> BlockType]
  BY GoodStack
<1>2. heap[n].calls = IF heap[n].dtor /\ heap[n].called THEN 1 ELSE 0
  BY <1>1 DEF IInv, Good, Calls
<1>3. SUFFICES heap[n].called
  BY <1>2
<1>4. Next
  BY DEF vars
<1>5. FreeBlock \/ Sweep
  BY <1>1, <1>4, WhatEnds
<1>6. CASE FreeBlock
  <2>1. stack # <<>> /\ Top.kind = "release" /\ heap' = [heap EXCEPT ![Top.n] = Free]
    BY <1>6 DEF FreeBlock, On
  <2>2. n = Top.n
    BY <1>1, <2>1
  <2>3. Len(stack) \in 1 .. Len(stack) /\ Top = stack[Len(stack)] /\ n # None
    BY <1>1, <2>1, TopFrame, NodesAreFinite
  <2> QED
    BY <2>2, <2>3 DEF IInv, Good, Frames
<1>7. CASE Sweep
  <2>1. On("collect") /\ Top.todo = {} /\ NeedDestructor = {}
    BY <1>7 DEF Sweep
  <2>2. Top = stack[1] /\ CollectsIn(stack)
    BY <2>1, CollectorIsAlone
  <2>3. n \in Unmarked
    BY <1>1, <1>7, MarkedAreKept
  <2>4. heap[n].pin \/ heap[n].called
    BY <2>1, <2>3 DEF NeedDestructor
  <2>5. heap[n].pin => heap[n].called
    BY <1>1, <2>1, <2>2 DEF IInv, Good, Pins
  <2> QED
    BY <2>4, <2>5
<1> QED
  BY <1>5, <1>6, <1>7

LEMMA SweptClean ==
    ASSUME IInv, Sweep
    PROVE  Live' \subseteq Usable'
<1> DEFINE from   == {Root, thrown'} \ {None}
           usable == Reach(from, Edges')
           marked == Reach(Anchored, Edges)
           S      == Live \cap marked \cap usable
<1>1. On("collect") /\ Leave(Front(stack), Top.exc) /\ \A n \in Unmarked : n \in Nodes => heap'[n] = Free
  BY DEF Sweep
<1>2. /\ heap \in [Nodes -> BlockType] /\ None \notin Nodes /\ Root \in Nodes /\ Objects \subseteq Nodes
  BY GoodStack
<1>3. /\ stack # <<>> /\ Len(stack) = 1 /\ Top.kind = "collect" /\ Top.into = None
  BY <1>1, CollectorIsAlone
<1>4. thrown' = Top.exc /\ thrown' \in Objects \cup {None}
  <2>1. /\ stack' \in Seq(FrameType) /\ Len(stack') = 0 /\ thrown' \in Objects \cup {None}
        /\ stack' = <<>> => thrown' = Top.exc
    BY <1>1, <1>3, FrameIsLeft
  <2> QED
    BY <2>1, EmptySeq
<1>5. /\ Anchored \subseteq {Root, Top.exc} /\ Anchored \subseteq Nodes
      /\ \A p \in Live, f \in Fields :
             (p \notin Unmarked /\ heap[p].slot[f] # None) => heap[p].slot[f] \in Live
  BY <1>1, MarkingIsRight
<1>6. /\ from \subseteq usable /\ usable \subseteq Nodes
      /\ \A m \in usable, v \in Nodes : v \in Edges'[m] => v \in usable
  <2>1. from \in SUBSET Nodes
    BY <1>2, <1>4
  <2> QED
    BY <2>1, ReachIsClosed
<1>7. /\ Anchored \subseteq marked /\ marked \subseteq Nodes
      /\ \A m \in marked, v \in Nodes : v \in Edges[m] => v \in marked
  BY <1>5, ReachIsClosed
<1>8. Anchored \subseteq S
  BY <1>2, <1>4, <1>5, <1>6, <1>7 DEF Anchored
<1>9. ASSUME NEW m \in S, NEW v \in Edges[m] PROVE v \in S
  <2>1. m \in Nodes /\ m \in Live /\ m \in marked /\ m \in usable /\ m \notin Unmarked
    BY <1>9 DEF Live, Unmarked
  <2>2. v \in Nodes /\ v # None
    BY <1>2, <1>9, <2>1, EdgesAreSlots
  <2>3. PICK f \in Fields : heap[m].slot[f] = v
    BY <1>2, <1>9, <2>1, EdgesAreSlots
  <2>4. v \in Live /\ v \in marked
    BY <1>5, <1>7, <2>1, <2>2, <2>3
  <2>5. heap'[m].slot = heap[m].slot
    BY <2>1, MarkedAreKept
  <2>6. v \in Edges'[m]
    BY <1>9, <2>1, <2>5 DEF Edges
  <2>7. v \in usable
    BY <1>6, <2>1, <2>2, <2>6
  <2> QED
    BY <2>4, <2>7
<1>10. marked \subseteq S
  <2> HIDE DEF usable
  <2>1. S \in SUBSET Nodes
    BY DEF Live
  <2>2. \A m \in S : Edges[m] \subseteq S
    BY <1>9
  <2> HIDE DEF S
  <2> QED
    BY <1>8, <2>1, <2>2, ReachIsLeast
<1>11. ASSUME NEW m \in Live' PROVE m \in usable
  <2>1. m \in Nodes /\ heap'[m].live
    BY <1>11 DEF Live
  <2>2. m \notin Unmarked
    BY <1>1, <2>1 DEF Free, Block
  <2>3. heap[m].live
    BY <2>1, <2>2, MarkedAreKept
  <2>4. m \in marked
    BY <2>1, <2>2, <2>3 DEF Live, Unmarked
  <2> QED
    BY <1>10, <2>4
<1>12. Usable' = usable
  BY DEF Usable
<1> QED
  BY <1>11, <1>12

\* Every count of owners is what it should be, between any two steps of a cascade, an
\* assignment or a collection, unless a destructor meddles with the property that is being
\* overwritten.
THEOREM OwnersAreCounted == ~Meddling /\ Spec => []CountsAreExact
<1> QED
  BY AlwaysGood, CountsAreRight, PTL

\* Nothing is freed that can still be used, either side of an assignment included, unless a
\* destructor meddles with the property that is being overwritten.
THEOREM NothingUsedIsFreed == ~Meddling /\ Spec => []ReachableIsAlive
<1> QED
  BY AlwaysGood, ReachableIsLive, PTL

\* An object is freed after its destructor was called once, under the same condition.
THEOREM DestructorsRunOnce == ~Meddling /\ Spec => DestructedOnce
<1>1. IInv /\ [Next]_vars =>
        [\A n \in Objects :
            (heap[n].live /\ ~heap'[n].live) => heap[n].calls = IF heap[n].dtor THEN 1 ELSE 0]_vars
  BY DestructedBeforeFreed
<1> QED
  BY <1>1, AlwaysGood, PTL DEF DestructedOnce, Spec

\* The end of a collection leaves only what the program can reach, under the same condition.
THEOREM CollectionsAreComplete == ~Meddling /\ Spec => NothingIsLeft
<1>1. IInv /\ [Next]_vars => [(Collecting /\ stack' = <<>>) => Live' \subseteq Usable']_vars
  <2> SUFFICES ASSUME IInv, Next, Collecting, stack' = <<>> PROVE Live' \subseteq Usable'
    BY DEF vars
  <2>1. Sweep
    BY WhatEnds
  <2> QED
    BY <2>1, SweptClean
<1> QED
  BY <1>1, AlwaysGood, PTL DEF NothingIsLeft, Spec
=============================================================================
