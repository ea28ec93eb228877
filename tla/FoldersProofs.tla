---------------------------- MODULE FoldersProofs ----------------------------
(***************************************************************************)
(* Proofs about Folders, for any tree of folders and labs, any ceilings,   *)
(* and any number of changes: a walk finds what stays and never leaves its *)
(* start, and delete_folder deletes contents only if they came too late to *)
(* be seen.                                                                *)
(*                                                                         *)
(* The first part is about paths: it shows that Below is a tree.  The rest *)
(* does not look into the paths any more, but for the moving of a folder.  *)
(***************************************************************************)
EXTENDS Folders, FiniteSetTheorems, SequenceTheorems, TLAPS

L(f) == Len(Path[f])

LEMMA PathType ==
  /\ Root \in Dirs /\ \A f \in Dirs : Path[f] \in Seq(STRING) /\ L(f) \in Nat
BY PathAssumption DEF Dirs, L

LEMMA DepthIs == \A f, g \in Dirs : Depth(f, g) = L(f) - L(g) /\ Depth(f, g) \in Int
BY PathType DEF Depth, L

LEMMA BelowIs ==
  ASSUME NEW f \in Dirs, NEW g \in Dirs
  PROVE  Below(f, g) <=> L(g) <= L(f) /\ \A i \in 1 .. L(g) : Path[f][i] = Path[g][i]
<1> DEFINE p == Path[f]
           q == Path[g]
<1>1. p \in Seq(STRING) /\ q \in Seq(STRING) /\ L(f) = Len(p) /\ L(g) = Len(q)
  BY PathType DEF L
<1>2. Below(f, g) <=> Len(q) <= Len(p) /\ SubSeq(q, 1, Len(q)) = SubSeq(p, 1, Len(q))
  BY DEF Below, IsPrefix
<1> HIDE DEF p, q
<1>3. SubSeq(q, 1, Len(q)) = q
  BY <1>1
<1>4. ASSUME Len(q) <= Len(p)
      PROVE  q = SubSeq(p, 1, Len(q)) <=> \A i \in 1 .. Len(q) : p[i] = q[i]
  <2>1. /\ SubSeq(p, 1, Len(q)) \in Seq(STRING) /\ Len(SubSeq(p, 1, Len(q))) = Len(q)
        /\ \A i \in 1 .. Len(q) : SubSeq(p, 1, Len(q))[i] = p[i]
    BY <1>1, <1>4
  <2> QED BY <1>1, <2>1, SeqEqual
<1>5. Below(f, g) <=> Len(q) <= Len(p) /\ \A i \in 1 .. Len(q) : p[i] = q[i]
  BY <1>2, <1>3, <1>4
<1> QED BY <1>1, <1>5 DEF p, q

\* A path is where it is in Path only.
LEMMA SamePath ==
  ASSUME NEW f \in Dirs, NEW g \in Dirs, L(f) = L(g), \A i \in 1 .. L(f) : Path[f][i] = Path[g][i]
  PROVE  f = g
<1>1. Path[f] \in Seq(STRING) /\ Path[g] \in Seq(STRING) /\ Len(Path[f]) = L(f) /\ Len(Path[g]) = L(g)
  BY PathType DEF L
<1>2. Path[f] = Path[g]
  BY <1>1, SeqEqual
<1> QED BY <1>2, FolderAssumption

\* The folder above f that is n levels below the root.
LEMMA Ancestor ==
  ASSUME NEW f \in Dirs, NEW n \in 0 .. L(f)
  PROVE  \E g \in Dirs : L(g) = n /\ Below(f, g)
<1>1. PICK g \in Dirs : Path[g] = SubSeq(Path[f], 1, n)
  BY FolderAssumption DEF L
<1>2. Path[f] \in Seq(STRING) /\ n \in Nat /\ n <= Len(Path[f])
  BY PathType DEF L
<1>3. Len(Path[g]) = n /\ \A i \in 1 .. n : Path[g][i] = Path[f][i]
  BY <1>1, <1>2
<1>4. L(g) = n /\ n <= L(f)
  BY <1>3, PathType DEF L
<1> QED BY <1>3, <1>4, BelowIs

LEMMA BelowRefl == \A f \in Dirs : Below(f, f)
BY BelowIs, PathType

LEMMA BelowTrans ==
  \A f, g, h \in Dirs : Below(f, g) /\ Below(g, h) => Below(f, h)
BY BelowIs, PathType

LEMMA BelowLower == \A f, g \in Dirs : Below(f, g) => L(g) <= L(f) /\ (f # g => L(g) < L(f))
<1> SUFFICES ASSUME NEW f \in Dirs, NEW g \in Dirs, Below(f, g) PROVE L(g) <= L(f) /\ (f # g => L(g) < L(f))
  OBVIOUS
<1>1. L(g) <= L(f) /\ \A i \in 1 .. L(g) : Path[f][i] = Path[g][i]
  BY BelowIs
<1>2. L(f) = L(g) => f = g
  BY <1>1, SamePath
<1> QED BY <1>1, <1>2, PathType

\* Of two folders above f, one is above the other.
LEMMA BelowLinear ==
  \A f, g, h \in Dirs : Below(f, g) /\ Below(f, h) /\ L(g) <= L(h) => Below(h, g)
BY BelowIs, PathType, SMTT(30)

LEMMA RootAbove == \A f \in Dirs : Below(f, Root)
<1>1. L(Root) = 0
  BY FolderAssumption DEF L
<1> QED BY <1>1, BelowIs, PathType

LEMMA ChildIs ==
  \A f, g \in Dirs : Child(f, g) <=> Below(f, g) /\ L(f) = L(g) + 1
BY DepthIs, PathType, SMTT(30) DEF Child

\* From g to a folder below it, the way leads through a child of g, and through
\* a parent of that folder.
LEMMA WayDown ==
  ASSUME NEW f \in Dirs, NEW g \in Dirs, Below(f, g), f # g
  PROVE  /\ \E k \in Dirs : Child(k, g) /\ Below(f, k)
         /\ \E p \in Dirs : Child(f, p) /\ Below(p, g)
<1>1. L(f) \in Nat /\ L(g) \in Nat /\ L(g) < L(f)
  BY BelowLower, PathType
<1>2. PICK k \in Dirs : L(k) = L(g) + 1 /\ Below(f, k)
  BY <1>1, Ancestor
<1>3. Child(k, g)
  BY <1>1, <1>2, BelowLinear, ChildIs
<1>4. PICK p \in Dirs : L(p) = L(f) - 1 /\ Below(f, p)
  BY <1>1, Ancestor
<1>5. Child(f, p) /\ Below(p, g)
  BY <1>1, <1>4, BelowLinear, ChildIs
<1> QED BY <1>2, <1>3, <1>5

LEMMA OneParent == \A f, g, h \in Dirs : Child(f, g) /\ Child(f, h) => g = h
<1> SUFFICES ASSUME NEW f \in Dirs, NEW g \in Dirs, NEW h \in Dirs, Child(f, g), Child(f, h)
             PROVE  g = h
  OBVIOUS
<1>1. Below(f, g) /\ Below(f, h) /\ L(g) = L(h)
  BY ChildIs, PathType
<1>2. Below(h, g)
  BY <1>1, BelowLinear, PathType
<1> QED BY <1>1, <1>2, BelowLower, PathType

\* A child is not a folder above its parent.
LEMMA ChildLower == \A f, g \in Dirs : Child(f, g) => f # g /\ ~Below(g, f)
BY ChildIs, BelowLower, PathType
-----------------------------------------------------------------------------
(* Entries, and the steps that end or begin a walk. *)

EntryOf(f) == [in |-> f, name |-> 0]

LEMMA EntryFacts ==
  /\ Labs \subseteq Entries /\ \A l \in Labs : l.in \in Dirs /\ l.name # 0
  /\ \A F \in SUBSET Dirs : AsEntries(F) \subseteq Entries
  /\ \A F : \A e \in AsEntries(F) : e.in \in F /\ e = EntryOf(e.in)
  /\ \A F : \A f \in F : EntryOf(f) \in AsEntries(F)
BY FolderAssumption DEF Labs, Entries, AsEntries, EntryOf

LEMMA OneEntry == \A f : AsEntries({f}) = {EntryOf(f)}
<1> SUFFICES ASSUME NEW f PROVE AsEntries({f}) = {EntryOf(f)}
  OBVIOUS
<1>1. EntryOf(f) \in AsEntries({f}) /\ \A e \in AsEntries({f}) : e = EntryOf(f)
  BY EntryFacts
<1> QED BY <1>1

\* What there is, and where.
LEMMA PresentFacts ==
  ASSUME TypeOK
  PROVE  /\ Present \subseteq Entries
         /\ \A f \in Dirs : EntryOf(f) \in Present <=> f \in folders
         /\ \A e \in Present : e \in labs \/ (e = EntryOf(e.in) /\ e.in \in folders)
         /\ \A l \in Labs : l \in Present <=> l \in labs
<1>1. folders \subseteq Dirs /\ labs \subseteq Labs
  BY DEF TypeOK
<1>2. \A f : EntryOf(f).name = 0 /\ EntryOf(f).in = f
  BY DEF EntryOf
<1> QED BY <1>1, <1>2, EntryFacts DEF Present

LEMMA ClosedTree == ASSUME IInv PROVE Closed(folders) /\ \A e \in Present : e.in \in folders
BY PresentFacts DEF IInv, TreeInv

LEMMA InitIInv == Init => IInv
<1> SUFFICES ASSUME Init PROVE IInv
  OBVIOUS
<1>1. arg \in RequestType
  BY FolderAssumption DEF Init
<1>2. TypeOK
  BY <1>1, FolderAssumption DEF Init, TypeOK
<1>3. TreeInv
  BY DEF Init, TreeInv
<1>4. stays = {} /\ queue = << >> /\ visited = {} /\ found = {} /\ pc = "idle"
  BY DEF Init
<1>5. StaysIn = {}
  BY <1>4 DEF StaysIn
<1>6. StayInv /\ QueueInv /\ VisitedInv /\ WalkInv /\ FoundInv
  BY <1>4, <1>5 DEF StayInv, QueueInv, VisitedInv, WalkInv, FoundInv, Closed
<1>7. RestInv /\ TargetInv /\ LateInv
  BY <1>4 DEF RestInv, TargetInv, LateInv
<1> QED BY <1>2, <1>3, <1>6, <1>7 DEF IInv

\* A call that is over leaves a tree, and nothing of its own.
LEMMA FinishKeeps ==
  ASSUME IInv, NEW status \in {"idle", "asked"}, Finish(status),
         folders' \subseteq Dirs, labs' \subseteq Labs, TreeInv', UNCHANGED <<arg, changes>>
  PROVE  IInv'
<1>1. /\ stays' = {} /\ queue' = << >> /\ visited' = {} /\ found' = {} /\ target' = {} /\ inTime' = {}
      /\ pc' \in {"idle", "asked"}
  BY DEF Finish
<1>2. TypeOK'
  BY <1>1 DEF IInv, TypeOK
<1>3. StaysIn' = {}
  BY <1>1 DEF StaysIn
<1>4. StayInv' /\ QueueInv' /\ VisitedInv' /\ WalkInv' /\ FoundInv'
  BY <1>1, <1>3 DEF StayInv, QueueInv, VisitedInv, WalkInv, FoundInv, Closed
<1>5. RestInv' /\ TargetInv' /\ LateInv'
  BY <1>1 DEF RestInv, TargetInv, LateInv
<1> QED BY <1>2, <1>4, <1>5 DEF IInv

\* A walk begins at its start, and everything there is may stay.
LEMMA BeginKeeps ==
  ASSUME IInv, pc \in {"idle", "asked"}, arg' \in RequestType, pc' = "walk",
         queue' = << [dir |-> arg'.start, depth |-> 0] >>, stays' = Present,
         UNCHANGED <<serverVars, visited, found, target, inTime, changes>>
  PROVE  IInv'
<1>1. /\ visited' = {} /\ found' = {} /\ folders' = folders /\ labs' = labs
      /\ target' = target /\ inTime' = inTime /\ changes' = changes
  BY DEF IInv, RestInv, serverVars
<1>2. arg'.start \in Dirs
  BY DEF RequestType
<1>3. [dir |-> arg'.start, depth |-> 0] \in [dir : Dirs, depth : 0 .. MaxDepth]
  BY <1>2, FolderAssumption
<1>4. queue' \in Seq([dir : Dirs, depth : 0 .. MaxDepth]) /\ DOMAIN queue' = {1}
      /\ queue'[1].dir = arg'.start /\ queue'[1].depth = 0
  BY <1>3
<1>5. TypeOK'
  BY <1>1, <1>4, PresentFacts DEF IInv, TypeOK
<1>6. Present' = Present
  BY <1>1 DEF Present
<1>7. TreeInv'
  BY <1>1 DEF IInv, TreeInv
<1>8. StaysIn' = folders
  BY PresentFacts DEF IInv, TypeOK, StaysIn, EntryOf
<1>9. StayInv'
  BY <1>6, <1>8, ClosedTree DEF StayInv
<1>10. QueueInv'
  BY <1>2, <1>4, BelowRefl, DepthIs, PathType DEF QueueInv, ParentVisited
<1>11. VisitedInv' /\ WalkInv'
  BY <1>1, <1>2, <1>4 DEF VisitedInv, WalkInv, Waiting
<1>12. FoundInv'
  BY <1>1 DEF FoundInv
<1>13. RestInv' /\ TargetInv' /\ LateInv'
  BY DEF RestInv, TargetInv, LateInv
<1> QED BY <1>5, <1>7, <1>9, <1>10, <1>11, <1>12, <1>13 DEF IInv

LEMMA AskKeeps == ASSUME IInv, Ask PROVE IInv'
BY BeginKeeps, FolderAssumption DEF Ask

LEMMA AcceptKeeps == ASSUME IInv, Accept PROVE IInv'
<1>1. arg' \in RequestType /\ arg'.start = arg.start
  BY DEF Accept, IInv, TypeOK, RequestType
<1> QED BY <1>1, BeginKeeps DEF Accept
-----------------------------------------------------------------------------
(* The walk *)

LEMMA SeqOver == ASSUME NEW S, NEW k \in Nat, NEW s \in [1 .. k -> S] PROVE s \in Seq(S)
OBVIOUS

Waits == [dir : Dirs, depth : 0 .. MaxDepth]

\* What is left of the queue q whose first i entries are popped, with n behind it.
Popped(q, i, n) == SubSeq(q, i + 1, Len(q)) \o n

LEMMA QueueStep ==
  \A q, n \in Seq(Waits) : \A i \in 1 .. Len(q) :
    /\ Popped(q, i, n) \in Seq(Waits)
    /\ ToSet(Popped(q, i, n)) \subseteq ToSet(q) \cup ToSet(n)
    /\ \A k \in (i + 1) .. Len(q) : q[k] \in ToSet(Popped(q, i, n))
    /\ ToSet(n) \subseteq ToSet(Popped(q, i, n))
<1> SUFFICES ASSUME NEW q \in Seq(Waits), NEW n \in Seq(Waits), NEW i \in 1 .. Len(q),
                    NEW r, r = Popped(q, i, n)
             PROVE  /\ r \in Seq(Waits) /\ ToSet(r) \subseteq ToSet(q) \cup ToSet(n)
                    /\ \A k \in (i + 1) .. Len(q) : q[k] \in ToSet(r)
                    /\ ToSet(n) \subseteq ToSet(r)
  OBVIOUS
<1> DEFINE a == SubSeq(q, i + 1, Len(q))
           m == Len(q) - i
<1>1. a \in Seq(Waits) /\ Len(a) = m /\ m \in Nat /\ \A j \in 1 .. m : a[j] = q[j + i]
  OBVIOUS
<1> HIDE DEF a
<1>2. r = a \o n
  BY DEF a, Popped
<1>3. /\ r \in Seq(Waits) /\ Len(r) = m + Len(n)
      /\ \A j \in 1 .. m + Len(n) : r[j] = IF j <= m THEN a[j] ELSE n[j - m]
  <2>1. a \in Seq(Waits) /\ n \in Seq(Waits) /\ Len(a) = m
    BY <1>1
  <2>2. /\ a \o n \in Seq(Waits) /\ Len(a \o n) = Len(a) + Len(n)
        /\ \A j \in 1 .. Len(a) + Len(n) : (a \o n)[j] = IF j <= Len(a) THEN a[j] ELSE n[j - Len(a)]
    BY ONLY <2>1, ConcatProperties
  <2> QED BY <1>2, <2>1, <2>2
<1>4. DOMAIN r = 1 .. m + Len(n) /\ DOMAIN n = 1 .. Len(n) /\ DOMAIN q = 1 .. Len(q) /\ Len(n) \in Nat
  BY <1>3
<1>5. ASSUME NEW j \in DOMAIN r
      PROVE  (\E k \in DOMAIN q : r[j] = q[k]) \/ (\E k \in DOMAIN n : r[j] = n[k])
  <2>1. CASE j <= m
    <3>1. j \in 1 .. m /\ j \in 1 .. m + Len(n) /\ j + i \in DOMAIN q
      BY <1>1, <1>4, <2>1
    <3>2. r[j] = a[j] /\ a[j] = q[j + i]
      BY <1>1, <1>3, <2>1, <3>1
    <3> QED BY <3>1, <3>2
  <2>2. CASE ~(j <= m)
    <3>1. j \in 1 .. m + Len(n) /\ j - m \in DOMAIN n
      BY <1>1, <1>4, <2>2
    <3>2. r[j] = n[j - m]
      BY <1>3, <2>2, <3>1
    <3> QED BY <3>1, <3>2
  <2> QED BY <2>1, <2>2
<1>6. ASSUME NEW k \in (i + 1) .. Len(q) PROVE \E j \in DOMAIN r : r[j] = q[k]
  <2>1. k - i \in DOMAIN r /\ k - i \in 1 .. m /\ (k - i) + i = k /\ k - i <= m
    BY <1>1, <1>4
  <2>2. r[k - i] = q[k]
    BY <1>1, <1>3, <1>4, <2>1
  <2> QED BY <2>1, <2>2
<1>7. ASSUME NEW k \in DOMAIN n PROVE \E j \in DOMAIN r : r[j] = n[k]
  <2>1. m + k \in DOMAIN r /\ ~(m + k <= m) /\ (m + k) - m = k
    BY <1>1, <1>4
  <2>2. r[m + k] = n[k]
    BY <1>3, <1>4, <2>1
  <2> QED BY <2>1, <2>2
<1>8. ToSet(r) \subseteq ToSet(q) \cup ToSet(n)
  BY <1>5 DEF ToSet
<1>9. \A k \in (i + 1) .. Len(q) : q[k] \in ToSet(r)
  BY <1>6 DEF ToSet
<1>10. ToSet(n) \subseteq ToSet(r)
  BY <1>7 DEF ToSet
<1> QED BY <1>3, <1>8, <1>9, <1>10

\* What is put into the queue: the children that are not visited, unless they are too deep.
LEMMA QueuedIs ==
  ASSUME TypeOK
  PROVE  \A f \in Dirs, d \in 0 .. MaxDepth : \A n : n = Queued(f, d) =>
           /\ n \in Seq([dir : Dirs, depth : 0 .. MaxDepth])
           /\ \A j \in DOMAIN n : n[j].dir \in ChildrenOf(f) \ visited /\ n[j].depth = d + 1
           /\ d < MaxDepth => \A k \in ChildrenOf(f) \ visited : \E j \in DOMAIN n : n[j].dir = k
<1> SUFFICES ASSUME NEW f \in Dirs, NEW d \in 0 .. MaxDepth, NEW n, n = Queued(f, d)
  PROVE  /\ n \in Seq([dir : Dirs, depth : 0 .. MaxDepth])
         /\ \A j \in DOMAIN n : n[j].dir \in ChildrenOf(f) \ visited /\ n[j].depth = d + 1
         /\ d < MaxDepth => \A k \in ChildrenOf(f) \ visited : \E j \in DOMAIN n : n[j].dir = k
  OBVIOUS
<1> DEFINE C == ChildrenOf(f) \ visited
           next == InOrder[C]
<1>1. C \in SUBSET Dirs
  BY DEF ChildrenOf, TypeOK
<1>2. next \in Seq(Dirs) /\ {next[j] : j \in DOMAIN next} = C
  BY <1>1, PathAssumption DEF ToSet
<1>3. CASE ~(d < MaxDepth)
  BY <1>3 DEF Queued, QueuedIf
<1>4. CASE d < MaxDepth
  <2>1. n = [j \in DOMAIN next |-> [dir |-> next[j], depth |-> d + 1]]
    BY <1>4 DEF Queued, QueuedIf, Listed
  <2> HIDE DEF next, C
  <2>2. DOMAIN next = 1 .. Len(next) /\ Len(next) \in Nat /\ \A j \in DOMAIN next : next[j] \in Dirs
    BY <1>2
  <2>3. d + 1 \in 0 .. MaxDepth
    BY <1>4, FolderAssumption
  <2>4. \A j \in DOMAIN n : n[j] = [dir |-> next[j], depth |-> d + 1]
    BY <2>1
  <2>5. n \in [1 .. Len(next) -> [dir : Dirs, depth : 0 .. MaxDepth]]
    BY <2>1, <2>2, <2>3
  <2>6. n \in Seq([dir : Dirs, depth : 0 .. MaxDepth])
    BY <2>2, <2>5, SeqOver
  <2> QED BY <1>2, <2>1, <2>4, <2>6 DEF C
<1> QED BY <1>3, <1>4

\* The folder f0 is listed, which was waiting behind visited ones only.
LEMMA VisitKeeps == ASSUME IInv, Visit PROVE IInv'
<1> DEFINE s == arg.start
<1>1. PICK i \in DOMAIN queue :
        /\ Turn(i) /\ queue[i].dir \in folders
        /\ visited' = visited \cup {queue[i].dir}
        /\ queue' = SubSeq(queue, i + 1, Len(queue)) \o Queued(queue[i].dir, queue[i].depth)
        /\ \E elsewhere \in IF queue[i].dir = Running /\ arg.tool # "deleteFolder" THEN SUBSET labs ELSE {{}} :
             found' = found \cup Collected(queue[i].dir) \cup elsewhere
  BY DEF Visit
<1>a. PICK f0, d0, n : f0 = queue[i].dir /\ d0 = queue[i].depth /\ n = Queued(f0, d0)
  OBVIOUS
<1>2. PICK x : x \subseteq labs /\ (arg.tool = "deleteFolder" => x = {})
               /\ found' = found \cup Collected(f0) \cup x
  BY <1>1, <1>a
<1>3. /\ TypeOK /\ TreeInv /\ StayInv /\ QueueInv /\ VisitedInv /\ WalkInv /\ FoundInv
      /\ pc = "walk" /\ pc' = "walk" /\ folders' = folders /\ labs' = labs /\ arg' = arg
      /\ target' = target /\ stays' = stays /\ inTime' = inTime /\ changes' = changes
  BY DEF IInv, Visit, serverVars
<1>4. /\ s \in Dirs /\ f0 \in folders /\ f0 \in Dirs /\ d0 \in 0 .. MaxDepth /\ MaxDepth \in Nat
      /\ queue \in Seq(Waits)
      /\ DOMAIN queue = 1 .. Len(queue) /\ Len(queue) \in Nat /\ i \in 1 .. Len(queue)
      /\ \A k \in DOMAIN queue : queue[k].dir \in Dirs
  <2>1. queue \in Seq(Waits)
    BY <1>3 DEF TypeOK, Waits
  <2>2. \A k \in DOMAIN queue : queue[k] \in Waits
    BY <2>1, LenProperties, ElementOfSeq
  <2>3. s \in Dirs
    BY <1>3 DEF TypeOK, RequestType
  <2> QED BY <1>1, <1>a, <2>1, <2>2, <2>3, FolderAssumption DEF Waits
<1>5. f0 \notin visited /\ \A j \in 1 .. i - 1 : queue[j].dir \in visited
  BY <1>1, <1>a DEF Turn
<1>6. visited' = visited \cup {f0}
  BY <1>1, <1>a
<1>7. Below(f0, s) /\ d0 = Depth(f0, s) /\ ParentVisited(f0)
  BY <1>3, <1>a DEF QueueInv
<1>8. /\ n \in Seq(Waits)
      /\ \A j \in DOMAIN n : n[j].dir \in ChildrenOf(f0) \ visited /\ n[j].depth = d0 + 1
      /\ d0 < MaxDepth => \A k \in ChildrenOf(f0) \ visited : \E j \in DOMAIN n : n[j].dir = k
  <2>1. TypeOK /\ f0 \in Dirs /\ d0 \in 0 .. MaxDepth /\ n = Queued(f0, d0)
    BY <1>3, <1>4, <1>a
  <2>2. n \in Seq(Waits)
    BY <2>1, QueuedIs DEF Waits
  <2>3. \A j \in DOMAIN n : n[j].dir \in ChildrenOf(f0) \ visited /\ n[j].depth = d0 + 1
    BY <2>1, QueuedIs
  <2>4. d0 < MaxDepth => \A k \in ChildrenOf(f0) \ visited : \E j \in DOMAIN n : n[j].dir = k
    BY <2>1, QueuedIs
  <2> QED BY <2>2, <2>3, <2>4
<1>9. queue' = SubSeq(queue, i + 1, Len(queue)) \o n
  BY <1>1, <1>a
<1> HIDE DEF s
<1>10. /\ queue' \in Seq(Waits)
       /\ \A j \in DOMAIN queue' :
            (\E k \in DOMAIN queue : queue'[j] = queue[k]) \/ (\E k \in DOMAIN n : queue'[j] = n[k])
       /\ \A k \in (i + 1) .. Len(queue) : \E j \in DOMAIN queue' : queue'[j] = queue[k]
       /\ \A k \in DOMAIN n : \E j \in DOMAIN queue' : queue'[j] = n[k]
  <2>1. queue \in Seq(Waits) /\ n \in Seq(Waits) /\ i \in 1 .. Len(queue)
    BY <1>4, <1>8
  <2>2. queue' = Popped(queue, i, n)
    BY <1>9 DEF Popped
  <2>3. /\ queue' \in Seq(Waits) /\ ToSet(queue') \subseteq ToSet(queue) \cup ToSet(n)
        /\ \A k \in (i + 1) .. Len(queue) : queue[k] \in ToSet(queue')
        /\ ToSet(n) \subseteq ToSet(queue')
    BY <2>1, <2>2, QueueStep
  <2> QED BY <2>3 DEF ToSet
<1>11. \A g \in Dirs : Waiting(g) /\ g # f0 => Waiting(g)'
  <2> SUFFICES ASSUME NEW g \in Dirs, Waiting(g), g # f0 PROVE Waiting(g)'
    OBVIOUS
  <2>1. PICK k \in DOMAIN queue : queue[k].dir = g /\ g \notin visited
    BY DEF Waiting
  <2>2. k \notin 1 .. i - 1 /\ k # i
    BY <1>5, <1>a, <2>1
  <2>3. k \in (i + 1) .. Len(queue)
    BY <1>4, <2>2
  <2> QED BY <1>6, <1>10, <2>1, <2>3 DEF Waiting
<1>12. d0 < MaxDepth => \A k \in ChildrenOf(f0) \ visited' : Waiting(k)'
  <2> SUFFICES ASSUME d0 < MaxDepth, NEW k \in ChildrenOf(f0) \ visited' PROVE Waiting(k)'
    OBVIOUS
  <2>1. PICK j \in DOMAIN n : n[j].dir = k
    BY <1>6, <1>8
  <2>2. \E l \in DOMAIN queue' : queue'[l].dir = k
    BY <1>10, <2>1
  <2> QED BY <2>2 DEF Waiting
<1>13. ASSUME NEW f \in StaysIn, Below(f, f0), f # f0, Depth(f, s) <= MaxDepth
       PROVE  f \in visited' \/ \E g \in Dirs : Waiting(g)' /\ Below(f, g) /\ Below(g, f0) /\ g # f0
  <2>1. PICK k \in Dirs : Child(k, f0) /\ Below(f, k)
    BY <1>4, <1>13, WayDown DEF StaysIn
  <2>2. k \in StaysIn /\ k \in folders
    BY <1>3, <2>1, PresentFacts DEF StayInv, Closed, StaysIn, EntryOf
  <2>3. d0 < MaxDepth
    BY <1>4, <1>7, <1>13, <2>1, ChildIs, BelowLower, DepthIs, PathType DEF StaysIn
  <2>4. CASE k \notin visited'
    <3>1. Waiting(k)'
      BY <1>12, <2>1, <2>2, <2>3, <2>4 DEF ChildrenOf
    <3> QED BY <1>4, <2>1, <3>1, ChildIs, ChildLower
  <2>5. CASE k \in visited'
    <3>1. k \in visited
      BY <1>4, <1>6, <2>1, <2>5, ChildLower
    <3>2. f \in visited \/ \E g \in Dirs : Waiting(g) /\ Below(f, g) /\ Below(g, k) /\ g # k
      BY <1>3, <1>13, <2>1, <3>1 DEF WalkInv, s
    <3>3. ASSUME NEW g \in Dirs, Waiting(g), Below(f, g), Below(g, k)
          PROVE  Waiting(g)' /\ Below(g, f0) /\ g # f0
      BY <1>4, <1>11, <2>1, <3>3, ChildIs, ChildLower, BelowTrans
    <3> QED BY <1>6, <3>2, <3>3
  <2> QED BY <2>4, <2>5
<1>14. TypeOK'
  <2>1. Collected(f0) \subseteq Entries
    BY <1>3, <1>4, EntryFacts DEF Collected, LabsIn, Listed, ChildrenOf, TypeOK
  <2>2. found' \subseteq Entries /\ visited' \subseteq Dirs
    BY <1>2, <1>3, <1>4, <1>6, <2>1, EntryFacts DEF TypeOK
  <2> QED BY <1>3, <1>10, <2>2 DEF TypeOK, Waits
<1>15. TreeInv' /\ StayInv'
  BY <1>3 DEF TreeInv, StayInv, StaysIn, Present
<1>16. \A g \in Dirs : ParentVisited(g) => ParentVisited(g)'
  BY <1>3, <1>6 DEF ParentVisited
<1>17. QueueInv'
  <2>1. ASSUME NEW j \in DOMAIN queue'
        PROVE  \E k \in Dirs : /\ queue'[j].dir = k /\ Below(k, s) /\ queue'[j].depth = Depth(k, s)
                               /\ ParentVisited(k)'
    <3>1. CASE \E k \in DOMAIN queue : queue'[j] = queue[k]
      <4>1. PICK k \in DOMAIN queue : queue'[j] = queue[k]
        BY <3>1
      <4>2. PICK g \in Dirs : g = queue[k].dir
        BY <1>4
      <4> QED BY <1>3, <1>16, <4>1, <4>2 DEF QueueInv, s
    <3>2. CASE \E k \in DOMAIN n : queue'[j] = n[k]
      <4>1. PICK k \in Dirs : Child(k, f0) /\ queue'[j].dir = k /\ queue'[j].depth = d0 + 1
        BY <1>3, <1>8, <3>2 DEF ChildrenOf, TypeOK
      <4>2. Below(k, s) /\ d0 + 1 = Depth(k, s)
        BY <1>4, <1>7, <4>1, ChildIs, BelowTrans, DepthIs, PathType
      <4>3. ParentVisited(k)'
        BY <1>4, <1>6, <4>1, OneParent DEF ParentVisited
      <4> QED BY <4>1, <4>2, <4>3
    <3> QED BY <1>10, <3>1, <3>2
  <2> QED BY <1>3, <2>1 DEF QueueInv, s
<1>18. VisitedInv'
  <2>1. ASSUME NEW f \in visited PROVE Below(f, s) /\ Depth(f, s) <= MaxDepth /\ ParentVisited(f)'
    BY <1>3, <1>16 DEF VisitedInv, s, TypeOK
  <2>2. Below(f0, s) /\ Depth(f0, s) <= MaxDepth /\ ParentVisited(f0)'
    BY <1>4, <1>7, <1>16
  <2> QED BY <1>3, <1>6, <2>1, <2>2 DEF VisitedInv, s
<1>19. WalkInv'
  <2>1. s \in visited' \/ Waiting(s)'
    BY <1>3, <1>4, <1>6, <1>11 DEF WalkInv, s
  <2>2. ASSUME NEW h \in visited', NEW f \in StaysIn, Below(f, h), Depth(f, s) <= MaxDepth
        PROVE  f \in visited' \/ \E g \in Dirs : Waiting(g)' /\ Below(f, g) /\ Below(g, h) /\ g # h
    <3>1. CASE h = f0
      BY <1>6, <1>13, <2>2, <3>1
    <3>2. CASE h \in visited
      <4>1. f \in Dirs /\ h \in Dirs
        BY <1>3, <3>2 DEF StaysIn, TypeOK
      <4>2. f \in visited \/ \E g \in Dirs : Waiting(g) /\ Below(f, g) /\ Below(g, h) /\ g # h
        BY <1>3, <2>2, <3>2 DEF WalkInv, s
      <4>3. ASSUME NEW g \in Dirs, Waiting(g), Below(f, g), Below(g, h), g # h
            PROVE  f \in visited' \/ \E k \in Dirs : Waiting(k)' /\ Below(f, k) /\ Below(k, h) /\ k # h
        <5>1. CASE g # f0
          BY <1>11, <4>3, <5>1
        <5>2. CASE g = f0 /\ f # f0
          <6>1. ASSUME NEW k \in Dirs, Below(k, f0), k # f0 PROVE Below(k, h) /\ k # h
            BY <1>4, <4>1, <4>3, <5>2, <6>1, BelowTrans, BelowLower, PathType
          <6> QED BY <1>13, <2>2, <4>3, <5>2, <6>1
        <5> QED BY <1>6, <5>1, <5>2
      <4> QED BY <1>6, <4>2, <4>3
    <3> QED BY <1>6, <3>1, <3>2
  <2>3. StaysIn' = StaysIn
    BY <1>3 DEF StaysIn
  <2> QED BY <1>3, <2>1, <2>2, <2>3 DEF WalkInv, s
<1>20. FoundInv'
  <2>1. CASE arg.tool = "deleteFolder"
    <3>1. found' = found \cup AsEntries(ChildrenOf(f0) \ (visited \cup {f0}))
      BY <1>2, <2>1 DEF Collected, Listed
    <3>2. found' \subseteq AsEntries(Dirs)
      BY <1>3, <2>1, <3>1 DEF FoundInv, AsEntries, ChildrenOf, TypeOK
    <3>3. ASSUME NEW f \in StaysIn, NEW g \in visited', Child(f, g) PROVE EntryOf(f) \in found'
      <4>1. CASE g \in visited
        BY <1>3, <2>1, <3>1, <3>3, <4>1 DEF FoundInv, EntryOf
      <4>2. CASE g = f0
        <5>1. f \in Dirs /\ f \in folders
          BY <1>3, PresentFacts DEF StayInv, StaysIn, EntryOf
        <5>2. f # f0 /\ ~Below(f0, f)
          BY <1>4, <3>3, <4>2, <5>1, ChildLower
        <5>3. f \notin visited
          BY <1>3, <1>4, <1>5, <1>7, <3>3, <4>2, <5>1, <5>2 DEF VisitedInv, ParentVisited, s
        <5> QED BY <3>1, <3>3, <4>2, <5>1, <5>2, <5>3, EntryFacts DEF ChildrenOf
      <4> QED BY <1>6, <4>1, <4>2
    <3> QED BY <1>3, <2>1, <3>2, <3>3 DEF FoundInv, StaysIn, EntryOf
  <2>2. CASE arg.tool # "deleteFolder"
    <3>1. found' = found \cup LabsIn(f0) \cup x
      BY <1>2, <2>2 DEF Collected
    <3>2. ASSUME NEW l \in stays \cap Labs, l.in \in visited' PROVE l \in found'
      <4>1. l \in labs
        BY <1>3, PresentFacts DEF StayInv
      <4> QED BY <1>3, <1>6, <2>2, <3>1, <3>2, <4>1 DEF FoundInv, LabsIn
    <3> QED BY <1>3, <2>2, <3>2 DEF FoundInv
  <2> QED BY <2>1, <2>2
<1>21. RestInv' /\ TargetInv' /\ LateInv'
  BY <1>3 DEF RestInv, TargetInv, LateInv
<1> QED BY <1>14, <1>15, <1>17, <1>18, <1>19, <1>20, <1>21 DEF IInv
-----------------------------------------------------------------------------
(* What the tools do with it *)

\* Between a walk and the next one nothing of it is left.
LEMMA RestKeeps ==
  ASSUME pc' # "walk", visited' = {}, queue' = << >>, found' = {}, stays' = {},
         TypeOK', TreeInv', TargetInv', LateInv'
  PROVE  IInv'
<1>1. StaysIn' = {}
  BY DEF StaysIn
<1>2. StayInv' /\ QueueInv' /\ VisitedInv' /\ WalkInv' /\ FoundInv' /\ RestInv'
  BY <1>1 DEF StayInv, QueueInv, VisitedInv, WalkInv, FoundInv, Closed, RestInv
<1> QED BY <1>2 DEF IInv

\* A folder that is chosen is one: there are finitely many to choose from.
LEMMA OneFolder ==
  ASSUME NEW C, C \subseteq AsEntries(Dirs), Cardinality(C) = 1
  PROVE  \E f \in Dirs : C = AsEntries({f})
<1>1. IsFiniteSet(Dirs)
  <2>1. Dirs = 1 .. Len(Path) /\ Len(Path) \in Nat
    BY PathAssumption DEF Dirs
  <2> QED BY <2>1, FS_Interval
<1>2. IsFiniteSet(AsEntries(Dirs))
  <2> DEFINE entry == [f \in Dirs |-> EntryOf(f)]
  <2>1. entry \in [Dirs -> AsEntries(Dirs)] /\ \A e \in AsEntries(Dirs) : \E f \in Dirs : entry[f] = e
    BY EntryFacts
  <2>2. entry \in Surjection(Dirs, AsEntries(Dirs))
    BY <2>1 DEF Surjection
  <2> QED BY <1>1, <2>2, FS_Surjection
<1>3. IsFiniteSet(C)
  BY <1>2, FS_Subset
<1>4. PICK e : C = {e}
  BY <1>3, FS_Singleton
<1>5. e.in \in Dirs /\ e = EntryOf(e.in)
  BY <1>4, EntryFacts
<1> QED BY <1>4, <1>5, OneEntry

LEMMA DecideKeeps == ASSUME IInv, Decide PROVE IInv'
<1>1. TreeInv' /\ folders' \subseteq Dirs /\ labs' \subseteq Labs /\ arg' = arg /\ changes' = changes
  BY DEF IInv, TypeOK, TreeInv, Decide, serverVars
<1>2. CASE Finish("idle") \/ Finish("asked")
  BY <1>1, <1>2, FinishKeeps
<1>3. CASE /\ Cardinality(Chosen) = 1
           /\ pc' = IF arg.tool = "deleteLab" THEN "deleteLab" ELSE "readContents"
           /\ target' = Chosen /\ arg.tool # "listLabs"
           /\ visited' = {} /\ queue' = << >> /\ found' = {} /\ stays' = {}
           /\ UNCHANGED inTime
  <2>1. Chosen \subseteq found
    BY DEF Chosen
  <2>2. pc' \in {"deleteLab", "readContents"}
    BY <1>3
  <2>3. TypeOK'
    BY <1>1, <1>3, <2>1, <2>2 DEF IInv, TypeOK
  <2>4. TargetInv'
    <3>1. CASE arg.tool = "deleteLab"
      BY <1>3, <3>1 DEF TargetInv
    <3>2. CASE arg.tool # "deleteLab"
      <4>1. arg.tool = "deleteFolder"
        BY <1>3, <3>2 DEF IInv, TypeOK, RequestType
      <4>2. Chosen \subseteq AsEntries(Dirs)
        BY <2>1, <4>1 DEF IInv, FoundInv
      <4>3. \E f \in Dirs : target' = AsEntries({f})
        BY <1>3, <4>2, OneFolder
      <4> QED BY <4>3 DEF TargetInv
    <3> QED BY <3>1, <3>2
  <2>5. LateInv'
    BY <2>2 DEF LateInv
  <2> QED BY <1>1, <1>3, <2>2, <2>3, <2>4, <2>5, RestKeeps
<1> QED BY <1>2, <1>3 DEF Decide

LEMMA DeleteLabKeeps == ASSUME IInv, DeleteLab PROVE IInv'
<1>1. TreeInv' /\ folders' \subseteq Dirs /\ labs' \subseteq Labs
  BY DEF IInv, TypeOK, TreeInv, DeleteLab
<1> QED BY <1>1, FinishKeeps DEF DeleteLab

LEMMA TargetIs ==
  ASSUME NEW f \in Dirs, target = AsEntries({f})
  PROVE  TargetDir = f /\ EntryOf(f) \in target
<1>1. target = {EntryOf(f)} /\ EntryOf(f).in = f
  BY OneEntry DEF EntryOf
<1> QED BY <1>1 DEF TargetDir

\* A folder that is found empty has nothing below it either.
LEMMA ReadContentsKeeps == ASSUME IInv, ReadContents PROVE IInv'
<1>1. TypeOK /\ TreeInv /\ RestInv /\ TargetInv /\ pc = "readContents"
  BY DEF IInv, ReadContents
<1>2. TreeInv' /\ folders' = folders /\ labs' = labs /\ arg' = arg /\ changes' = changes
  BY <1>1 DEF TreeInv, ReadContents, serverVars
<1>3. CASE Finish("idle")
  BY <1>1, <1>2, <1>3, FinishKeeps DEF TypeOK
<1>4. CASE Contents(TargetDir) = {} /\ pc' = "deleteFolder" /\ UNCHANGED <<walkVars, target, stays, inTime>>
  <2>1. /\ visited' = {} /\ queue' = << >> /\ found' = {} /\ stays' = {}
        /\ target' = target /\ inTime' = inTime /\ pc' = "deleteFolder"
    BY <1>1, <1>4 DEF RestInv, walkVars
  <2>2. PICK d \in Dirs : target = AsEntries({d})
    BY <1>1 DEF TargetInv
  <2>3. TargetDir = d /\ EntryOf(d) \in target
    BY <2>2, TargetIs
  <2>4. ASSUME NEW e \in Present, Below(e.in, d) PROVE e \in target
    <3>1. e.in \in folders /\ e.in \in Dirs /\ (e \in labs \/ e = EntryOf(e.in))
      BY <1>1, PresentFacts, ClosedTree DEF TypeOK
    <3>2. e.in = d
      <4> SUFFICES ASSUME e.in # d PROVE FALSE
        OBVIOUS
      <4>1. PICK k \in Dirs : Child(k, d) /\ Below(e.in, k)
        BY <2>4, <3>1, WayDown
      <4>2. k \in folders
        BY <1>1, <3>1, <4>1 DEF TreeInv, Closed
      <4>3. EntryOf(k) \in Contents(d)
        BY <4>1, <4>2, EntryFacts DEF Contents, ChildrenOf
      <4> QED BY <1>4, <2>3, <4>3
    <3>3. e \notin labs
      BY <1>4, <2>3, <3>2 DEF Contents, LabsIn
    <3> QED BY <2>3, <3>1, <3>2, <3>3
  <2>5. Present' = Present /\ TargetDir' = d
    BY <1>2, <2>1, <2>3 DEF Present, TargetDir
  <2>6. LateInv'
    BY <2>1, <2>4, <2>5 DEF LateInv
  <2>7. TypeOK'
    BY <1>1, <1>2, <2>1 DEF TypeOK
  <2>8. TargetInv'
    <3>1. target' = AsEntries({d})
      BY <2>1, <2>2
    <3> QED BY <3>1 DEF TargetInv
  <2> QED BY <1>2, <2>1, <2>6, <2>7, <2>8, RestKeeps
<1> QED BY <1>3, <1>4 DEF ReadContents

\* Without a folder and all below it, the rest is still a tree.
LEMMA DropKeepsTree ==
  ASSUME TypeOK, TreeInv, NEW d \in Dirs, DropTree(d)
  PROVE  TreeInv' /\ folders' \subseteq Dirs /\ labs' \subseteq Labs
<1>1. folders' \subseteq Dirs /\ labs' \subseteq Labs /\ folders \subseteq Dirs
  BY DEF TypeOK, DropTree
<1>2. \A g \in folders : g \in folders' <=> ~Below(g, d)
  BY DEF DropTree, Within
<1>3. Closed(folders')
  BY <1>1, <1>2, BelowTrans DEF TreeInv, Closed, DropTree
<1>4. \A l \in labs' : l.in \in folders'
  BY DEF TreeInv, DropTree
<1> QED BY <1>1, <1>3, <1>4 DEF TreeInv

LEMMA DeleteFolderKeeps == ASSUME IInv, DeleteFolder PROVE IInv'
<1>1. TypeOK /\ TreeInv /\ TargetDir \in Dirs /\ DropTree(TargetDir)
  BY DEF IInv, DeleteFolder, TypeOK
<1> QED BY <1>1, DropKeepsTree, FinishKeeps DEF DeleteFolder

LEMMA EndKeeps == ASSUME IInv, Gone \/ Raise PROVE IInv'
<1>1. Finish("idle") /\ folders' = folders /\ labs' = labs /\ arg' = arg /\ changes' = changes
  BY DEF Gone, Raise, serverVars
<1>2. TreeInv'
  BY <1>1 DEF IInv, TreeInv
<1> QED BY <1>1, <1>2, FinishKeeps DEF IInv, TypeOK
-----------------------------------------------------------------------------
(* What the others do *)

\* A change elsewhere that leaves a tree leaves the invariant.
LEMMA ElsewhereKeeps ==
  ASSUME IInv, Elsewhere, TreeInv', folders' \subseteq Dirs, labs' \subseteq Labs
  PROVE  IInv'
<1>1. /\ TypeOK /\ StayInv /\ QueueInv /\ VisitedInv /\ WalkInv /\ FoundInv
      /\ RestInv /\ TargetInv /\ LateInv
  BY DEF IInv
<1>2. /\ pc' = pc /\ arg' = arg /\ visited' = visited /\ queue' = queue /\ found' = found
      /\ target' = target /\ stays' = stays \cap Present' /\ changes' = changes + 1
      /\ changes < MaxChanges
      /\ inTime' = IF pc = "deleteFolder" THEN inTime \cup (Present' \ Present) ELSE {}
  BY DEF Elsewhere, walkVars
<1>3. /\ Present' \subseteq Entries
      /\ \A f \in Dirs : EntryOf(f) \in Present' <=> f \in folders'
      /\ \A e \in Present' : e.in \in folders'
  <2>1. \A f : EntryOf(f).name = 0 /\ EntryOf(f).in = f
    BY DEF EntryOf
  <2> QED BY <2>1, EntryFacts DEF Present, TreeInv
<1>4. TypeOK'
  <2>1. changes' \in 0 .. MaxChanges
    BY <1>1, <1>2, FolderAssumption DEF TypeOK
  <2> QED BY <1>1, <1>2, <1>3, <2>1 DEF TypeOK
<1>5. \A f \in Dirs : f \in StaysIn' <=> f \in StaysIn /\ f \in folders'
  BY <1>2, <1>3 DEF StaysIn, EntryOf
<1>6. StayInv'
  <2>1. Closed(StaysIn')
    BY <1>1, <1>5 DEF StayInv, TreeInv, Closed, StaysIn
  <2>2. \A e \in stays' : e.in \in StaysIn'
    BY <1>1, <1>2, <1>3, <1>5 DEF StayInv
  <2> QED BY <1>2, <2>1, <2>2 DEF StayInv
<1>7. QueueInv' /\ VisitedInv' /\ RestInv'
  BY <1>1, <1>2 DEF QueueInv, VisitedInv, ParentVisited, RestInv
<1>8. StaysIn' \subseteq StaysIn
  BY <1>5 DEF StaysIn
<1>9. WalkInv' /\ FoundInv'
  BY <1>1, <1>2, <1>8 DEF WalkInv, Waiting, FoundInv
<1>10. TargetInv'
  BY <1>1, <1>2 DEF TargetInv
<1>11. LateInv'
  <2>1. TargetDir' = TargetDir
    BY <1>2 DEF TargetDir
  <2> QED BY <1>1, <1>2, <2>1 DEF LateInv
<1> QED BY <1>4, <1>6, <1>7, <1>9, <1>10, <1>11 DEF IInv

\* A child has above it what is above its parent, and itself.
LEMMA AboveChild ==
  \A f, g, h \in Dirs : Child(f, g) /\ Below(f, h) => h = f \/ Below(g, h)
<1> SUFFICES ASSUME NEW f \in Dirs, NEW g \in Dirs, NEW h \in Dirs, Child(f, g), Below(f, h), h # f
             PROVE  Below(g, h)
  OBVIOUS
<1>1. Below(f, g) /\ L(f) = L(g) + 1 /\ L(h) < L(f)
  BY ChildIs, BelowLower
<1>2. L(h) <= L(g)
  BY <1>1, PathType
<1> QED BY <1>1, <1>2, BelowLinear

LEMMA AddFolderTree ==
  ASSUME TypeOK, TreeInv, AddFolder PROVE TreeInv' /\ folders' \subseteq Dirs /\ labs' \subseteq Labs
<1>1. PICK f \in Dirs \ folders : /\ \E g \in folders \ {Running} : Child(f, g)
                                  /\ folders' = folders \cup {f} /\ labs' = labs
  BY DEF AddFolder
<1>2. PICK g \in folders : Child(f, g)
  BY <1>1
<1>3. folders \subseteq Dirs /\ labs \subseteq Labs /\ g \in Dirs
  BY <1>2 DEF TypeOK
<1>4. Closed(folders')
  BY <1>1, <1>2, <1>3, AboveChild DEF TreeInv, Closed
<1> QED BY <1>1, <1>3, <1>4 DEF TreeInv

\* Where a moved folder comes to be: its path has the new beginning and the old rest.
LEMMA MovedIs ==
  ASSUME NEW f \in Dirs, NEW g \in Dirs, NEW h \in Dirs, Below(h, f),
         \E k \in Dirs : Path[k] = Rebased(h, f, g)
  PROVE  /\ Moved(h, f, g) \in Dirs
         /\ L(Moved(h, f, g)) = L(g) + (L(h) - L(f))
         /\ \A i \in 1 .. L(g) : Path[Moved(h, f, g)][i] = Path[g][i]
         /\ \A i \in 1 .. L(h) - L(f) : Path[Moved(h, f, g)][L(g) + i] = Path[h][L(f) + i]
<1> DEFINE m == Moved(h, f, g)
           p == Path[h]
           q == Path[g]
           n == Len(Path[f])
           r == SubSeq(p, n + 1, Len(p))
<1>1. m \in Dirs /\ Path[m] = q \o r
  BY DEF Moved, Rebased
<1>2. /\ p \in Seq(STRING) /\ q \in Seq(STRING) /\ n \in Nat /\ n <= Len(p)
      /\ L(h) = Len(p) /\ L(g) = Len(q) /\ L(f) = n /\ L(m) = Len(Path[m])
  BY BelowLower, PathType DEF L
<1> HIDE DEF m, p, q, n
<1>3. r \in Seq(STRING) /\ Len(r) = Len(p) - n /\ \A i \in 1 .. Len(p) - n : r[i] = p[n + i]
  BY <1>2
<1> HIDE DEF r
<1>4. /\ Len(q \o r) = Len(q) + Len(r)
      /\ \A i \in 1 .. Len(q) + Len(r) : (q \o r)[i] = IF i <= Len(q) THEN q[i] ELSE r[i - Len(q)]
  <2>1. q \in Seq(STRING) /\ r \in Seq(STRING)
    BY <1>2, <1>3
  <2> QED BY ONLY <2>1, ConcatProperties
<1>5. L(m) = Len(q) + (Len(p) - n)
  BY <1>1, <1>2, <1>3, <1>4
<1>6. \A i \in 1 .. Len(q) : Path[m][i] = q[i]
  BY <1>1, <1>2, <1>3, <1>4
<1>7. ASSUME NEW i \in 1 .. Len(p) - n PROVE Path[m][Len(q) + i] = p[n + i]
  <2>1. Len(q) + i \in 1 .. Len(q) + Len(r) /\ ~(Len(q) + i <= Len(q)) /\ (Len(q) + i) - Len(q) = i
    BY <1>2, <1>3
  <2> QED BY <1>1, <1>3, <1>4, <2>1
<1>8. /\ L(m) = L(g) + (L(h) - L(f))
      /\ \A i \in 1 .. L(g) : Path[m][i] = q[i]
      /\ \A i \in 1 .. L(h) - L(f) : Path[m][L(g) + i] = p[L(f) + i]
  BY <1>2, <1>5, <1>6, <1>7
<1> QED BY <1>1, <1>8 DEF m, p, q

\* What was above a folder that is moved is above it in its new place: what was in
\* the moved tree comes along, and the rest is above the new place of the tree.
LEMMA MoveFolderTree ==
  ASSUME TypeOK, TreeInv, MoveFolder PROVE TreeInv' /\ folders' \subseteq Dirs /\ labs' \subseteq Labs
<1>1. PICK f \in folders \ {Root, Running}, g \in Dirs \ folders :
        /\ ~Below(g, f) /\ \E p \in folders \ {Running} : Child(g, p)
        /\ \A h \in Within({f}) : \E k \in Dirs : Path[k] = Rebased(h, f, g)
        /\ folders' = (folders \ Within({f})) \cup {Moved(h, f, g) : h \in Within({f})}
        /\ labs' = {IF l.in \in Within({f}) THEN [l EXCEPT !.in = Moved(l.in, f, g)] ELSE l : l \in labs}
  BY DEF MoveFolder
<1> DEFINE W == Within({f})
           M(h) == Moved(h, f, g)
<1>2. PICK p \in folders : Child(g, p)
  BY <1>1
<1>3. folders \subseteq Dirs /\ labs \subseteq Labs /\ f \in Dirs /\ g \in Dirs /\ p \in Dirs
  BY <1>2 DEF TypeOK
<1>4. \A h : h \in W <=> h \in folders /\ Below(h, f)
  BY DEF Within
<1>5. \A h \in W : /\ h \in Dirs /\ M(h) \in Dirs
                   /\ L(M(h)) = L(g) + (L(h) - L(f)) /\ L(f) <= L(h)
                   /\ \A i \in 1 .. L(g) : Path[M(h)][i] = Path[g][i]
                   /\ \A i \in 1 .. L(h) - L(f) : Path[M(h)][L(g) + i] = Path[h][L(f) + i]
  <2> SUFFICES ASSUME NEW h \in W
               PROVE  /\ h \in Dirs /\ M(h) \in Dirs
                      /\ L(M(h)) = L(g) + (L(h) - L(f)) /\ L(f) <= L(h)
                      /\ \A i \in 1 .. L(g) : Path[M(h)][i] = Path[g][i]
                      /\ \A i \in 1 .. L(h) - L(f) : Path[M(h)][L(g) + i] = Path[h][L(f) + i]
    OBVIOUS
  <2>1. h \in Dirs /\ Below(h, f) /\ L(f) <= L(h)
    BY <1>3, <1>4, BelowLower
  <2>2. \E k \in Dirs : Path[k] = Rebased(h, f, g)
    BY <1>1
  <2> QED BY <1>3, <2>1, <2>2, MovedIs
<1>6. folders' = (folders \ W) \cup {M(h) : h \in W}
  BY <1>1
<1>7. labs' = {IF l.in \in W THEN [l EXCEPT !.in = M(l.in)] ELSE l : l \in labs}
  BY <1>1
<1> HIDE DEF W, M
<1>8. f \in W /\ M(f) = g
  <2>1. f \in W
    BY <1>3, <1>4, BelowRefl
  <2>2. L(M(f)) = L(g)
    BY <1>3, <1>5, <2>1, PathType
  <2>3. M(f) = g
    BY <1>3, <1>5, <2>1, <2>2, SamePath
  <2> QED BY <2>1, <2>3
<1>9. \A y \in Dirs : Below(p, y) => y \in folders \ W
  <2> SUFFICES ASSUME NEW y \in Dirs, Below(p, y) PROVE y \in folders \ W
    OBVIOUS
  <2>1. y \in folders
    BY <1>2 DEF TreeInv, Closed
  <2>2. ASSUME Below(y, f) PROVE FALSE
    <3>1. Below(g, p)
      BY <1>2, <1>3, ChildIs
    <3> QED BY <1>1, <1>3, <2>2, <3>1, BelowTrans
  <2> QED BY <1>4, <2>1, <2>2
<1>10. ASSUME NEW x \in folders \ W, NEW y \in Dirs, Below(x, y) PROVE y \in folders'
  <2>1. y \in folders
    BY <1>10 DEF TreeInv, Closed
  <2>2. ~Below(y, f)
    BY <1>3, <1>4, <1>10, BelowTrans
  <2> QED BY <1>4, <1>6, <2>1, <2>2
<1>11. ASSUME NEW h \in W, NEW y \in Dirs, Below(M(h), y) PROVE y \in folders'
  <2>1. /\ h \in Dirs /\ M(h) \in Dirs /\ L(M(h)) = L(g) + (L(h) - L(f)) /\ L(f) <= L(h)
        /\ L(g) \in Nat /\ L(h) \in Nat /\ L(f) \in Nat /\ L(y) \in Nat /\ L(y) <= L(M(h))
    BY <1>3, <1>5, <1>11, BelowLower, PathType
  <2>2. CASE L(y) <= L(g)
    <3>1. Below(M(h), g)
      BY <1>3, <1>5, <2>1, BelowIs
    <3>2. Below(g, y)
      BY <1>3, <1>11, <2>1, <2>2, <3>1, BelowLinear
    <3>3. y = g \/ Below(p, y)
      BY <1>2, <1>3, <3>2, AboveChild
    <3> QED BY <1>6, <1>8, <1>9, <3>3
  <2>3. CASE ~(L(y) <= L(g))
    <3>1. L(f) + (L(y) - L(g)) \in 0 .. L(h)
      BY <2>1, <2>3
    <3>2. PICK k \in Dirs : L(k) = L(f) + (L(y) - L(g)) /\ Below(h, k)
      BY <2>1, <3>1, Ancestor
    <3>3. Below(h, f) /\ h \in folders
      BY <1>4
    <3>4. Below(k, f)
      BY <1>3, <2>1, <2>3, <3>2, <3>3, BelowLinear
    <3>5. k \in W
      BY <1>4, <2>1, <3>2, <3>3, <3>4 DEF TreeInv, Closed
    <3>6. M(k) \in Dirs /\ L(M(k)) = L(y) /\ L(k) - L(f) = L(y) - L(g)
      BY <1>5, <2>1, <3>2, <3>5
    <3>7. ASSUME NEW i \in 1 .. L(y) PROVE Path[M(k)][i] = Path[y][i]
      <4>1. Path[M(h)][i] = Path[y][i]
        BY <1>11, <2>1, BelowIs
      <4>2. CASE i <= L(g)
        <5>1. i \in 1 .. L(g)
          BY <2>1, <4>2
        <5> QED BY <1>5, <3>5, <4>1, <5>1
      <4>3. CASE ~(i <= L(g))
        <5>1. PICK j \in 1 .. L(y) - L(g) : L(g) + j = i
          <6>1. i - L(g) \in 1 .. L(y) - L(g) /\ L(g) + (i - L(g)) = i
            BY <2>1, <4>3
          <6> QED BY <6>1
        <5>2. j \in 1 .. L(k) - L(f) /\ j \in 1 .. L(h) - L(f) /\ L(f) + j \in 1 .. L(k)
          BY <2>1, <3>6, <3>2
        <5>3. Path[M(k)][i] = Path[k][L(f) + j]
          BY <1>5, <3>5, <5>1, <5>2
        <5>4. Path[M(h)][i] = Path[h][L(f) + j]
          BY <1>5, <5>1, <5>2
        <5>5. Path[h][L(f) + j] = Path[k][L(f) + j]
          BY <2>1, <3>2, <5>2, BelowIs
        <5> QED BY <4>1, <5>3, <5>4, <5>5
      <4> QED BY <4>2, <4>3
    <3>8. M(k) = y
      BY <3>6, <3>7, SamePath
    <3> QED BY <1>6, <3>5, <3>8
  <2> QED BY <2>2, <2>3
<1>12. Closed(folders')
  BY <1>6, <1>10, <1>11 DEF Closed
<1>13. folders' \subseteq Dirs
  BY <1>3, <1>5, <1>6
<1>14. labs' \subseteq Labs /\ \A l \in labs' : l.in \in folders'
  <2> SUFFICES ASSUME NEW l \in labs
               PROVE  LET k == IF l.in \in W THEN [l EXCEPT !.in = M(l.in)] ELSE l
                      IN  k \in Labs /\ k.in \in folders'
    BY <1>7
  <2>1. l \in Labs /\ l.in \in folders
    BY <1>3 DEF TreeInv
  <2>2. CASE l.in \in W
    <3>1. M(l.in) \in Dirs /\ M(l.in) \in folders'
      BY <1>5, <1>6, <2>2
    <3>2. [l EXCEPT !.in = M(l.in)] \in Labs /\ [l EXCEPT !.in = M(l.in)].in = M(l.in)
      BY <2>1, <3>1 DEF Labs
    <3> QED BY <2>2, <3>1, <3>2
  <2>3. CASE l.in \notin W
    BY <1>6, <2>1, <2>3
  <2> QED BY <2>2, <2>3
<1> QED BY <1>12, <1>13, <1>14 DEF TreeInv

LEMMA LabTree ==
  ASSUME TypeOK, TreeInv, AddLab \/ MoveLab PROVE TreeInv' /\ folders' \subseteq Dirs /\ labs' \subseteq Labs
<1>1. CASE AddLab
  BY <1>1 DEF TypeOK, TreeInv, AddLab, Closed
<1>2. CASE MoveLab
  <2>1. PICK l \in labs, f \in folders \ {Running} : labs' = (labs \ {l}) \cup {[l EXCEPT !.in = f]}
    BY <1>2 DEF MoveLab
  <2>2. [l EXCEPT !.in = f] \in Labs /\ [l EXCEPT !.in = f].in = f
    BY <2>1 DEF TypeOK, Labs
  <2> QED BY <1>2, <2>1, <2>2 DEF TypeOK, TreeInv, MoveLab
<1> QED BY <1>1, <1>2

LEMMA ElsewhereIInv == ASSUME IInv, Elsewhere PROVE IInv'
<1>1. TypeOK /\ TreeInv
  BY DEF IInv
<1>2. CASE AddFolder
  BY <1>1, <1>2, AddFolderTree, ElsewhereKeeps
<1>3. CASE MoveFolder
  BY <1>1, <1>3, MoveFolderTree, ElsewhereKeeps
<1>4. CASE RemoveFolder
  <2>1. PICK f \in folders : DropTree(f)
    BY <1>4 DEF RemoveFolder
  <2>2. f \in Dirs
    BY <1>1 DEF TypeOK
  <2> QED BY <1>1, <2>1, <2>2, DropKeepsTree, ElsewhereKeeps
<1>5. CASE AddLab \/ MoveLab
  BY <1>1, <1>5, LabTree, ElsewhereKeeps
<1> QED BY <1>2, <1>3, <1>4, <1>5 DEF Elsewhere
-----------------------------------------------------------------------------
(* The theorems *)

LEMMA NextIInv == ASSUME IInv, [Next]_vars PROVE IInv'
<1>1. CASE Ask
  BY <1>1, AskKeeps
<1>2. CASE Accept
  BY <1>2, AcceptKeeps
<1>3. CASE Raise \/ Gone
  BY <1>3, EndKeeps
<1>4. CASE Visit
  BY <1>4, VisitKeeps
<1>5. CASE Decide
  BY <1>5, DecideKeeps
<1>6. CASE DeleteLab
  BY <1>6, DeleteLabKeeps
<1>7. CASE ReadContents
  BY <1>7, ReadContentsKeeps
<1>8. CASE DeleteFolder
  BY <1>8, DeleteFolderKeeps
<1>9. CASE Elsewhere
  BY <1>9, ElsewhereIInv
<1>10. CASE UNCHANGED vars
  BY <1>10 DEF vars, serverVars, walkVars, IInv, TypeOK, TreeInv, StayInv, StaysIn, Present,
       QueueInv, VisitedInv, ParentVisited, WalkInv, Waiting, FoundInv, RestInv, TargetInv,
       LateInv, TargetDir
<1> QED BY <1>1, <1>2, <1>3, <1>4, <1>5, <1>6, <1>7, <1>8, <1>9, <1>10 DEF Next, Step

\* The inductive invariant: from every folder that a walk has listed, it has reached what
\* stays below, or a folder on the way there is still waiting.
THEOREM Invariance == Spec => []IInv
<1>1. Init => IInv
  BY InitIInv
<1>2. IInv /\ [Next]_vars => IInv'
  BY NextIInv
<1> QED BY <1>1, <1>2, PTL DEF Spec

\* When nothing waits any more, what stays has been reached.
LEMMA AllReached ==
  ASSUME IInv, pc = "walk", Exhausted, NEW f \in StaysIn,
         Below(f, arg.start), Depth(f, arg.start) <= MaxDepth
  PROVE  f \in visited
<1>1. \A g : ~Waiting(g)
  BY DEF Waiting, Exhausted
<1> QED BY <1>1 DEF IInv, WalkInv

\* A walk finds the labs that stay where they are.
THEOREM FindsLabs == Spec => []FindsLabsThatStay
<1>1. ASSUME IInv PROVE FindsLabsThatStay
  <2> SUFFICES ASSUME pc = "walk", Exhausted, arg.tool # "deleteFolder", NEW l \in stays \cap Labs,
                      Below(l.in, arg.start), Depth(l.in, arg.start) <= MaxDepth
               PROVE  l \in found
    BY DEF FindsLabsThatStay
  <2>1. l.in \in StaysIn
    BY <1>1 DEF IInv, StayInv
  <2>2. l.in \in visited
    BY <1>1, <2>1, AllReached
  <2> QED BY <1>1, <2>2 DEF IInv, FoundInv
<1> QED BY <1>1, Invariance, PTL

\* A walk finds the folders that stay, even those whose listing is not asked for any more.
THEOREM FindsFolders == Spec => []FindsFoldersThatStay
<1>1. ASSUME IInv PROVE FindsFoldersThatStay
  <2> SUFFICES ASSUME pc = "walk", Exhausted, arg.tool = "deleteFolder", NEW e \in stays \cap AsEntries(Dirs),
                      Below(e.in, arg.start), Depth(e.in, arg.start) \in 1 .. MaxDepth + 1
               PROVE  e \in found
    BY DEF FindsFoldersThatStay
  <2>1. e.in \in Dirs /\ e = EntryOf(e.in) /\ arg.start \in Dirs
    BY <1>1, EntryFacts DEF IInv, TypeOK, RequestType
  <2>2. e.in \in StaysIn
    BY <1>1 DEF IInv, StayInv
  <2>3. e.in # arg.start
    BY <2>1, DepthIs, PathType
  <2>4. PICK p \in Dirs : Child(e.in, p) /\ Below(p, arg.start)
    BY <2>1, <2>3, WayDown
  <2>5. p \in StaysIn
    BY <1>1, <2>2, <2>4, ChildIs, <2>1 DEF IInv, StayInv, Closed
  <2>6. Depth(p, arg.start) <= MaxDepth
    <3>1. L(e.in) = L(p) + 1 /\ L(p) \in Nat /\ L(arg.start) \in Nat
      BY <2>1, <2>4, ChildIs, PathType
    <3>2. Depth(e.in, arg.start) = L(e.in) - L(arg.start) /\ Depth(p, arg.start) = L(p) - L(arg.start)
      BY <2>1, <2>4, DepthIs
    <3>3. MaxDepth \in Nat
      BY FolderAssumption
    <3> QED BY <3>1, <3>2, <3>3
  <2>7. p \in visited
    BY <1>1, <2>4, <2>5, <2>6, AllReached
  <2> QED BY <1>1, <2>1, <2>2, <2>4, <2>7 DEF IInv, FoundInv, EntryOf
<1> QED BY <1>1, Invariance, PTL

\* A walk never leaves the folder it starts in.
THEOREM StaysBelow == Spec => []StaysBelowStart
<1>1. IInv => StaysBelowStart
  BY DEF IInv, VisitedInv, StaysBelowStart
<1> QED BY <1>1, Invariance, PTL

\* What delete_folder takes along came into the folder after the look at its contents.
THEOREM EmptyFolders == Spec => EmptyUnlessInTime
<1>1. ASSUME IInv, DeleteFolder PROVE Present \ Present' \subseteq target \cup inTime
  <2> SUFFICES ASSUME NEW e \in Present, e \notin Present' PROVE Below(e.in, TargetDir)
    BY <1>1 DEF IInv, LateInv, DeleteFolder
  <2>1. e.in \in folders /\ (e \in labs \/ e = EntryOf(e.in))
    BY <1>1, PresentFacts, ClosedTree DEF IInv
  <2>2. CASE ~Below(e.in, TargetDir)
    <3>1. e.in \in folders' /\ (e \in labs => e \in labs')
      BY <1>1, <2>1, <2>2 DEF DeleteFolder, DropTree, Within
    <3>2. e \in Present'
      BY <2>1, <3>1, EntryFacts DEF Present
    <3> QED BY <3>2
  <2> QED BY <2>2
<1>2. IInv /\ [Next]_vars => [DeleteFolder => Present \ Present' \subseteq target \cup inTime]_vars
  BY <1>1
<1> QED BY <1>2, Invariance, PTL DEF Spec, EmptyUnlessInTime
=============================================================================
