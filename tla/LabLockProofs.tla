--------------------------- MODULE LabLockProofs ----------------------------
(***************************************************************************)
(* Proofs about LabLock, for any sets of tasks and labs.                   *)
(***************************************************************************)
EXTENDS LabLock, TLAPS, SequenceTheorems, WellFoundedInduction

-----------------------------------------------------------------------------
(***************************************************************************)
(* Lemmas about the deque.                                                 *)
(***************************************************************************)

\* Removing the i-th entry of a deque keeps the others in their order.
LEMMA WithoutElements ==
  ASSUME NEW q \in Seq(Tasks), NEW i \in 1..Len(q)
  PROVE  /\ Without(q, i) \in Seq(Tasks)
         /\ Len(Without(q, i)) = Len(q) - 1
         /\ \A j \in 1..Len(q) - 1 :
              Without(q, i)[j] = IF j < i THEN q[j] ELSE q[j + 1]
<1> DEFINE a == SubSeq(q, 1, i - 1)
           b == SubSeq(q, i + 1, Len(q))
<1>1. a \in Seq(Tasks) /\ Len(a) = i - 1 /\ \A j \in 1..(i - 1) : a[j] = q[j]
  OBVIOUS
<1>2. b \in Seq(Tasks) /\ Len(b) = Len(q) - i /\ \A j \in 1..(Len(q) - i) : b[j] = q[j + i]
  OBVIOUS
<1> HIDE DEF a, b
<1>3. /\ a \o b \in Seq(Tasks)
      /\ Len(a \o b) = Len(a) + Len(b)
      /\ \A j \in 1..Len(a) + Len(b) :
           (a \o b)[j] = IF j <= Len(a) THEN a[j] ELSE b[j - Len(a)]
  BY <1>1, <1>2, ConcatProperties
<1>4. Len(q) \in Nat /\ Len(a) + Len(b) = Len(q) - 1
  BY <1>1, <1>2
<1>6. ASSUME NEW j \in 1..Len(q) - 1
      PROVE  (a \o b)[j] = IF j < i THEN q[j] ELSE q[j + 1]
  <2>1. (a \o b)[j] = IF j <= Len(a) THEN a[j] ELSE b[j - Len(a)]
    BY <1>3, <1>4
  <2>2. CASE j < i
    <3>1. j \in 1..(i - 1) /\ j <= Len(a)
      BY <1>1, <2>2
    <3> QED BY <1>1, <2>1, <2>2, <3>1
  <2>3. CASE ~(j < i)
    <3>1. ~(j <= Len(a)) /\ j - Len(a) = j - (i - 1)
      BY <1>1, <2>3
    <3>2. j - (i - 1) \in 1..(Len(q) - i) /\ (j - (i - 1)) + i = j + 1
      BY <2>3
    <3>3. b[j - (i - 1)] = q[(j - (i - 1)) + i]
      BY <1>2, <3>2
    <3>4. (a \o b)[j] = b[j - (i - 1)]
      BY <2>1, <3>1
    <3> QED BY <2>3, <3>2, <3>3, <3>4
  <2> QED BY <2>2, <2>3
<1>5. Without(q, i) = a \o b
  BY DEF Without, a, b
<1> QED BY <1>3, <1>4, <1>5, <1>6

\* In a deque without repetitions, removing an entry removes that task and no
\* other, and keeps the head unless the head is what was removed.
LEMMA RemoveWaiter ==
  ASSUME NEW q \in Seq(Tasks), NEW i \in 1..Len(q), Distinct(q)
  PROVE  /\ Without(q, i) \in Seq(Tasks)
         /\ Distinct(Without(q, i))
         /\ \A u \in Tasks : InQueue(Without(q, i), u) <=> InQueue(q, u) /\ u # q[i]
         /\ i # 1 => Without(q, i) # <<>> /\ Head(Without(q, i)) = Head(q)
<1> DEFINE r == Without(q, i)
<1>1. /\ r \in Seq(Tasks)
      /\ Len(r) = Len(q) - 1
      /\ \A j \in 1..Len(q) - 1 : r[j] = IF j < i THEN q[j] ELSE q[j + 1]
  BY WithoutElements
<1> HIDE DEF r
<1>2. Distinct(r)
  <2> SUFFICES ASSUME NEW j \in 1..Len(r), NEW k \in 1..Len(r), r[j] = r[k]
               PROVE  j = k
    BY DEF Distinct
  <2> DEFINE at(n) == IF n < i THEN n ELSE n + 1
  <2>1. /\ at(j) \in 1..Len(q) /\ at(k) \in 1..Len(q)
        /\ r[j] = q[at(j)] /\ r[k] = q[at(k)]
    BY <1>1
  <2>2. at(j) = at(k)
    <3> HIDE DEF at
    <3> QED BY <2>1 DEF Distinct
  <2> QED BY <2>2
<1>3. ASSUME NEW u \in Tasks PROVE InQueue(r, u) <=> InQueue(q, u) /\ u # q[i]
  <2>1. ASSUME InQueue(r, u) PROVE InQueue(q, u) /\ u # q[i]
    <3>1. PICK j \in 1..Len(r) : r[j] = u
      BY <2>1 DEF InQueue
    <3> QED BY <1>1, <3>1 DEF InQueue, Distinct
  <2>2. ASSUME InQueue(q, u), u # q[i] PROVE InQueue(r, u)
    <3>1. PICK j \in 1..Len(q) : q[j] = u /\ j # i
      BY <2>2 DEF InQueue
    <3>2. CASE j < i
      <4>1. j \in 1..Len(r) /\ r[j] = u
        BY <1>1, <3>1, <3>2
      <4> QED BY <4>1 DEF InQueue
    <3>3. CASE j > i
      <4>1. (j - 1) \in 1..Len(r) /\ r[j - 1] = u
        BY <1>1, <3>1, <3>3
      <4> QED BY <4>1 DEF InQueue
    <3> QED BY <3>1, <3>2, <3>3
  <2> QED BY <2>1, <2>2
<1>4. ASSUME i # 1 PROVE r # <<>> /\ Head(r) = Head(q)
  BY <1>1, <1>4
<1> QED BY <1>1, <1>2, <1>3, <1>4 DEF r

\* A new waiter goes to the back of the deque.
LEMMA AppendWaiter ==
  ASSUME NEW q \in Seq(Tasks), NEW t \in Tasks, Distinct(q), ~InQueue(q, t)
  PROVE  /\ Append(q, t) \in Seq(Tasks)
         /\ Distinct(Append(q, t))
         /\ \A u \in Tasks : InQueue(Append(q, t), u) <=> InQueue(q, u) \/ u = t
         /\ Append(q, t) # <<>>
         /\ q # <<>> => Head(Append(q, t)) = Head(q)
<1> DEFINE r == Append(q, t)
<1>1. /\ r \in Seq(Tasks)
      /\ Len(r) = Len(q) + 1
      /\ r[Len(q) + 1] = t
      /\ \A j \in 1..Len(q) : r[j] = q[j]
  OBVIOUS
<1> HIDE DEF r
<1>2. Distinct(r)
  BY <1>1 DEF Distinct, InQueue
<1>3. \A u \in Tasks : InQueue(r, u) <=> InQueue(q, u) \/ u = t
  <2> SUFFICES ASSUME NEW u \in Tasks PROVE InQueue(r, u) <=> InQueue(q, u) \/ u = t
    OBVIOUS
  <2>1. InQueue(r, u) => InQueue(q, u) \/ u = t
    BY <1>1 DEF InQueue
  <2>2. InQueue(q, u) => InQueue(r, u)
    BY <1>1 DEF InQueue
  <2>3. InQueue(r, t)
    <3>1. Len(q) + 1 \in 1..Len(r)
      BY <1>1
    <3> QED BY <1>1, <3>1 DEF InQueue
  <2> QED BY <2>1, <2>2, <2>3
<1>4. r # <<>> /\ (q # <<>> => Head(r) = Head(q))
  BY <1>1
<1> QED BY <1>1, <1>2, <1>3, <1>4 DEF r

\* The head of a deque is in it.
LEMMA HeadInQueue ==
  ASSUME NEW q \in Seq(Tasks), q # <<>>
  PROVE  Head(q) \in Tasks /\ InQueue(q, Head(q))
<1>1. 1 \in 1..Len(q) /\ Head(q) = q[1] /\ q[1] \in Tasks
  OBVIOUS
<1> QED BY <1>1 DEF InQueue

\* _wake_up_first changes the head's future from pending to set, and no other.
LEMMA WakeFirstEffect ==
  ASSUME NEW f \in [Tasks -> Futures], NEW q \in Seq(Tasks)
  PROVE  /\ WakeFirst(f, q) \in [Tasks -> Futures]
         /\ \A u \in Tasks :
              WakeFirst(f, q)[u] = IF q # <<>> /\ u = Head(q) /\ f[u] = "pending"
                                   THEN "set" ELSE f[u]
  BY HeadInQueue DEF WakeFirst, Futures

-----------------------------------------------------------------------------
(***************************************************************************)
(* The inductive invariant.                                                *)
(***************************************************************************)

LEMMA InitIInv == Init => IInv
<1> SUFFICES ASSUME Init PROVE IInv
  OBVIOUS
<1>1. TypeOK
  BY DEF Init, TypeOK, PCs, Futures
<1>2. \A l \in Labs, t \in Tasks : ~InQueue(waiters[l], t)
  BY DEF Init, InQueue
<1>3. \A l \in Labs : Distinct(waiters[l])
  BY DEF Init, Distinct
<1> QED
  BY <1>1, <1>2, <1>3 DEF Init, IInv, MutualExclusion, FlagInv, QueueInv, WokenInv,
     RegistryInv, NoLostWakeup

\* The lock that lab_lock finds, or creates, is the one the registry describes.
LEMMA Lookup ==
  ASSUME IInv, NEW l \in Labs
  PROVE  Held(l) = locked[l] /\ Queue(l) = waiters[l]
  BY DEF IInv, RegistryInv, TypeOK, Held, Queue

LEMMA EnterFreeStep ==
  ASSUME IInv, NEW t \in Tasks, NEW l \in Labs, EnterFree(t, l)
  PROVE  IInv'
<1> USE Lookup DEF EnterFree
<1>1. ~locked[l] /\ \A u \in Tasks : InQueue(waiters[l], u) => fut[u] = "cancelled"
  BY DEF MayTake, InQueue
<1>2. locked' = [locked EXCEPT ![l] = TRUE] /\ waiters' = waiters
  BY DEF IInv, TypeOK
<1>3. TypeOK'
  BY <1>2 DEF IInv, TypeOK, PCs
<1>4. MutualExclusion' /\ FlagInv'
  BY <1>1, <1>2 DEF IInv, TypeOK, MutualExclusion, FlagInv
<1>5. QueueInv'
  <2>1. \A u \in Tasks : fut'[u] # "none" <=> pc'[u] = "waiting"
    BY DEF IInv, TypeOK, QueueInv
  <2>2. \A u \in Tasks, m \in Labs :
          InQueue(waiters'[m], u) <=> pc'[u] = "waiting" /\ lab'[u] = m
    BY <1>2 DEF IInv, TypeOK, QueueInv
  <2> QED BY <1>2, <2>1, <2>2 DEF IInv, QueueInv
<1>6. WokenInv'
  <2> SUFFICES ASSUME NEW u \in Tasks, fut[u] \in {"set", "doomed"}
               PROVE  ~locked'[lab'[u]] /\ waiters'[lab'[u]] # <<>>
                      /\ Head(waiters'[lab'[u]]) = u
    BY DEF WokenInv
  <2>1. pc[u] = "waiting" /\ u # t /\ lab'[u] = lab[u]
    BY DEF IInv, TypeOK, QueueInv
  <2>2. lab[u] # l
    BY <1>1, <2>1 DEF IInv, QueueInv
  <2> QED BY <1>2, <2>1, <2>2 DEF IInv, TypeOK, WokenInv
<1>7. RegistryInv'
  BY <1>2 DEF IInv, TypeOK, RegistryInv
<1>8. NoLostWakeup'
  BY <1>2 DEF IInv, TypeOK, NoLostWakeup
<1> QED BY <1>3, <1>4, <1>5, <1>6, <1>7, <1>8 DEF IInv

LEMMA EnterWaitStep ==
  ASSUME IInv, NEW t \in Tasks, NEW l \in Labs, EnterWait(t, l)
  PROVE  IInv'
<1> USE Lookup DEF EnterWait
<1>1. waiters[l] \in Seq(Tasks) /\ Distinct(waiters[l]) /\ ~InQueue(waiters[l], t)
  BY DEF IInv, TypeOK, QueueInv
<1>2. locked' = locked /\ waiters' = [waiters EXCEPT ![l] = Append(waiters[l], t)]
  BY DEF IInv, TypeOK
<1> DEFINE q == Append(waiters[l], t)
<1>3. /\ q \in Seq(Tasks) /\ Distinct(q) /\ q # <<>>
      /\ \A u \in Tasks : InQueue(q, u) <=> InQueue(waiters[l], u) \/ u = t
      /\ waiters[l] # <<>> => Head(q) = Head(waiters[l])
  BY <1>1, AppendWaiter
<1>4. /\ waiters'[l] = q
      /\ \A m \in Labs : m # l => waiters'[m] = waiters[m]
  BY <1>2 DEF IInv, TypeOK
<1> HIDE DEF q
<1>5. TypeOK'
  BY <1>2, <1>3, <1>4 DEF IInv, TypeOK, PCs, Futures, q
<1>6. MutualExclusion' /\ FlagInv'
  BY <1>2 DEF IInv, TypeOK, MutualExclusion, FlagInv
<1>7. QueueInv'
  <2>1. \A u \in Tasks : fut'[u] # "none" <=> pc'[u] = "waiting"
    BY DEF IInv, TypeOK, QueueInv
  <2>2. ASSUME NEW u \in Tasks, NEW m \in Labs
        PROVE  InQueue(waiters'[m], u) <=> pc'[u] = "waiting" /\ lab'[u] = m
    <3>1. InQueue(waiters[m], u) <=> pc[u] = "waiting" /\ lab[u] = m
      BY DEF IInv, QueueInv
    <3>2. CASE m = l
      BY <1>3, <1>4, <3>1, <3>2 DEF IInv, TypeOK
    <3>3. CASE m # l
      BY <1>4, <3>1, <3>3 DEF IInv, TypeOK
    <3> QED BY <3>2, <3>3
  <2>3. \A m \in Labs : Distinct(waiters'[m])
    BY <1>3, <1>4 DEF IInv, QueueInv
  <2> QED BY <2>1, <2>2, <2>3 DEF QueueInv
<1>8. WokenInv'
  <2> SUFFICES ASSUME NEW u \in Tasks, fut'[u] \in {"set", "doomed"}
               PROVE  ~locked'[lab'[u]] /\ waiters'[lab'[u]] # <<>>
                      /\ Head(waiters'[lab'[u]]) = u
    BY DEF WokenInv
  <2>1. u # t /\ lab'[u] = lab[u] /\ fut[u] \in {"set", "doomed"} /\ lab[u] \in Labs
    BY DEF IInv, TypeOK
  <2>2. ~locked[lab[u]] /\ waiters[lab[u]] # <<>> /\ Head(waiters[lab[u]]) = u
    BY <2>1 DEF IInv, WokenInv
  <2> QED BY <1>2, <1>3, <1>4, <2>1, <2>2
<1>9. RegistryInv'
  BY <1>2, <1>4 DEF IInv, TypeOK, RegistryInv
<1>10. NoLostWakeup'
  <2> SUFFICES ASSUME NEW m \in Labs, ~locked[m], waiters'[m] # <<>>
               PROVE  fut'[Head(waiters'[m])] # "pending"
    BY <1>2 DEF NoLostWakeup
  <2>1. CASE m # l
    <3>1. waiters[m] \in Seq(Tasks) /\ waiters[m] # <<>> /\ fut[Head(waiters[m])] # "pending"
      BY <1>4, <2>1 DEF IInv, TypeOK, NoLostWakeup
    <3>2. Head(waiters[m]) \in Tasks /\ InQueue(waiters[m], Head(waiters[m]))
      BY <3>1, HeadInQueue
    <3>3. Head(waiters[m]) # t
      BY <3>2 DEF IInv, QueueInv
    <3> QED BY <1>4, <2>1, <3>1, <3>2, <3>3 DEF IInv, TypeOK
  <2>2. CASE m = l
    <3>1. waiters[l] # <<>>
      BY <2>2 DEF MayTake
    <3>2. fut[Head(waiters[l])] # "pending"
      BY <2>2, <3>1 DEF IInv, NoLostWakeup
    <3>3. Head(waiters[l]) \in Tasks /\ InQueue(waiters[l], Head(waiters[l]))
      BY <1>1, <3>1, HeadInQueue
    <3>4. Head(waiters[l]) # t
      BY <1>1, <3>3
    <3> QED BY <1>3, <1>4, <2>2, <3>1, <3>2, <3>3, <3>4 DEF IInv, TypeOK
  <2> QED BY <2>1, <2>2
<1> QED BY <1>5, <1>6, <1>7, <1>8, <1>9, <1>10 DEF IInv

LEMMA CancelStep ==
  ASSUME IInv, NEW t \in Tasks, Cancel(t)
  PROVE  IInv'
<1> USE DEF Cancel
<1>1. TypeOK'
  BY DEF IInv, TypeOK, Futures
<1>2. MutualExclusion' /\ FlagInv' /\ RegistryInv'
  BY DEF IInv, TypeOK, MutualExclusion, FlagInv, RegistryInv
<1>3. QueueInv'
  BY DEF IInv, TypeOK, QueueInv
<1>4. WokenInv'
  BY DEF IInv, TypeOK, WokenInv
<1>5. NoLostWakeup'
  <2> SUFFICES ASSUME NEW l \in Labs, ~locked[l], waiters[l] # <<>>
               PROVE  fut'[Head(waiters[l])] # "pending"
    BY DEF NoLostWakeup
  <2>1. Head(waiters[l]) \in Tasks
    BY HeadInQueue DEF IInv, TypeOK
  <2> QED BY <2>1 DEF IInv, TypeOK, NoLostWakeup
<1> QED BY <1>1, <1>2, <1>3, <1>4, <1>5 DEF IInv

LEMMA ResumeStep ==
  ASSUME IInv, NEW t \in Tasks, Resume(t)
  PROVE  IInv'
<1> DEFINE l == lab[t]
<1> USE DEF Resume
<1>1. PICK i \in 1..Len(waiters[l]) :
        waiters[l][i] = t /\ waiters' = [waiters EXCEPT ![l] = Without(@, i)]
  OBVIOUS
<1> DEFINE r == Without(waiters[l], i)
<1>2. l \in Labs /\ waiters[l] \in Seq(Tasks) /\ Distinct(waiters[l])
  BY DEF IInv, TypeOK, QueueInv
<1>3. /\ r \in Seq(Tasks) /\ Distinct(r)
      /\ \A u \in Tasks : InQueue(r, u) <=> InQueue(waiters[l], u) /\ u # t
  BY <1>1, <1>2, RemoveWaiter
<1>4. waiters'[l] = r /\ \A m \in Labs : m # l => waiters'[m] = waiters[m]
  BY <1>1, <1>2 DEF IInv, TypeOK
<1>5. ~locked[l] /\ \A u \in Tasks : ~(pc[u] = "inside" /\ lab[u] = l)
  BY <1>2 DEF IInv, WokenInv, FlagInv
<1>6. \A u \in Tasks : u # t /\ lab[u] = l => fut[u] \notin {"set", "doomed"}
  BY DEF IInv, WokenInv
<1>7. TypeOK'
  BY <1>1, <1>2, <1>3 DEF IInv, TypeOK, PCs, Futures
<1> HIDE DEF r
<1>8. MutualExclusion' /\ FlagInv'
  BY <1>2, <1>5 DEF IInv, TypeOK, MutualExclusion, FlagInv
<1>9. QueueInv'
  <2>1. \A u \in Tasks : fut'[u] # "none" <=> pc'[u] = "waiting"
    BY DEF IInv, TypeOK, QueueInv
  <2>2. ASSUME NEW u \in Tasks, NEW m \in Labs
        PROVE  InQueue(waiters'[m], u) <=> pc'[u] = "waiting" /\ lab'[u] = m
    <3>1. InQueue(waiters[m], u) <=> pc[u] = "waiting" /\ lab[u] = m
      BY DEF IInv, QueueInv
    <3>2. CASE m = l
      BY <1>3, <1>4, <3>1, <3>2 DEF IInv, TypeOK
    <3>3. CASE m # l
      BY <1>4, <3>1, <3>3 DEF IInv, TypeOK
    <3> QED BY <3>2, <3>3
  <2>3. \A m \in Labs : Distinct(waiters'[m])
    BY <1>3, <1>4 DEF IInv, QueueInv
  <2> QED BY <2>1, <2>2, <2>3 DEF QueueInv
<1>10. WokenInv'
  <2> SUFFICES ASSUME NEW u \in Tasks, fut'[u] \in {"set", "doomed"}
               PROVE  ~locked'[lab'[u]] /\ waiters'[lab'[u]] # <<>>
                      /\ Head(waiters'[lab'[u]]) = u
    BY DEF WokenInv
  <2>1. u # t /\ lab'[u] = lab[u] /\ fut[u] \in {"set", "doomed"} /\ lab[u] \in Labs
    BY DEF IInv, TypeOK
  <2>2. lab[u] # l
    BY <1>6, <2>1
  <2> QED BY <1>4, <2>1, <2>2 DEF IInv, TypeOK, WokenInv
<1>11. RegistryInv'
  BY <1>2, <1>4 DEF IInv, TypeOK, RegistryInv
<1>12. NoLostWakeup'
  <2> SUFFICES ASSUME NEW m \in Labs, ~locked'[m], waiters'[m] # <<>>
               PROVE  fut'[Head(waiters'[m])] # "pending"
    BY DEF NoLostWakeup
  <2>1. m # l /\ ~locked[m] /\ waiters'[m] = waiters[m]
    BY <1>2, <1>4 DEF IInv, TypeOK
  <2>2. fut[Head(waiters[m])] # "pending" /\ Head(waiters[m]) \in Tasks
    BY <2>1, HeadInQueue DEF IInv, TypeOK, NoLostWakeup
  <2> QED BY <2>1, <2>2 DEF IInv, TypeOK
<1> QED BY <1>7, <1>8, <1>9, <1>10, <1>11, <1>12 DEF IInv

LEMMA ResumeCancelledStep ==
  ASSUME IInv, NEW t \in Tasks, ResumeCancelled(t)
  PROVE  IInv'
<1> DEFINE l == lab[t]
<1> USE DEF ResumeCancelled
<1>1. PICK i \in 1..Len(waiters[l]) :
        /\ waiters[l][i] = t
        /\ waiters' = [waiters EXCEPT ![l] = Without(@, i)]
        /\ fut' = [IF locked[l] THEN fut ELSE WakeFirst(fut, Without(waiters[l], i))
                     EXCEPT ![t] = "none"]
  OBVIOUS
<1> DEFINE r == Without(waiters[l], i)
<1>2. l \in Labs /\ waiters[l] \in Seq(Tasks) /\ Distinct(waiters[l])
  BY DEF IInv, TypeOK, QueueInv
<1>3. /\ r \in Seq(Tasks) /\ Distinct(r)
      /\ \A u \in Tasks : InQueue(r, u) <=> InQueue(waiters[l], u) /\ u # t
      /\ i # 1 => r # <<>> /\ Head(r) = Head(waiters[l])
  BY <1>1, <1>2, RemoveWaiter
<1>4. waiters'[l] = r /\ \A m \in Labs : m # l => waiters'[m] = waiters[m]
  BY <1>1, <1>2 DEF IInv, TypeOK
<1>5. waiters' \in [Labs -> Seq(Tasks)]
  BY <1>1, <1>2, <1>3 DEF IInv, TypeOK
<1>6. i = 1 => Head(waiters[l]) = t
  BY <1>1, <1>2
<1> HIDE DEF r
\* What the step does to the futures.
<1>7. /\ fut' \in [Tasks -> Futures]
      /\ fut'[t] = "none"
      /\ \A u \in Tasks : u # t =>
           fut'[u] = IF ~locked[l] /\ r # <<>> /\ u = Head(r) /\ fut[u] = "pending"
                     THEN "set" ELSE fut[u]
  <2>1. /\ WakeFirst(fut, r) \in [Tasks -> Futures]
        /\ \A u \in Tasks :
             WakeFirst(fut, r)[u] = IF r # <<>> /\ u = Head(r) /\ fut[u] = "pending"
                                    THEN "set" ELSE fut[u]
    BY <1>3, WakeFirstEffect DEF IInv, TypeOK
  <2>2. fut' = [IF locked[l] THEN fut ELSE WakeFirst(fut, r) EXCEPT ![t] = "none"]
    BY <1>1 DEF r
  <2> QED BY <2>1, <2>2 DEF IInv, TypeOK, Futures
<1>8. r # <<>> => Head(r) \in Tasks /\ Head(r) # t /\ lab[Head(r)] = l /\ pc[Head(r)] = "waiting"
  BY <1>2, <1>3, HeadInQueue DEF IInv, QueueInv
<1>9. TypeOK'
  BY <1>5, <1>7 DEF IInv, TypeOK, PCs
<1>10. MutualExclusion' /\ FlagInv'
  BY DEF IInv, TypeOK, MutualExclusion, FlagInv
<1>11. QueueInv'
  <2>1. \A u \in Tasks : fut'[u] # "none" <=> pc'[u] = "waiting"
    BY <1>7 DEF IInv, TypeOK, QueueInv
  <2>2. ASSUME NEW u \in Tasks, NEW m \in Labs
        PROVE  InQueue(waiters'[m], u) <=> pc'[u] = "waiting" /\ lab'[u] = m
    <3>1. InQueue(waiters[m], u) <=> pc[u] = "waiting" /\ lab[u] = m
      BY DEF IInv, QueueInv
    <3>2. CASE m = l
      BY <1>3, <1>4, <3>1, <3>2 DEF IInv, TypeOK
    <3>3. CASE m # l
      BY <1>4, <3>1, <3>3 DEF IInv, TypeOK
    <3> QED BY <3>2, <3>3
  <2>3. \A m \in Labs : Distinct(waiters'[m])
    BY <1>3, <1>4 DEF IInv, QueueInv
  <2> QED BY <2>1, <2>2, <2>3 DEF QueueInv
<1>12. WokenInv'
  <2> SUFFICES ASSUME NEW u \in Tasks, fut'[u] \in {"set", "doomed"}
               PROVE  ~locked[lab[u]] /\ waiters'[lab[u]] # <<>>
                      /\ Head(waiters'[lab[u]]) = u
    BY DEF WokenInv
  <2>1. u # t /\ lab[u] \in Labs
    BY <1>7 DEF IInv, TypeOK
  <2>2. CASE fut[u] \in {"set", "doomed"}
    <3>1. ~locked[lab[u]] /\ waiters[lab[u]] # <<>> /\ Head(waiters[lab[u]]) = u
      BY <2>2 DEF IInv, WokenInv
    <3> QED BY <1>3, <1>4, <1>6, <2>1, <3>1
  <2>3. CASE fut[u] \notin {"set", "doomed"}
    <3>1. ~locked[l] /\ r # <<>> /\ u = Head(r)
      BY <1>7, <2>1, <2>3
    <3> QED BY <1>4, <1>8, <3>1
  <2> QED BY <2>2, <2>3
<1>13. RegistryInv'
  BY <1>2, <1>4 DEF IInv, TypeOK, RegistryInv
<1>14. NoLostWakeup'
  <2> SUFFICES ASSUME NEW m \in Labs, ~locked[m], waiters'[m] # <<>>
               PROVE  fut'[Head(waiters'[m])] # "pending"
    BY DEF NoLostWakeup
  <2>1. CASE m = l
    BY <1>4, <1>7, <1>8, <2>1
  <2>2. CASE m # l
    <3>1. waiters[m] \in Seq(Tasks) /\ waiters[m] # <<>> /\ waiters'[m] = waiters[m]
          /\ fut[Head(waiters[m])] # "pending"
      BY <1>4, <2>2 DEF IInv, TypeOK, NoLostWakeup
    <3>2. Head(waiters[m]) \in Tasks /\ lab[Head(waiters[m])] = m
      BY <3>1, HeadInQueue DEF IInv, QueueInv
    <3> QED BY <1>7, <1>8, <2>2, <3>1, <3>2
  <2> QED BY <2>1, <2>2
<1> QED BY <1>9, <1>10, <1>11, <1>12, <1>13, <1>14 DEF IInv

LEMMA ExitStep ==
  ASSUME IInv, NEW t \in Tasks, Exit(t)
  PROVE  IInv'
<1> DEFINE l == lab[t]
           q == waiters[l]
<1> USE DEF Exit
<1>1. l \in Labs /\ q \in Seq(Tasks) /\ locked[l]
  BY DEF IInv, TypeOK, FlagInv
<1>2. /\ fut' \in [Tasks -> Futures]
      /\ \A u \in Tasks :
           fut'[u] = IF q # <<>> /\ u = Head(q) /\ fut[u] = "pending" THEN "set" ELSE fut[u]
  BY <1>1, WakeFirstEffect DEF IInv, TypeOK
<1>3. q # <<>> => Head(q) \in Tasks /\ lab[Head(q)] = l /\ pc[Head(q)] = "waiting"
  BY <1>1, HeadInQueue DEF IInv, QueueInv
<1>4. TypeOK'
  BY <1>1, <1>2 DEF IInv, TypeOK, PCs
<1>5. MutualExclusion' /\ FlagInv'
  BY <1>1 DEF IInv, TypeOK, MutualExclusion, FlagInv
<1>6. QueueInv'
  BY <1>2 DEF IInv, TypeOK, QueueInv
<1>7. WokenInv'
  <2> SUFFICES ASSUME NEW u \in Tasks, fut'[u] \in {"set", "doomed"}
               PROVE  ~locked'[lab[u]] /\ waiters[lab[u]] # <<>> /\ Head(waiters[lab[u]]) = u
    BY DEF WokenInv
  <2>1. CASE fut[u] \in {"set", "doomed"}
    BY <2>1 DEF IInv, TypeOK, WokenInv
  <2>2. CASE fut[u] \notin {"set", "doomed"}
    BY <1>1, <1>2, <1>3, <2>2 DEF IInv, TypeOK
  <2> QED BY <2>1, <2>2
<1>8. RegistryInv'
  BY <1>1 DEF IInv, TypeOK, RegistryInv
<1>9. NoLostWakeup'
  <2> SUFFICES ASSUME NEW m \in Labs, ~locked'[m], waiters[m] # <<>>
               PROVE  fut'[Head(waiters[m])] # "pending"
    BY DEF NoLostWakeup
  <2>1. CASE m = l
    BY <1>2, <1>3, <2>1
  <2>2. CASE m # l
    <3>1. ~locked[m] /\ Head(waiters[m]) \in Tasks /\ fut[Head(waiters[m])] # "pending"
      BY <1>1, <2>2, HeadInQueue DEF IInv, TypeOK, NoLostWakeup
    <3> QED BY <1>2, <3>1
  <2> QED BY <2>1, <2>2
<1> QED BY <1>4, <1>5, <1>6, <1>7, <1>8, <1>9 DEF IInv

\* Every step of the registry and its locks preserves the invariant.
LEMMA NextIInv == IInv /\ [Next]_vars => IInv'
<1> SUFFICES ASSUME IInv, [Next]_vars PROVE IInv'
  OBVIOUS
<1>1. CASE Next
  BY <1>1, EnterFreeStep, EnterWaitStep, CancelStep, ResumeStep, ResumeCancelledStep,
     ExitStep DEF Next
<1>2. CASE UNCHANGED vars
  BY <1>2 DEF vars, IInv, TypeOK, MutualExclusion, FlagInv, QueueInv, WokenInv,
     RegistryInv, NoLostWakeup, InQueue, Distinct
<1> QED BY <1>1, <1>2

\* The invariant holds in every reachable state of lab_lock.
THEOREM Invariance == Spec => []IInv
  BY InitIInv, NextIInv, PTL DEF Spec

\* lab_lock keeps the blocks of two calls on one lab apart, for any number of
\* tasks and labs and whatever is cancelled.
THEOREM LabLockMutualExclusion == Spec => []MutualExclusion
<1>1. IInv => MutualExclusion
  BY DEF IInv
<1> QED BY <1>1, Invariance, PTL

\* lab_lock never strands a waiting call: a free lab with waiters always has a
\* scheduled task at the head of its deque.
THEOREM LabLockNoLostWakeup == Spec => []NoLostWakeup
<1>1. IInv => NoLostWakeup
  BY DEF IInv
<1> QED BY <1>1, Invariance, PTL
-----------------------------------------------------------------------------
(***************************************************************************)
(* What Only keeps of a deque.  Only is a recursive function; the lemmas   *)
(* are proved by the least counterexample, as NatMin gives it.             *)
(***************************************************************************)

\* A set of numbers that is not empty has a least element.
LEMMA NatMin ==
  ASSUME NEW T \in SUBSET Nat, T # {}
  PROVE  \E n \in T : \A m \in T : n <= m
<1> DEFINE R == OpToRel(<, Nat)
<1>1. IsWellFoundedOn(R, Nat)
  BY NatLessThanWellFounded
<1>2. \A m, n \in Nat : <<m, n>> \in R <=> m < n
  BY DEF OpToRel
<1> HIDE DEF R
<1>3. PICK n \in T : \A m \in T : ~(<<m, n>> \in R)
  BY <1>1, WFMin, Zenon
<1>4. \A m \in T : ~(m < n)
  BY <1>2, <1>3
<1> QED BY <1>4

\* The i-th value of the function that Only is defined by, from its others.
KeptAt(q, S, f, i) ==
  IF i = 0 THEN <<>> ELSE IF q[i] \in S THEN Append(f[i - 1], q[i]) ELSE f[i - 1]

Keeps(q, S, n, f) == f = [i \in 0..n |-> KeptAt(q, S, f, i)]

\* The recursion has a solution on every initial part of the deque.
LEMMA KeepsExists ==
  ASSUME NEW q, NEW S, NEW n \in Nat
  PROVE  \E f : Keeps(q, S, n, f)
<1> DEFINE T == {k \in Nat : ~\E f : Keeps(q, S, k, f)}
<1> SUFFICES ASSUME T # {} PROVE FALSE
  OBVIOUS
<1>1. PICK k \in T : \A m \in T : k <= m
  BY NatMin
<1>2. CASE k = 0
  <2> DEFINE f == [i \in 0..0 |-> <<>>]
  <2>1. Keeps(q, S, 0, f)
    BY DEF Keeps, KeptAt
  <2> QED BY <1>2, <2>1
<1>3. CASE k # 0
  <2>1. k - 1 \in Nat /\ k - 1 \notin T
    BY <1>1, <1>3
  <2>2. PICK f : Keeps(q, S, k - 1, f)
    BY <2>1
  <2> DEFINE g == [i \in 0..k |-> IF i = k THEN KeptAt(q, S, f, k) ELSE f[i]]
  <2>3. \A i \in 0..k : g[i] = KeptAt(q, S, g, i)
    <3> SUFFICES ASSUME NEW i \in 0..k PROVE g[i] = KeptAt(q, S, g, i)
      OBVIOUS
    <3>1. i # 0 => i - 1 \in 0..k /\ i - 1 # k /\ g[i - 1] = f[i - 1]
      OBVIOUS
    <3>2. KeptAt(q, S, g, i) = KeptAt(q, S, f, i)
      BY <3>1 DEF KeptAt
    <3>3. CASE i = k
      BY <3>2, <3>3
    <3>4. CASE i # k
      <4>1. i \in 0..(k - 1) /\ g[i] = f[i]
        BY <3>4
      <4>2. f[i] = KeptAt(q, S, f, i)
        BY <2>2, <4>1 DEF Keeps
      <4> QED BY <3>2, <4>1, <4>2
    <3> QED BY <3>3, <3>4
  <2>4. Keeps(q, S, k, g)
    <3> DEFINE h == [i \in 0..k |-> KeptAt(q, S, g, i)]
    <3>1. g = h
      BY <2>3
    <3> QED BY <3>1 DEF Keeps
  <2> QED BY <1>1, <2>4
<1> QED BY <1>2, <1>3

LEMMA KeepsAt ==
  ASSUME NEW q, NEW S, NEW n \in Nat, NEW f, Keeps(q, S, n, f), NEW i \in 0..n
  PROVE  f[i] = KeptAt(q, S, f, i)
<1> DEFINE h == [j \in 0..n |-> KeptAt(q, S, f, j)]
<1>1. f = h
  BY DEF Keeps
<1>2. h[i] = KeptAt(q, S, f, i)
  OBVIOUS
<1> HIDE DEF h
<1> QED BY <1>1, <1>2

LEMMA OnlyKeeps ==
  ASSUME NEW q \in Seq(Tasks), NEW S
  PROVE  \E f : Keeps(q, S, Len(q), f) /\ Only(q, S) = f[Len(q)]
<1> DEFINE f == CHOOSE f : Keeps(q, S, Len(q), f)
<1>1. Keeps(q, S, Len(q), f)
  <2>1. Len(q) \in Nat
    OBVIOUS
  <2> QED BY <2>1, KeepsExists, Zenon
<1>2. Only(q, S) = f[Len(q)]
  BY DEF Only, Keeps, KeptAt
<1> QED BY <1>1, <1>2

\* Solutions for deques that begin alike begin alike.
LEMMA KeepsUnique ==
  ASSUME NEW q, NEW r, NEW S, NEW m \in Nat, NEW n \in 0..m,
         NEW f, Keeps(q, S, n, f), NEW g, Keeps(r, S, m, g),
         \A i \in 1..n : q[i] = r[i]
  PROVE  \A i \in 0..n : f[i] = g[i]
<1> DEFINE T == {k \in 0..n : f[k] # g[k]}
<1> SUFFICES ASSUME T # {} PROVE FALSE
  OBVIOUS
<1>1. PICK k \in T : \A j \in T : k <= j
  <2>1. T \in SUBSET Nat
    OBVIOUS
  <2> HIDE DEF T
  <2> QED BY <2>1, NatMin
<1>2. f[k] = KeptAt(q, S, f, k) /\ g[k] = KeptAt(r, S, g, k)
  <2>1. k \in 0..n /\ k \in 0..m /\ n \in Nat
    OBVIOUS
  <2> QED BY <2>1, KeepsAt, Zenon
<1>3. k # 0 => f[k - 1] = g[k - 1] /\ q[k] = r[k]
  BY <1>1
<1>4. CASE k = 0
  BY <1>2, <1>4 DEF KeptAt
<1>5. CASE k # 0
  <2>1. f[k] = g[k]
    BY <1>2, <1>3, <1>5 DEF KeptAt
  <2> QED BY <1>1, <2>1
<1> QED BY <1>4, <1>5

\* What Only does with an empty deque, and with one more entry at the end.
LEMMA OnlyEmpty == ASSUME NEW S PROVE Only(<<>>, S) = <<>>
<1>1. <<>> \in Seq(Tasks) /\ Len(<<>>) = 0
  OBVIOUS
<1>2. PICK f : Keeps(<<>>, S, 0, f) /\ Only(<<>>, S) = f[0]
  BY <1>1, OnlyKeeps
<1> QED BY <1>2 DEF Keeps, KeptAt

LEMMA OnlyAppend ==
  ASSUME NEW q \in Seq(Tasks), NEW t \in Tasks, NEW S
  PROVE  Only(Append(q, t), S) = IF t \in S THEN Append(Only(q, S), t) ELSE Only(q, S)
<1> DEFINE r == Append(q, t)
           n == Len(q)
<1>1. /\ r \in Seq(Tasks) /\ Len(r) = n + 1 /\ n \in Nat /\ r[n + 1] = t
      /\ \A i \in 1..n : q[i] = r[i]
  OBVIOUS
<1> HIDE DEF r, n
<1>2. PICK f : Keeps(q, S, n, f) /\ Only(q, S) = f[n]
  BY OnlyKeeps DEF n
<1>3. PICK g : Keeps(r, S, n + 1, g) /\ Only(r, S) = g[n + 1]
  BY <1>1, OnlyKeeps
<1>4. n \in 0..n + 1 /\ n + 1 \in Nat /\ n \in 0..n /\ n + 1 \in 0..n + 1
  BY <1>1
<1>5. f[n] = g[n]
  <2> DEFINE m == n + 1
  <2>1. m \in Nat /\ n \in 0..m /\ Keeps(q, S, n, f) /\ Keeps(r, S, m, g)
    BY <1>2, <1>3, <1>4
  <2> HIDE DEF m
  <2>2. \A i \in 0..n : f[i] = g[i]
    BY <1>1, <2>1, KeepsUnique, SMT
  <2> QED BY <1>4, <2>2
<1>6. g[n + 1] = KeptAt(r, S, g, n + 1)
  BY <1>3, <1>4, KeepsAt, Zenon
<1> QED BY <1>1, <1>2, <1>3, <1>5, <1>6 DEF KeptAt, r
\* A set of deques with the empty one, and with q also every q with one more
\* entry, has them all.
LEMMA DequeInduction ==
  ASSUME NEW A \in SUBSET Seq(Tasks), <<>> \in A,
         \A q \in A, t \in Tasks : Append(q, t) \in A
  PROVE  Seq(Tasks) \subseteq A
<1> DEFINE T == {n \in Nat : \E q \in Seq(Tasks) : q \notin A /\ Len(q) = n}
<1> SUFFICES ASSUME NEW q \in Seq(Tasks), q \notin A PROVE FALSE
  OBVIOUS
<1>1. Len(q) \in T
  OBVIOUS
<1>2. PICK n \in T : \A m \in T : n <= m
  <2>1. T \in SUBSET Nat /\ T # {}
    BY <1>1
  <2> HIDE DEF T
  <2> QED BY <2>1, NatMin
<1>3. PICK r \in Seq(Tasks) : r \notin A /\ Len(r) = n
  OBVIOUS
<1>4. PICK s \in Seq(Tasks), t \in Tasks : r = Append(s, t)
  BY <1>3, SequenceEmptyOrAppend
<1>5. Len(s) \in Nat /\ Len(s) < n
  <2>1. Len(s) \in Nat /\ Len(r) = Len(s) + 1
    BY <1>4
  <2> QED BY <1>3, <2>1
<1>6. s \in A
  BY <1>2, <1>5
<1> QED BY <1>3, <1>4, <1>6

LEMMA OnlyType ==
  ASSUME NEW q \in Seq(Tasks), NEW S
  PROVE  Only(q, S) \in Seq(Tasks)
<1> DEFINE A == {r \in Seq(Tasks) : Only(r, S) \in Seq(Tasks)}
<1>1. <<>> \in A
  <2>1. <<>> \in Seq(Tasks)
    OBVIOUS
  <2> QED BY <2>1, OnlyEmpty, Zenon
<1>2. ASSUME NEW r \in A, NEW t \in Tasks PROVE Append(r, t) \in A
  <2>1. Append(r, t) \in Seq(Tasks) /\ Append(Only(r, S), t) \in Seq(Tasks)
    OBVIOUS
  <2>2. Only(Append(r, t), S) = IF t \in S THEN Append(Only(r, S), t) ELSE Only(r, S)
    BY OnlyAppend
  <2> QED BY <2>1, <2>2
<1>3. A \in SUBSET Seq(Tasks)
  OBVIOUS
<1>4. Seq(Tasks) \subseteq A
  <2> HIDE DEF A
  <2> QED BY <1>1, <1>2, <1>3, DequeInduction
<1> QED BY <1>4

\* Only goes through a deque from its head to its end.
LEMMA OnlyConcat ==
  ASSUME NEW p \in Seq(Tasks), NEW q \in Seq(Tasks), NEW S
  PROVE  Only(p \o q, S) = Only(p, S) \o Only(q, S)
<1> DEFINE A == {r \in Seq(Tasks) : Only(p \o r, S) = Only(p, S) \o Only(r, S)}
<1>1. <<>> \in A
  BY OnlyEmpty, OnlyType, ConcatEmptySeq
<1>2. ASSUME NEW r \in A, NEW t \in Tasks PROVE Append(r, t) \in A
  <2>1. p \o Append(r, t) = Append(p \o r, t) /\ p \o r \in Seq(Tasks) /\ Append(r, t) \in Seq(Tasks)
    OBVIOUS
  <2>2. Only(p \o Append(r, t), S) = IF t \in S THEN Append(Only(p, S) \o Only(r, S), t)
                                     ELSE Only(p, S) \o Only(r, S)
    <3>1. Only(p \o r, S) = Only(p, S) \o Only(r, S)
      OBVIOUS
    <3> DEFINE z == p \o r
    <3>2. z \in Seq(Tasks) /\ p \o Append(r, t) = Append(z, t)
      BY <2>1
    <3> HIDE DEF z
    <3>3. Only(Append(z, t), S) = IF t \in S THEN Append(Only(z, S), t) ELSE Only(z, S)
      BY <3>2, OnlyAppend
    <3> QED BY <3>1, <3>2, <3>3 DEF z
  <2>3. Only(Append(r, t), S) = IF t \in S THEN Append(Only(r, S), t) ELSE Only(r, S)
    BY OnlyAppend
  <2>4. Only(p, S) \in Seq(Tasks) /\ Only(r, S) \in Seq(Tasks)
    BY OnlyType
  <2> HIDE DEF A
  <2>5. Append(Only(p, S) \o Only(r, S), t) = Only(p, S) \o Append(Only(r, S), t)
    <3> DEFINE x == Only(p, S)
               y == Only(r, S)
    <3>1. x \in Seq(Tasks) /\ y \in Seq(Tasks) /\ <<t>> \in Seq(Tasks) /\ x \o y \in Seq(Tasks)
      BY <2>4
    <3> HIDE DEF x, y
    <3>2. Append(x \o y, t) = (x \o y) \o <<t>> /\ Append(y, t) = y \o <<t>>
      BY <3>1, AppendIsConcat
    <3>3. (x \o y) \o <<t>> = x \o (y \o <<t>>)
      BY <3>1, ConcatAssociative
    <3> QED BY <3>2, <3>3 DEF x, y
  <2> USE DEF A
  <2> QED BY <2>1, <2>2, <2>3, <2>5
<1>3. A \in SUBSET Seq(Tasks)
  OBVIOUS
<1>4. Seq(Tasks) \subseteq A
  <2> HIDE DEF A
  <2> QED BY <1>1, <1>2, <1>3, DequeInduction
<1> QED BY <1>4

LEMMA OnlySame ==
  ASSUME NEW q \in Seq(Tasks), NEW S, NEW T,
         \A u \in Tasks : InQueue(q, u) => (u \in S <=> u \in T)
  PROVE  Only(q, S) = Only(q, T)
<1> DEFINE A == {r \in Seq(Tasks) :
                   (\A u \in Tasks : InQueue(r, u) => (u \in S <=> u \in T))
                     => Only(r, S) = Only(r, T)}
<1>1. <<>> \in A
  BY OnlyEmpty
<1>2. ASSUME NEW r \in A, NEW t \in Tasks PROVE Append(r, t) \in A
  <2>1. InQueue(Append(r, t), t) /\ \A u \in Tasks : InQueue(r, u) => InQueue(Append(r, t), u)
    <3>1. /\ Len(Append(r, t)) = Len(r) + 1 /\ Append(r, t)[Len(r) + 1] = t
          /\ \A i \in 1..Len(r) : Append(r, t)[i] = r[i]
          /\ Len(r) \in Nat
      OBVIOUS
    <3>2. Len(r) + 1 \in 1..Len(r) + 1 /\ \A i \in 1..Len(r) : i \in 1..Len(r) + 1
      BY <3>1
    <3> QED BY <3>1, <3>2 DEF InQueue
  <2>2. /\ Only(Append(r, t), S) = IF t \in S THEN Append(Only(r, S), t) ELSE Only(r, S)
        /\ Only(Append(r, t), T) = IF t \in T THEN Append(Only(r, T), t) ELSE Only(r, T)
    BY OnlyAppend
  <2>3. Append(r, t) \in Seq(Tasks)
    OBVIOUS
  <2>4. ASSUME \A u \in Tasks : InQueue(Append(r, t), u) => (u \in S <=> u \in T)
        PROVE  Only(Append(r, t), S) = Only(Append(r, t), T)
    <3>1. t \in S <=> t \in T
      BY <2>1, <2>4
    <3>2. Only(r, S) = Only(r, T)
      BY <2>1, <2>4
    <3> QED BY <2>2, <3>1, <3>2
  <2> QED BY <2>3, <2>4
<1>3. A \in SUBSET Seq(Tasks)
  OBVIOUS
<1>4. Seq(Tasks) \subseteq A
  <2> HIDE DEF A
  <2> QED BY <1>1, <1>2, <1>3, DequeInduction
<1> QED BY <1>4

\* What Only keeps is in the deque and in S.
LEMMA OnlyMembers ==
  ASSUME NEW q \in Seq(Tasks), NEW S, NEW u \in Tasks, InQueue(Only(q, S), u)
  PROVE  InQueue(q, u) /\ u \in S
<1> DEFINE A == {r \in Seq(Tasks) : InQueue(Only(r, S), u) => InQueue(r, u) /\ u \in S}
<1>1. <<>> \in A
  BY OnlyEmpty DEF InQueue
<1>2. ASSUME NEW r \in A, NEW t \in Tasks PROVE Append(r, t) \in A
  <2>1. \A s \in Seq(Tasks) : InQueue(Append(s, t), u) <=> InQueue(s, u) \/ u = t
    <3> SUFFICES ASSUME NEW s \in Seq(Tasks)
                 PROVE  InQueue(Append(s, t), u) <=> InQueue(s, u) \/ u = t
      OBVIOUS
    <3>1. /\ Len(Append(s, t)) = Len(s) + 1 /\ Append(s, t)[Len(s) + 1] = t
          /\ \A i \in 1..Len(s) : Append(s, t)[i] = s[i]
          /\ Len(s) \in Nat
      OBVIOUS
    <3>2. Len(s) + 1 \in 1..Len(s) + 1 /\ \A i \in 1..Len(s) + 1 : i \in 1..Len(s) \/ i = Len(s) + 1
      BY <3>1
    <3>3. \A i \in 1..Len(s) : i \in 1..Len(s) + 1
      BY <3>1
    <3> QED BY <3>1, <3>2, <3>3 DEF InQueue
  <2>2. Only(Append(r, t), S) = IF t \in S THEN Append(Only(r, S), t) ELSE Only(r, S)
    BY OnlyAppend
  <2>3. r \in Seq(Tasks) /\ Append(r, t) \in Seq(Tasks) /\ Only(r, S) \in Seq(Tasks)
    BY OnlyType
  <2>4. InQueue(Only(r, S), u) => InQueue(r, u) /\ u \in S
    OBVIOUS
  <2>5. InQueue(Append(r, t), u) <=> InQueue(r, u) \/ u = t
    BY <2>1, <2>3
  <2>6. ASSUME InQueue(Only(Append(r, t), S), u) PROVE InQueue(Append(r, t), u) /\ u \in S
    <3>1. CASE t \in S
      <4>1. InQueue(Append(Only(r, S), t), u)
        BY <2>2, <2>6, <3>1
      <4>2. InQueue(Only(r, S), u) \/ u = t
        BY <2>1, <2>3, <4>1, Zenon
      <4> QED BY <2>4, <2>5, <3>1, <4>2
    <3>2. CASE t \notin S
      <4>1. InQueue(Only(r, S), u)
        BY <2>2, <2>6, <3>2
      <4> QED BY <2>4, <2>5, <4>1
    <3> QED BY <3>1, <3>2
  <2> QED BY <2>3, <2>6
<1>3. A \in SUBSET Seq(Tasks)
  OBVIOUS
<1>4. Seq(Tasks) \subseteq A
  <2> HIDE DEF A
  <2> QED BY <1>1, <1>2, <1>3, DequeInduction
<1> QED BY <1>4

LEMMA OnlyNone ==
  ASSUME NEW q \in Seq(Tasks), NEW S, \A u \in Tasks : InQueue(q, u) => u \notin S
  PROVE  Only(q, S) = <<>>
<1> SUFFICES ASSUME Only(q, S) # <<>> PROVE FALSE
  OBVIOUS
<1>1. Only(q, S) \in Seq(Tasks)
  BY OnlyType
<1>2. Head(Only(q, S)) \in Tasks /\ InQueue(Only(q, S), Head(Only(q, S)))
  BY <1>1, HeadInQueue
<1> QED BY <1>2, OnlyMembers

\* The deque before, at and after its i-th entry, in which the task at i is
\* nowhere else.
LEMMA Split ==
  ASSUME NEW q \in Seq(Tasks), NEW i \in 1..Len(q), Distinct(q)
  PROVE  \E p, r \in Seq(Tasks) :
           /\ q = (p \o <<q[i]>>) \o r /\ Without(q, i) = p \o r /\ q[i] \in Tasks
           /\ \A u \in Tasks : InQueue(p, u) \/ InQueue(r, u) => u # q[i]
           /\ i = 1 => p = <<>>
<1> DEFINE p == SubSeq(q, 1, i - 1)
           r == SubSeq(q, i + 1, Len(q))
           o == <<q[i]>>
<1>1. p \in Seq(Tasks) /\ Len(p) = i - 1 /\ \A j \in 1..(i - 1) : p[j] = q[j]
  OBVIOUS
<1>2. r \in Seq(Tasks) /\ Len(r) = Len(q) - i /\ \A j \in 1..(Len(q) - i) : r[j] = q[j + i]
  OBVIOUS
<1>3. o \in Seq(Tasks) /\ Len(o) = 1 /\ o[1] = q[i] /\ q[i] \in Tasks
  OBVIOUS
<1>4. Without(q, i) = p \o r
  BY DEF Without
<1>9. Len(q) \in Nat
  OBVIOUS
<1> HIDE DEF p, r, o
<1> DEFINE x == p \o o
           z == x \o r
<1>5. x \in Seq(Tasks) /\ Len(x) = i /\ \A j \in 1..i : x[j] = IF j < i THEN p[j] ELSE o[1]
  <2>1. /\ x \in Seq(Tasks) /\ Len(x) = Len(p) + Len(o)
        /\ \A j \in 1..Len(p) + Len(o) : x[j] = IF j <= Len(p) THEN p[j] ELSE o[j - Len(p)]
    BY <1>1, <1>3, ConcatProperties
  <2> HIDE DEF x
  <2>2. Len(p) + Len(o) = i
    BY <1>1, <1>3
  <2>3. ASSUME NEW j \in 1..i PROVE x[j] = IF j < i THEN p[j] ELSE o[1]
    <3>1. x[j] = IF j <= Len(p) THEN p[j] ELSE o[j - Len(p)]
      BY <2>1, <2>2
    <3>2. CASE j < i
      BY <1>1, <3>1, <3>2
    <3>3. CASE ~(j < i)
      <4>1. j = i /\ ~(j <= Len(p)) /\ j - Len(p) = 1
        BY <1>1, <3>3
      <4> QED BY <3>1, <3>3, <4>1
    <3> QED BY <3>2, <3>3
  <2> QED BY <2>1, <2>2, <2>3
<1> HIDE DEF x
<1>6. /\ z \in Seq(Tasks) /\ Len(z) = Len(q)
      /\ \A j \in 1..Len(q) : z[j] = IF j <= i THEN x[j] ELSE r[j - i]
  <2>1. /\ z \in Seq(Tasks) /\ Len(z) = Len(x) + Len(r)
        /\ \A j \in 1..Len(x) + Len(r) : z[j] = IF j <= Len(x) THEN x[j] ELSE r[j - Len(x)]
    BY <1>2, <1>5, ConcatProperties
  <2> HIDE DEF z
  <2>2. Len(x) + Len(r) = Len(q)
    BY <1>2, <1>5, <1>9
  <2> QED BY <1>5, <2>1, <2>2
<1> HIDE DEF z
<1>7. q = z
  <2>1. ASSUME NEW j \in 1..Len(q) PROVE z[j] = q[j]
    <3>0. i \in Int /\ j \in Int /\ z[j] = IF j <= i THEN x[j] ELSE r[j - i]
      BY <1>6, <1>9
    <3>1. CASE j < i
      BY <1>1, <1>5, <1>9, <3>0, <3>1
    <3>2. CASE j = i
      BY <1>3, <1>5, <1>9, <3>0, <3>2
    <3>3. CASE j > i
      <4>1. j - i \in 1..(Len(q) - i) /\ (j - i) + i = j
        BY <1>9, <3>3
      <4>2. r[j - i] = q[j]
        BY <1>2, <4>1
      <4> QED BY <3>0, <3>3, <4>2
    <3> QED BY <3>0, <3>1, <3>2, <3>3
  <2> QED BY <1>6, <2>1, SeqEqual
<1>8. ASSUME NEW u \in Tasks, InQueue(p, u) \/ InQueue(r, u) PROVE u # q[i]
  <2>1. CASE InQueue(p, u)
    BY <1>1, <1>9, <2>1 DEF InQueue, Distinct
  <2>2. CASE InQueue(r, u)
    <3>1. PICK j \in 1..(Len(q) - i) : q[j + i] = u
      BY <1>2, <2>2 DEF InQueue
    <3>2. j + i \in 1..Len(q) /\ j + i # i
      BY <1>9
    <3> QED BY <3>1, <3>2 DEF Distinct
  <2> QED BY <1>8, <2>1, <2>2
<1>10. i = 1 => p = <<>>
  BY <1>1
<1> QED BY <1>1, <1>2, <1>3, <1>4, <1>7, <1>8, <1>10 DEF o, x, z

\* What Only keeps of q before and after the i-th entry, for S, and without
\* that entry, for T.
Parted(q, i, S, T) ==
  \E a, b \in Seq(Tasks) :
    /\ Only(q, S) = IF q[i] \in S THEN (a \o <<q[i]>>) \o b ELSE a \o b
    /\ Only(Without(q, i), T) = a \o b
    /\ q[i] \notin T => Only(q, T) = a \o b
    /\ i = 1 => a = <<>>

\* Removing an entry removes it from what Only keeps, and nothing else.
LEMMA OnlyWithout ==
  ASSUME NEW q \in Seq(Tasks), NEW i \in 1..Len(q), Distinct(q), NEW S, NEW T,
         \A u \in Tasks \ {q[i]} : InQueue(q, u) => (u \in S <=> u \in T)
  PROVE  Parted(q, i, S, T)
<1>1. PICK p \in Seq(Tasks), r \in Seq(Tasks) :
        /\ q = (p \o <<q[i]>>) \o r /\ Without(q, i) = p \o r /\ q[i] \in Tasks
        /\ \A u \in Tasks : InQueue(p, u) \/ InQueue(r, u) => u # q[i]
        /\ i = 1 => p = <<>>
  BY Split
<1> DEFINE t == q[i]
           o == <<t>>
           po == p \o o
<1>2. o \in Seq(Tasks) /\ po \in Seq(Tasks) /\ t \in Tasks /\ q = po \o r
  BY <1>1
<1>3. \A u \in Tasks : InQueue(p, u) \/ InQueue(r, u) => InQueue(q, u)
  <2> SUFFICES ASSUME NEW u \in Tasks, InQueue(p, u) \/ InQueue(r, u) PROVE InQueue(q, u)
    OBVIOUS
  <2>0. Len(p) \in Nat /\ Len(r) \in Nat /\ Len(po) = Len(p) + 1 /\ Len(q) = Len(p) + 1 + Len(r)
    BY <1>2
  <2>1. CASE InQueue(p, u)
    <3>1. PICK j \in 1..Len(p) : p[j] = u
      BY <2>1 DEF InQueue
    <3>2. po[j] = p[j] /\ j \in 1..Len(po)
      BY <1>2, <2>0
    <3> HIDE DEF po
    <3>3. q[j] = po[j] /\ j \in 1..Len(q)
      BY <1>2, <2>0, <3>2
    <3> QED BY <3>1, <3>2, <3>3 DEF InQueue
  <2>2. CASE InQueue(r, u)
    <3>1. PICK j \in 1..Len(r) : r[j] = u
      BY <2>2 DEF InQueue
    <3> HIDE DEF po
    <3>2. Len(po) + j \in 1..Len(q) /\ q[Len(po) + j] = r[j]
      BY <1>2, <2>0
    <3> QED BY <3>1, <3>2 DEF InQueue
  <2> QED BY <2>1, <2>2
<1>4. Only(p, S) = Only(p, T) /\ Only(r, S) = Only(r, T)
  BY <1>1, <1>3, OnlySame
<1> HIDE DEF t, o, po
<1>5. \A U : Only(o, U) = IF t \in U THEN o ELSE <<>>
  <2> SUFFICES ASSUME NEW U PROVE Only(o, U) = IF t \in U THEN o ELSE <<>>
    OBVIOUS
  <2>1. <<>> \in Seq(Tasks) /\ Append(<<>>, t) = o /\ Only(<<>>, U) = <<>>
    BY OnlyEmpty DEF o
  <2>2. Only(Append(<<>>, t), U) = IF t \in U THEN Append(Only(<<>>, U), t) ELSE Only(<<>>, U)
    BY <1>2, <2>1, OnlyAppend, ZenonT(40)
  <2> QED BY <2>1, <2>2, SMTT(30)
<1>6. ASSUME NEW U
      PROVE  Only(q, U) = IF t \in U THEN (Only(p, U) \o o) \o Only(r, U) ELSE Only(p, U) \o Only(r, U)
  <2>0. Only(po \o r, U) = Only(po, U) \o Only(r, U)
    BY <1>2, OnlyConcat, SMTT(30)
  <2>1. Only(q, U) = Only(po, U) \o Only(r, U) /\ Only(po, U) = Only(p, U) \o Only(o, U)
    <3>1. Only(p \o o, U) = Only(p, U) \o Only(o, U)
      BY <1>2, OnlyConcat, SMTT(30)
    <3> QED BY <1>2, <2>0, <3>1 DEF po
  <2>2. Only(p, U) \in Seq(Tasks)
    BY OnlyType
  <2>3. Only(p, U) \o <<>> = Only(p, U)
    BY <2>2, ConcatEmptySeq
  <2> QED BY <1>5, <2>1, <2>3
<1>7. Only(Without(q, i), T) = Only(p, T) \o Only(r, T)
  BY <1>1, OnlyConcat
<1>8. Only(p, S) \in Seq(Tasks) /\ Only(r, S) \in Seq(Tasks)
  BY OnlyType
<1>9. i = 1 => Only(p, S) = <<>>
  BY <1>1, OnlyEmpty
<1>10. /\ Only(q, S) = IF t \in S THEN (Only(p, S) \o o) \o Only(r, S) ELSE Only(p, S) \o Only(r, S)
       /\ t \notin T => Only(q, T) = Only(p, S) \o Only(r, S)
  BY <1>4, <1>6
<1> QED BY <1>4, <1>7, <1>8, <1>9, <1>10 DEF t, o, Parted

\* The sequence a, t, b without t.
LEMMA CutOut ==
  ASSUME NEW a \in Seq(Tasks), NEW b \in Seq(Tasks), NEW t \in Tasks,
         NEW z, z = (a \o <<t>>) \o b
  PROVE  \E i \in 1..Len(z) : SubSeq(z, 1, i - 1) \o SubSeq(z, i + 1, Len(z)) = a \o b
<1> DEFINE n == Len(a)
           i == n + 1
           x == SubSeq(z, 1, i - 1)
           y == SubSeq(z, i + 1, Len(z))
<1>1. z \in Seq(Tasks) /\ n \in Nat /\ Len(b) \in Nat /\ Len(z) = n + 1 + Len(b)
      /\ \A j \in 1..n : z[j] = a[j]
  OBVIOUS
<1>2. \A j \in 1..Len(b) : z[j + i] = b[j]
  OBVIOUS
<1> HIDE DEF n
<1>3. i - 1 = n /\ i + 1 = n + 2 /\ i \in 1..Len(z)
  BY <1>1
<1>4. x \in Seq(Tasks) /\ Len(x) = n /\ \A j \in 1..n : x[j] = z[j]
  BY <1>1
<1>5. y \in Seq(Tasks) /\ Len(y) = Len(b) /\ \A j \in 1..Len(b) : y[j] = z[j + i]
  BY <1>1
<1> HIDE DEF x, y
<1>6. x = a
  BY <1>1, <1>4, SeqEqual DEF n
<1>7. y = b
  BY <1>2, <1>5, SeqEqual
<1> QED BY <1>3, <1>6, <1>7 DEF x, y

-----------------------------------------------------------------------------
(***************************************************************************)
(* Under the refinement mapping every step of LabLock is a step of         *)
(* LabMutex, or changes nothing there.                                     *)
(***************************************************************************)

\* The owner in the mutex is the task inside, and nobody when the lock is free.
LEMMA OwnerOf ==
  ASSUME IInv, NEW l \in Labs
  PROVE  /\ \A t \in Tasks : pc[t] = "inside" /\ lab[t] = l => OwnerBar[l] = t
         /\ OwnerBar[l] = NoTask <=> ~locked[l]
<1>1. OwnerBar[l] = IF Inside(l) = {} THEN NoTask ELSE CHOOSE t \in Inside(l) : TRUE
  BY DEF OwnerBar
<1>2. Inside(l) # {} => OwnerBar[l] \in Inside(l)
  BY <1>1
<1>3. Inside(l) # {} <=> locked[l]
  BY DEF IInv, FlagInv, Inside
<1>4. \A t \in Inside(l) : t # NoTask
  BY NoTaskAssumption DEF Inside
<1>5. ASSUME NEW t \in Tasks, pc[t] = "inside" /\ lab[t] = l PROVE OwnerBar[l] = t
  BY <1>2, <1>5 DEF IInv, MutualExclusion, Inside
<1> QED BY <1>1, <1>2, <1>3, <1>4, <1>5

LEMMA BarFunctions ==
  /\ OwnerBar = [l \in Labs |-> OwnerBar[l]] /\ OwnerBar' = [l \in Labs |-> OwnerBar'[l]]
  /\ QueueBar = [l \in Labs |-> QueueBar[l]] /\ QueueBar' = [l \in Labs |-> QueueBar'[l]]
<1>1. OwnerBar = [l \in Labs |-> OwnerBar[l]] /\ OwnerBar' = [l \in Labs |-> OwnerBar'[l]]
  BY DEF OwnerBar
<1>2. QueueBar = [l \in Labs |-> QueueBar[l]] /\ QueueBar' = [l \in Labs |-> QueueBar'[l]]
  BY DEF QueueBar
<1> QED BY <1>1, <1>2

\* The lab's owner stays when nobody enters or leaves its block.
LEMMA OwnerFrame ==
  ASSUME NEW m \in Labs,
         \A u \in Tasks : (pc'[u] = "inside" /\ lab'[u] = m) <=> (pc[u] = "inside" /\ lab[u] = m)
  PROVE  OwnerBar'[m] = OwnerBar[m]
<1>1. Inside(m)' = Inside(m)
  BY DEF Inside
<1> QED BY <1>1 DEF OwnerBar

\* The queue of the mutex stays when the deque does and none of its tasks is
\* cancelled.
LEMMA QueueFrame ==
  ASSUME IInv, NEW m \in Labs, waiters'[m] = waiters[m],
         \A u \in Tasks : InQueue(waiters[m], u) => (u \in StillWaiting <=> u \in StillWaiting')
  PROVE  QueueBar'[m] = QueueBar[m]
<1>1. waiters[m] \in Seq(Tasks)
  BY DEF IInv, TypeOK
<1>2. Only(waiters[m], StillWaiting) = Only(waiters[m], StillWaiting')
  <2> DEFINE S == StillWaiting
             T == StillWaiting'
             q == waiters[m]
  <2>1. q \in Seq(Tasks) /\ \A u \in Tasks : InQueue(q, u) => (u \in S <=> u \in T)
    BY <1>1
  <2> HIDE DEF S, T, q
  <2>2. Only(q, S) = Only(q, T)
    BY <2>1, OnlySame
  <2> QED BY <2>2 DEF S, T, q
<1> QED BY <1>2 DEF QueueBar

\* A task outside every block is in no lab of the mutex.
LEMMA NotInMutex ==
  ASSUME IInv, NEW t \in Tasks, pc[t] = "outside"
  PROVE  Mutex!Outside(t)
<1> SUFFICES ASSUME NEW l \in Labs PROVE OwnerBar[l] # t /\ t \notin Mutex!Members(QueueBar[l])
  BY DEF Mutex!Outside
<1>1. OwnerBar[l] # t
  BY NoTaskAssumption DEF OwnerBar, Inside
<1>2. ASSUME t \in Mutex!Members(QueueBar[l]) PROVE FALSE
  <2>1. QueueBar[l] = Only(waiters[l], StillWaiting) /\ waiters[l] \in Seq(Tasks)
    BY DEF QueueBar, IInv, TypeOK
  <2>2. InQueue(Only(waiters[l], StillWaiting), t)
    BY <1>2, <2>1 DEF Mutex!Members, InQueue
  <2>3. InQueue(waiters[l], t)
    BY <2>1, <2>2, OnlyMembers
  <2> QED BY <2>3 DEF IInv, QueueInv
<1> QED BY <1>1, <1>2

LEMMA EnterFreeTakes ==
  ASSUME IInv, IInv', NEW t \in Tasks, NEW l \in Labs, EnterFree(t, l)
  PROVE  Mutex!Take(t, l)
<1> USE Lookup DEF EnterFree
<1>1. ~locked[l] /\ \A u \in Tasks : InQueue(waiters[l], u) => fut[u] = "cancelled"
  BY DEF MayTake, InQueue
<1>2. waiters' = waiters
  BY DEF IInv, TypeOK
<1>3. Mutex!Outside(t)
  BY NotInMutex
<1>4. OwnerBar[l] = NoTask
  BY <1>1, OwnerOf
<1>5. QueueBar[l] = <<>>
  <2>1. waiters[l] \in Seq(Tasks) /\ \A u \in Tasks : InQueue(waiters[l], u) => u \notin StillWaiting
    BY <1>1 DEF IInv, TypeOK, StillWaiting
  <2> DEFINE S == StillWaiting
  <2> HIDE DEF S
  <2>2. Only(waiters[l], S) = <<>>
    BY <2>1, OnlyNone DEF S
  <2> QED BY <2>2 DEF QueueBar, S
<1>6. QueueBar' = QueueBar
  BY <1>2 DEF QueueBar, StillWaiting
<1>7. OwnerBar' = [OwnerBar EXCEPT ![l] = t]
  <2>1. OwnerBar'[l] = t
    <3>1. Inside(l)' = {t}
      BY <1>1 DEF IInv, TypeOK, FlagInv, Inside
    <3> QED BY <3>1 DEF OwnerBar
  <2>2. \A m \in Labs \ {l} : OwnerBar'[m] = OwnerBar[m]
    <3> SUFFICES ASSUME NEW m \in Labs \ {l} PROVE OwnerBar'[m] = OwnerBar[m]
      OBVIOUS
    <3>1. \A u \in Tasks : (pc'[u] = "inside" /\ lab'[u] = m) <=> (pc[u] = "inside" /\ lab[u] = m)
      BY DEF IInv, TypeOK
    <3> QED BY <3>1, OwnerFrame
  <2> QED BY <2>1, <2>2, BarFunctions
<1> QED BY <1>3, <1>4, <1>5, <1>6, <1>7 DEF Mutex!Take

LEMMA EnterWaitArrives ==
  ASSUME IInv, IInv', NEW t \in Tasks, NEW l \in Labs, EnterWait(t, l)
  PROVE  Mutex!Arrive(t, l)
<1> USE Lookup DEF EnterWait
<1>1. waiters[l] \in Seq(Tasks) /\ ~InQueue(waiters[l], t)
  BY DEF IInv, TypeOK, QueueInv
<1>2. waiters' = [waiters EXCEPT ![l] = Append(waiters[l], t)]
  BY DEF IInv, TypeOK
<1>3. Mutex!Outside(t)
  BY NotInMutex
<1>4. t \in StillWaiting' /\ \A u \in Tasks : u # t => (u \in StillWaiting <=> u \in StillWaiting')
  BY DEF IInv, TypeOK, StillWaiting
<1>5. QueueBar'[l] = Append(QueueBar[l], t)
  <2> DEFINE S == StillWaiting
             T == StillWaiting'
             q == waiters[l]
  <2>1. /\ q \in Seq(Tasks) /\ t \in T
        /\ \A u \in Tasks : InQueue(q, u) => (u \in S <=> u \in T)
    BY <1>1, <1>4
  <2>2. waiters'[l] = Append(q, t)
    BY <1>2 DEF IInv, TypeOK
  <2> HIDE DEF S, T, q
  <2>3. Only(q, S) = Only(q, T)
    BY <2>1, OnlySame
  <2>4. Only(Append(q, t), T) = Append(Only(q, S), t)
    BY <2>1, <2>3, OnlyAppend
  <2>5. Only(waiters[l], StillWaiting) = Only(q, S)
    BY DEF q, S
  <2>6. Only(waiters'[l], StillWaiting') = Only(Append(q, t), T)
    BY <2>2 DEF T
  <2> QED BY <2>4, <2>5, <2>6 DEF QueueBar
<1>6. \A m \in Labs \ {l} : QueueBar'[m] = QueueBar[m]
  <2> SUFFICES ASSUME NEW m \in Labs \ {l} PROVE QueueBar'[m] = QueueBar[m]
    OBVIOUS
  <2>1. waiters'[m] = waiters[m] /\ ~InQueue(waiters[m], t)
    BY <1>2 DEF IInv, TypeOK, QueueInv
  <2> QED BY <1>4, <2>1, QueueFrame
<1>7. QueueBar' = [QueueBar EXCEPT ![l] = Append(QueueBar[l], t)]
  BY <1>5, <1>6, BarFunctions
<1>8. OwnerBar' = OwnerBar
  <2>1. ASSUME NEW m \in Labs PROVE OwnerBar'[m] = OwnerBar[m]
    <3>1. \A u \in Tasks : (pc'[u] = "inside" /\ lab'[u] = m) <=> (pc[u] = "inside" /\ lab[u] = m)
      BY DEF IInv, TypeOK
    <3> QED BY <3>1, OwnerFrame
  <2> QED BY <2>1, BarFunctions
<1> QED BY <1>3, <1>7, <1>8 DEF Mutex!Arrive

\* What a waiting task's deque keeps, before and after its future changes.
LEMMA WaiterLeaves ==
  ASSUME IInv, NEW t \in Tasks, pc[t] = "waiting", NEW i \in 1..Len(waiters[lab[t]]),
         waiters[lab[t]][i] = t,
         t \notin StillWaiting',
         \A u \in Tasks : u # t => (u \in StillWaiting <=> u \in StillWaiting')
  PROVE  \E a, b \in Seq(Tasks) :
           /\ QueueBar[lab[t]] = IF t \in StillWaiting THEN (a \o <<t>>) \o b ELSE a \o b
           /\ waiters'[lab[t]] \in {waiters[lab[t]], Without(waiters[lab[t]], i)}
                => QueueBar'[lab[t]] = a \o b
           /\ i = 1 => a = <<>>
<1> DEFINE S == StillWaiting
           T == StillWaiting'
           l == lab[t]
           q == waiters[l]
<1>1. q \in Seq(Tasks) /\ Distinct(q) /\ l \in Labs
  BY DEF IInv, TypeOK, QueueInv
<1>2. \A u \in Tasks \ {q[i]} : InQueue(q, u) => (u \in S <=> u \in T)
  OBVIOUS
<1>3. q[i] = t /\ q[i] \notin T /\ i \in 1..Len(q)
  OBVIOUS
<1>4. QueueBar[l] = Only(q, S)
  BY <1>1 DEF QueueBar
<1>5. /\ waiters'[l] = q => QueueBar'[l] = Only(q, T)
      /\ waiters'[l] = Without(q, i) => QueueBar'[l] = Only(Without(q, i), T)
  BY <1>1 DEF QueueBar
<1> HIDE DEF S, T, q
<1>6. Parted(q, i, S, T)
  BY <1>1, <1>2, <1>3, OnlyWithout
<1> USE DEF q, S
<1> QED BY <1>3, <1>4, <1>5, <1>6 DEF Parted

\* The owners and the other labs' queues when a task that is not inside
\* stops waiting.
LEMMA OthersKeep ==
  ASSUME IInv, NEW t \in Tasks, pc[t] = "waiting",
         \A m \in Labs : m # lab[t] => waiters'[m] = waiters[m],
         \A u \in Tasks : u # t => (u \in StillWaiting <=> u \in StillWaiting')
  PROVE  \A m \in Labs : m # lab[t] => QueueBar'[m] = QueueBar[m]
<1> SUFFICES ASSUME NEW m \in Labs, m # lab[t] PROVE QueueBar'[m] = QueueBar[m]
  OBVIOUS
<1>1. waiters'[m] = waiters[m] /\ ~InQueue(waiters[m], t)
  BY DEF IInv, QueueInv
<1> QED BY <1>1, QueueFrame

LEMMA CancelGivesUp ==
  ASSUME IInv, NEW t \in Tasks, Cancel(t)
  PROVE  Mutex!GiveUp(lab[t])
<1> USE DEF Cancel
<1> DEFINE l == lab[t]
<1>1. PICK i \in 1..Len(waiters[l]) : waiters[l][i] = t
  BY DEF IInv, TypeOK, QueueInv, InQueue
<1>2. /\ t \in StillWaiting /\ t \notin StillWaiting'
      /\ \A u \in Tasks : u # t => (u \in StillWaiting <=> u \in StillWaiting')
  BY DEF IInv, TypeOK, StillWaiting
<1>3. PICK a \in Seq(Tasks), b \in Seq(Tasks) :
        QueueBar[l] = (a \o <<t>>) \o b /\ QueueBar'[l] = a \o b
  BY <1>1, <1>2, WaiterLeaves
<1>4. \A m \in Labs : m # l => QueueBar'[m] = QueueBar[m]
  BY <1>2, OthersKeep
<1>5. OwnerBar' = OwnerBar
  BY DEF OwnerBar, Inside
<1> DEFINE z == QueueBar[l]
<1>6. \E j \in 1..Len(z) : SubSeq(z, 1, j - 1) \o SubSeq(z, j + 1, Len(z)) = a \o b
  <2>1. z = (a \o <<t>>) \o b
    BY <1>3
  <2>2. \A y : y = (a \o <<t>>) \o b =>
          \E j \in 1..Len(y) : SubSeq(y, 1, j - 1) \o SubSeq(y, j + 1, Len(y)) = a \o b
    BY CutOut
  <2> QED BY <2>1, <2>2
<1>7. l \in Labs
  BY DEF IInv, TypeOK
<1>8. PICK j \in 1..Len(z) : QueueBar' = [QueueBar EXCEPT ![l] = SubSeq(z, 1, j - 1) \o SubSeq(z, j + 1, Len(z))]
  <2>0. PICK j \in 1..Len(z) : SubSeq(z, 1, j - 1) \o SubSeq(z, j + 1, Len(z)) = a \o b
    BY <1>6
  <2>1. QueueBar'[l] = SubSeq(z, 1, j - 1) \o SubSeq(z, j + 1, Len(z))
    BY <1>3, <2>0
  <2> HIDE DEF l, z
  <2> QED BY <1>4, <1>7, <2>1, BarFunctions
<1> QED BY <1>5, <1>8 DEF Mutex!GiveUp

LEMMA ResumeGrants ==
  ASSUME IInv, IInv', NEW t \in Tasks, Resume(t)
  PROVE  Mutex!Grant(lab[t])
<1> USE DEF Resume
<1> DEFINE l == lab[t]
<1>1. PICK i \in 1..Len(waiters[l]) :
        waiters[l][i] = t /\ waiters' = [waiters EXCEPT ![l] = Without(@, i)]
  OBVIOUS
<1>2. /\ t \in StillWaiting /\ t \notin StillWaiting'
      /\ \A u \in Tasks : u # t => (u \in StillWaiting <=> u \in StillWaiting')
  BY DEF IInv, TypeOK, StillWaiting
<1>3. l \in Labs /\ ~locked[l] /\ i = 1
  <2>1. l \in Labs /\ ~locked[l] /\ waiters[l] # <<>> /\ Head(waiters[l]) = t
        /\ waiters[l] \in Seq(Tasks) /\ Distinct(waiters[l])
    BY DEF IInv, TypeOK, WokenInv, QueueInv
  <2>2. 1 \in 1..Len(waiters[l]) /\ waiters[l][1] = t
    BY <2>1
  <2> QED BY <1>1, <2>1, <2>2 DEF Distinct
<1>4. waiters'[l] = Without(waiters[l], i) /\ \A m \in Labs : m # l => waiters'[m] = waiters[m]
  BY <1>1, <1>3 DEF IInv, TypeOK
<1>5. PICK a \in Seq(Tasks), b \in Seq(Tasks) :
        QueueBar[l] = (a \o <<t>>) \o b /\ QueueBar'[l] = a \o b /\ a = <<>>
  BY <1>1, <1>2, <1>3, <1>4, WaiterLeaves, ZenonT(40)
<1>6. QueueBar[l] # <<>> /\ Head(QueueBar[l]) = t /\ QueueBar'[l] = Tail(QueueBar[l])
  <2> DEFINE x == QueueBar[l]
             y == QueueBar'[l]
  <2>1. x = (<<>> \o <<t>>) \o b /\ y = <<>> \o b
    BY <1>5
  <2> HIDE DEF x, y
  <2>2. x = <<t>> \o b /\ y = b
    BY <2>1
  <2>3. x \in Seq(Tasks) /\ Len(x) = Len(b) + 1 /\ x[1] = t /\ Len(b) \in Nat
        /\ \A k \in 1..Len(b) : x[k + 1] = b[k]
    BY <2>2
  <2>4. x # <<>> /\ Head(x) = t
    BY <2>3
  <2>5. Tail(x) = b
    <3>1. Tail(x) \in Seq(Tasks) /\ Len(Tail(x)) = Len(b) /\ \A k \in 1..Len(b) : Tail(x)[k] = b[k]
      BY <2>3
    <3> QED BY <3>1, SeqEqual
  <2> QED BY <2>2, <2>4, <2>5 DEF x, y
<1>7. \A m \in Labs : m # l => QueueBar'[m] = QueueBar[m]
  BY <1>2, <1>4, OthersKeep
<1>8. QueueBar' = [QueueBar EXCEPT ![l] = Tail(QueueBar[l])]
  <2> HIDE DEF l
  <2> QED BY <1>3, <1>6, <1>7, BarFunctions
<1>9. OwnerBar[l] = NoTask
  BY <1>3, OwnerOf
<1>10. OwnerBar'[l] = t
  <2>1. Inside(l)' = {t}
    BY <1>3 DEF IInv, TypeOK, FlagInv, Inside
  <2> QED BY <1>3, <2>1 DEF OwnerBar
<1>11. \A m \in Labs : m # l => OwnerBar'[m] = OwnerBar[m]
  <2> SUFFICES ASSUME NEW m \in Labs, m # l PROVE OwnerBar'[m] = OwnerBar[m]
    OBVIOUS
  <2>1. \A u \in Tasks : (pc'[u] = "inside" /\ lab'[u] = m) <=> (pc[u] = "inside" /\ lab[u] = m)
    BY DEF IInv, TypeOK
  <2> QED BY <2>1, OwnerFrame
<1>12. OwnerBar' = [OwnerBar EXCEPT ![l] = Head(QueueBar[l])]
  <2>1. OwnerBar'[l] = Head(QueueBar[l])
    BY <1>6, <1>10
  <2> HIDE DEF l
  <2> QED BY <1>3, <1>11, <2>1, BarFunctions
<1> QED BY <1>6, <1>8, <1>9, <1>12 DEF Mutex!Grant

LEMMA ResumeCancelledStutters ==
  ASSUME IInv, IInv', NEW t \in Tasks, ResumeCancelled(t)
  PROVE  UNCHANGED <<OwnerBar, QueueBar>>
<1> USE DEF ResumeCancelled
<1> DEFINE l == lab[t]
<1>1. PICK i \in 1..Len(waiters[l]) :
        /\ waiters[l][i] = t
        /\ waiters' = [waiters EXCEPT ![l] = Without(@, i)]
        /\ fut' = [IF locked[l] THEN fut ELSE WakeFirst(fut, Without(waiters[l], i))
                     EXCEPT ![t] = "none"]
  OBVIOUS
<1>2. l \in Labs /\ waiters[l] \in Seq(Tasks) /\ Without(waiters[l], i) \in Seq(Tasks)
  BY <1>1, RemoveWaiter DEF IInv, TypeOK, QueueInv
<1>3. /\ t \notin StillWaiting /\ t \notin StillWaiting'
      /\ \A u \in Tasks : u # t => (u \in StillWaiting <=> u \in StillWaiting')
  <2> DEFINE r == Without(waiters[l], i)
             f == IF locked[l] THEN fut ELSE WakeFirst(fut, r)
  <2>1. /\ f \in [Tasks -> Futures]
        /\ \A u \in Tasks : f[u] = fut[u] \/ (fut[u] = "pending" /\ f[u] = "set")
    <3>1. r \in Seq(Tasks) /\ fut \in [Tasks -> Futures]
      BY <1>2 DEF IInv, TypeOK
    <3> HIDE DEF r
    <3>2. /\ WakeFirst(fut, r) \in [Tasks -> Futures]
          /\ \A u \in Tasks :
               WakeFirst(fut, r)[u] = IF r # <<>> /\ u = Head(r) /\ fut[u] = "pending"
                                      THEN "set" ELSE fut[u]
      BY <3>1, WakeFirstEffect
    <3> DEFINE w == WakeFirst(fut, r)
    <3>3. w \in [Tasks -> Futures]
          /\ \A u \in Tasks : w[u] = fut[u] \/ (fut[u] = "pending" /\ w[u] = "set")
      BY <3>2
    <3> HIDE DEF w
    <3>4. f = IF locked[l] THEN fut ELSE w
      BY DEF w
    <3> HIDE DEF f
    <3> QED BY <3>1, <3>3, <3>4
  <2>2. fut' = [f EXCEPT ![t] = "none"]
    BY <1>1
  <2> HIDE DEF f
  <2> QED BY <2>1, <2>2 DEF StillWaiting
<1>4. waiters'[l] = Without(waiters[l], i) /\ \A m \in Labs : m # l => waiters'[m] = waiters[m]
  BY <1>1, <1>2 DEF IInv, TypeOK
<1>5. QueueBar'[l] = QueueBar[l]
  <2>1. PICK a \in Seq(Tasks), b \in Seq(Tasks) : QueueBar[l] = a \o b /\ QueueBar'[l] = a \o b
    <3>1. pc[t] = "waiting" /\ waiters[lab[t]][i] = t
      BY <1>1
    <3> HIDE DEF ResumeCancelled
    <3> QED BY <1>3, <1>4, <3>1, WaiterLeaves
  <2> QED BY <2>1
<1>6. \A m \in Labs : m # l => QueueBar'[m] = QueueBar[m]
  BY <1>3, <1>4, OthersKeep
<1>7. QueueBar' = QueueBar
  BY <1>5, <1>6, BarFunctions
<1>8. OwnerBar' = OwnerBar
  <2>1. ASSUME NEW m \in Labs PROVE OwnerBar'[m] = OwnerBar[m]
    <3>1. \A u \in Tasks : (pc'[u] = "inside" /\ lab'[u] = m) <=> (pc[u] = "inside" /\ lab[u] = m)
      BY DEF IInv, TypeOK
    <3> QED BY <3>1, OwnerFrame
  <2> QED BY <2>1, BarFunctions
<1> QED BY <1>7, <1>8

LEMMA ExitLeaves ==
  ASSUME IInv, IInv', NEW t \in Tasks, Exit(t)
  PROVE  Mutex!Leave(lab[t])
<1> USE DEF Exit
<1> DEFINE l == lab[t]
<1>1. l \in Labs /\ waiters[l] \in Seq(Tasks) /\ locked'[l] = FALSE
  BY DEF IInv, TypeOK
<1>2. OwnerBar[l] # NoTask
  BY <1>1, NoTaskAssumption, OwnerOf
<1>3. OwnerBar'[l] = NoTask
  <2>1. Inside(l)' = {}
    BY <1>1 DEF IInv, FlagInv, Inside
  <2> QED BY <1>1, <2>1 DEF OwnerBar
<1>4. \A m \in Labs : m # l => OwnerBar'[m] = OwnerBar[m]
  <2> SUFFICES ASSUME NEW m \in Labs, m # l PROVE OwnerBar'[m] = OwnerBar[m]
    OBVIOUS
  <2>1. \A u \in Tasks : (pc'[u] = "inside" /\ lab'[u] = m) <=> (pc[u] = "inside" /\ lab[u] = m)
    BY DEF IInv, TypeOK
  <2> QED BY <2>1, OwnerFrame
<1>5. OwnerBar' = [OwnerBar EXCEPT ![l] = NoTask]
  <2> HIDE DEF l
  <2> QED BY <1>1, <1>3, <1>4, BarFunctions
<1>6. StillWaiting' = StillWaiting
  <2>1. \A u \in Tasks : fut'[u] = fut[u] \/ (fut[u] = "pending" /\ fut'[u] = "set")
    <3> DEFINE q == waiters[l]
    <3>1. q \in Seq(Tasks) /\ fut \in [Tasks -> Futures] /\ fut' = WakeFirst(fut, q)
      BY <1>1 DEF IInv, TypeOK
    <3> HIDE DEF q
    <3>2. \A u \in Tasks :
            WakeFirst(fut, q)[u] = IF q # <<>> /\ u = Head(q) /\ fut[u] = "pending"
                                   THEN "set" ELSE fut[u]
      BY <3>1, WakeFirstEffect
    <3> QED BY <3>1, <3>2
  <2> QED BY <2>1 DEF StillWaiting
<1>7. QueueBar' = QueueBar
  BY <1>6 DEF QueueBar
<1> QED BY <1>2, <1>5, <1>7 DEF Mutex!Leave

LEMMA InitMutex == Init => Mutex!Init
<1> SUFFICES ASSUME Init PROVE Mutex!Init
  OBVIOUS
<1>1. OwnerBar = [l \in Labs |-> NoTask]
  BY DEF Init, OwnerBar, Inside
<1>2. QueueBar = [l \in Labs |-> <<>>]
  BY OnlyEmpty DEF Init, QueueBar
<1> QED BY <1>1, <1>2 DEF Mutex!Init

LEMMA StepMutex ==
  ASSUME IInv, IInv', [Next]_vars
  PROVE  [Mutex!Next]_(Mutex!vars)
<1>1. ASSUME NEW t \in Tasks, NEW l \in Labs, EnterFree(t, l) \/ EnterWait(t, l)
      PROVE  Mutex!Next
  BY <1>1, EnterFreeTakes, EnterWaitArrives DEF Mutex!Next
<1>2. ASSUME NEW t \in Tasks, Cancel(t) \/ Resume(t) \/ Exit(t)
      PROVE  Mutex!Next
  <2>1. lab[t] \in Labs
    BY DEF IInv, TypeOK
  <2> QED BY <1>2, <2>1, CancelGivesUp, ResumeGrants, ExitLeaves DEF Mutex!Next
<1>3. ASSUME NEW t \in Tasks, ResumeCancelled(t) PROVE UNCHANGED Mutex!vars
  BY <1>3, ResumeCancelledStutters DEF Mutex!vars
<1>4. ASSUME UNCHANGED vars PROVE UNCHANGED Mutex!vars
  BY <1>4 DEF vars, Mutex!vars, OwnerBar, QueueBar, Inside, StillWaiting
<1> QED BY <1>1, <1>2, <1>3, <1>4 DEF Next

\* LabLock implements LabMutex: whatever is cancelled and whenever, calls get
\* into a lab's block one at a time and in the order in which they came.
THEOREM Refinement == Spec => ImplementsMutex
<1>1. Init => Mutex!Init
  BY InitMutex
<1>2. IInv /\ IInv' /\ [Next]_vars => [Mutex!Next]_(Mutex!vars)
  BY StepMutex
<1> QED BY <1>1, <1>2, Invariance, PTL DEF Spec, ImplementsMutex, Mutex!Spec
=============================================================================
