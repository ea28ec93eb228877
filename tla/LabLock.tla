------------------------------ MODULE LabLock -------------------------------
(***************************************************************************)
(* dependencies.lab_lock: the registry that maps every lab_path to one     *)
(* asyncio.Lock, and the asyncio.Lock itself (external, as Python 3.10 and *)
(* later implement it: a locked flag and a deque of futures).              *)
(*                                                                         *)
(* A task runs without interruption between two awaits that suspend.  The  *)
(* guard lock around the registry is only held across code that never      *)
(* suspends, so taking it, looking up or creating the lab's lock, and the  *)
(* first attempt to acquire that lock are one step.                        *)
(***************************************************************************)
EXTENDS Sequences, Naturals, FiniteSets

CONSTANTS
  Tasks,    \* the asyncio tasks that run tool calls
  Labs,     \* the distinct lab_path strings
  NoTask    \* "no task", for the refinement mapping only

ASSUME NoTaskAssumption == NoTask \notin Tasks

VARIABLES
  pc,       \* pc[t]: outside every block, waiting for a lab, or inside its block
  lab,      \* lab[t]: the lab_path of t's current or last call
  fut,      \* fut[t]: t's waiter future
  locks,    \* _lab_locks: the lab paths that have a lock
  locked,   \* locked[l]: the lock's _locked flag
  waiters   \* waiters[l]: the lock's _waiters deque, one entry per waiting task

vars == <<pc, lab, fut, locks, locked, waiters>>

PCs == {"outside", "waiting", "inside"}

(***************************************************************************)
(* A waiter future is pending; or its result is set, which schedules the   *)
(* task; or it is cancelled, which schedules the task too.  "doomed" is a  *)
(* future whose result was set and whose task was cancelled before it ran. *)
(***************************************************************************)
Futures == {"none", "pending", "set", "cancelled", "doomed"}

\* Mutant of Held: no registry, so that every call creates a fresh lock.
HeldFresh(l) == FALSE

\* The lock that lab_lock finds in the registry, or the fresh one it creates.
Held(l)  == IF l \in locks THEN locked[l] ELSE FALSE
Queue(l) == IF l \in locks THEN waiters[l] ELSE <<>>

InQueue(q, t) == \E i \in 1..Len(q) : q[i] = t

\* deque.remove(fut)
Without(q, i) == SubSeq(q, 1, i - 1) \o SubSeq(q, i + 1, Len(q))

\* Mutant of WakeFirst: the last waiter is woken.
WakeLast(f, q) ==
  IF q # <<>> /\ f[q[Len(q)]] = "pending" THEN [f EXCEPT ![q[Len(q)]] = "set"] ELSE f

\* asyncio.Lock._wake_up_first: set the first waiter's future unless it is done.
WakeFirst(f, q) ==
  IF q # <<>> /\ f[Head(q)] = "pending" THEN [f EXCEPT ![Head(q)] = "set"] ELSE f

Init ==
  /\ pc = [t \in Tasks |-> "outside"]
  /\ lab \in [Tasks -> Labs]
  /\ fut = [t \in Tasks |-> "none"]
  /\ locks = {}
  /\ locked = [l \in Labs |-> FALSE]
  /\ waiters = [l \in Labs |-> <<>>]

\* Mutant of MayTake: a newcomer does not look at the waiters.
MayBarge(l) == ~Held(l)

\* asyncio.Lock.acquire takes the lock at once only if every waiter is cancelled.
MayTake(l) ==
  ~Held(l) /\ \A i \in 1..Len(Queue(l)) : fut[Queue(l)[i]] = "cancelled"

\* async with lab_lock(l): the lock is free.
EnterFree(t, l) ==
  /\ pc[t] = "outside"
  /\ MayTake(l)
  /\ locks' = locks \cup {l}
  /\ locked' = [locked EXCEPT ![l] = TRUE]
  /\ waiters' = [waiters EXCEPT ![l] = Queue(l)]
  /\ pc' = [pc EXCEPT ![t] = "inside"]
  /\ lab' = [lab EXCEPT ![t] = l]
  /\ UNCHANGED fut

\* async with lab_lock(l): the lock is taken or promised, so the task suspends.
EnterWait(t, l) ==
  /\ pc[t] = "outside"
  /\ ~MayTake(l)
  /\ locks' = locks \cup {l}
  /\ locked' = [locked EXCEPT ![l] = Held(l)]
  /\ waiters' = [waiters EXCEPT ![l] = Append(Queue(l), t)]
  /\ pc' = [pc EXCEPT ![t] = "waiting"]
  /\ lab' = [lab EXCEPT ![t] = l]
  /\ fut' = [fut EXCEPT ![t] = "pending"]

\* A waiting task is cancelled: its client went away, or the server shuts down.
Cancel(t) ==
  /\ pc[t] = "waiting"
  /\ \/ fut[t] = "pending" /\ fut' = [fut EXCEPT ![t] = "cancelled"]
     \/ fut[t] = "set" /\ fut' = [fut EXCEPT ![t] = "doomed"]
  /\ UNCHANGED <<pc, lab, locks, locked, waiters>>

\* The task runs with its future set: it leaves the deque and takes the lock.
Resume(t) ==
  /\ pc[t] = "waiting"
  /\ fut[t] = "set"
  /\ \E i \in 1..Len(waiters[lab[t]]) :
       /\ waiters[lab[t]][i] = t
       /\ waiters' = [waiters EXCEPT ![lab[t]] = Without(@, i)]
  /\ locked' = [locked EXCEPT ![lab[t]] = TRUE]
  /\ pc' = [pc EXCEPT ![t] = "inside"]
  /\ fut' = [fut EXCEPT ![t] = "none"]
  /\ UNCHANGED <<lab, locks>>

\* Mutant of ResumeCancelled: a cancelled task keeps its wake-up to itself.
ResumeSilently(t) ==
  /\ pc[t] = "waiting"
  /\ fut[t] \in {"cancelled", "doomed"}
  /\ \E i \in 1..Len(waiters[lab[t]]) :
       /\ waiters[lab[t]][i] = t
       /\ waiters' = [waiters EXCEPT ![lab[t]] = Without(@, i)]
  /\ fut' = [fut EXCEPT ![t] = "none"]
  /\ pc' = [pc EXCEPT ![t] = "outside"]
  /\ UNCHANGED <<lab, locks, locked>>

\* The task runs with CancelledError: it leaves the deque, and if the lock is
\* not taken it passes the wake-up it may have received on to the next waiter.
ResumeCancelled(t) ==
  LET l == lab[t] IN
  /\ pc[t] = "waiting"
  /\ fut[t] \in {"cancelled", "doomed"}
  /\ \E i \in 1..Len(waiters[l]) :
       /\ waiters[l][i] = t
       /\ waiters' = [waiters EXCEPT ![l] = Without(@, i)]
       /\ fut' = [IF locked[l] THEN fut ELSE WakeFirst(fut, Without(waiters[l], i))
                    EXCEPT ![t] = "none"]
  /\ pc' = [pc EXCEPT ![t] = "outside"]
  /\ UNCHANGED <<lab, locks, locked>>

\* Mutant of Exit: nobody is woken.
ExitSilently(t) ==
  /\ pc[t] = "inside"
  /\ locked' = [locked EXCEPT ![lab[t]] = FALSE]
  /\ pc' = [pc EXCEPT ![t] = "outside"]
  /\ UNCHANGED <<lab, fut, locks, waiters>>

\* The block ends, by returning or by raising: asyncio.Lock.release.
Exit(t) ==
  /\ pc[t] = "inside"
  /\ locked' = [locked EXCEPT ![lab[t]] = FALSE]
  /\ fut' = WakeFirst(fut, waiters[lab[t]])
  /\ pc' = [pc EXCEPT ![t] = "outside"]
  /\ UNCHANGED <<lab, locks, waiters>>

Next ==
  \E t \in Tasks :
    \/ \E l \in Labs : EnterFree(t, l) \/ EnterWait(t, l)
    \/ Cancel(t) \/ Resume(t) \/ ResumeCancelled(t) \/ Exit(t)

Spec == Init /\ [][Next]_vars

(***************************************************************************)
(* Fairness: the event loop runs every scheduled task, and every block     *)
(* ends, because each await in it is an HTTP request bounded by the        *)
(* client's timeout or a bounded sleep.  Nothing obliges an agent to call. *)
(***************************************************************************)
Fairness ==
  \A t \in Tasks :
    WF_vars(Resume(t)) /\ WF_vars(ResumeCancelled(t)) /\ WF_vars(Exit(t))

FairSpec == Spec /\ Fairness
-----------------------------------------------------------------------------
\* Every variable has its type.
TypeOK ==
  /\ pc \in [Tasks -> PCs]
  /\ lab \in [Tasks -> Labs]
  /\ fut \in [Tasks -> Futures]
  /\ locks \in SUBSET Labs
  /\ locked \in [Labs -> BOOLEAN]
  /\ waiters \in [Labs -> Seq(Tasks)]

\* Two calls against the same lab are never inside their blocks together: the
\* read-modify-write sequences of two tools on one lab never interleave.
MutualExclusion ==
  \A t, u \in Tasks :
    pc[t] = "inside" /\ pc[u] = "inside" /\ lab[t] = lab[u] => t = u

\* A wake-up is never lost: when a lab is free and a call waits for it, the
\* first task in the deque is scheduled to run and will take the lock or pass
\* the wake-up on, whatever was cancelled and whenever.
NoLostWakeup ==
  \A l \in Labs :
    ~locked[l] /\ waiters[l] # <<>> => fut[Head(waiters[l])] # "pending"

(***************************************************************************)
(* The inductive invariant: the flag says whether somebody is inside, the  *)
(* deque holds exactly the waiting tasks, and a future is only set for the *)
(* head of the deque of a lab that is free.                                *)
(***************************************************************************)
FlagInv ==
  \A l \in Labs : locked[l] <=> \E t \in Tasks : pc[t] = "inside" /\ lab[t] = l

Distinct(q) == \A i, j \in 1..Len(q) : q[i] = q[j] => i = j

QueueInv ==
  /\ \A t \in Tasks : fut[t] # "none" <=> pc[t] = "waiting"
  /\ \A t \in Tasks, l \in Labs :
       InQueue(waiters[l], t) <=> pc[t] = "waiting" /\ lab[t] = l
  /\ \A l \in Labs : Distinct(waiters[l])

WokenInv ==
  \A t \in Tasks :
    fut[t] \in {"set", "doomed"} =>
      ~locked[lab[t]] /\ waiters[lab[t]] # <<>> /\ Head(waiters[lab[t]]) = t

\* Only a lab in the registry has a lock that anybody holds or waits for.
RegistryInv ==
  /\ \A t \in Tasks : pc[t] # "outside" => lab[t] \in locks
  /\ \A l \in Labs \ locks : ~locked[l] /\ waiters[l] = <<>>

IInv ==
  TypeOK /\ MutualExclusion /\ FlagInv /\ QueueInv /\ WokenInv /\ RegistryInv
  /\ NoLostWakeup

\* A call that waits for a lab stops waiting: it gets in, or it was cancelled.
NoStarvation == \A t \in Tasks : pc[t] = "waiting" ~> pc[t] # "waiting"
-----------------------------------------------------------------------------
(***************************************************************************)
(* The refinement mapping to LabMutex: the owner is the task inside, and   *)
(* the queue is the deque without the tasks that were cancelled.           *)
(***************************************************************************)
Inside(l) == {t \in Tasks : pc[t] = "inside" /\ lab[t] = l}

OwnerBar ==
  [l \in Labs |-> IF Inside(l) = {} THEN NoTask ELSE CHOOSE t \in Inside(l) : TRUE]

StillWaiting == {t \in Tasks : fut[t] \in {"pending", "set"}}

\* The tasks of a deque that are in S, in their order.
Only(q, S) ==
  LET kept[i \in 0..Len(q)] ==
        IF i = 0 THEN <<>>
        ELSE IF q[i] \in S THEN Append(kept[i - 1], q[i]) ELSE kept[i - 1]
  IN kept[Len(q)]

QueueBar == [l \in Labs |-> Only(waiters[l], StillWaiting)]

Mutex == INSTANCE LabMutex WITH owner <- OwnerBar, queue <- QueueBar

\* The registry of asyncio locks implements the mutex: nobody overtakes a call
\* that waits, not even when wake-ups and cancellations cross.
ImplementsMutex == Mutex!Spec
=============================================================================
