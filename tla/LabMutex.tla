------------------------------ MODULE LabMutex ------------------------------
(***************************************************************************)
(* What lab_lock (dependencies.py) promises to the tools that use it: for  *)
(* each lab at most one call is inside, calls are let in in the order in   *)
(* which they arrived, and a call against one lab is never held up by a    *)
(* call against another.  A call that is still waiting may give up.        *)
(*                                                                         *)
(* LabLock shows that the registry of asyncio locks implements this.       *)
(***************************************************************************)
EXTENDS Sequences, Naturals

CONSTANTS
  Tasks,    \* the asyncio tasks that run tool calls
  Labs,     \* the distinct lab_path strings
  NoTask    \* the owner of a free lab

VARIABLES
  owner,    \* owner[l]: the call inside l's block, or NoTask
  queue     \* queue[l]: the calls waiting for l that have not given up

vars == <<owner, queue>>

Members(s) == {s[i] : i \in 1..Len(s)}

\* A call is in no lab: it neither owns one nor waits for one.
Outside(t) == \A l \in Labs : owner[l] # t /\ t \notin Members(queue[l])

Init ==
  /\ owner = [l \in Labs |-> NoTask]
  /\ queue = [l \in Labs |-> <<>>]

\* The lab is free and nobody waits: the call goes straight in.
Take(t, l) ==
  /\ Outside(t)
  /\ owner[l] = NoTask
  /\ queue[l] = <<>>
  /\ owner' = [owner EXCEPT ![l] = t]
  /\ UNCHANGED queue

\* The call has to wait behind those that came before it.
Arrive(t, l) ==
  /\ Outside(t)
  /\ queue' = [queue EXCEPT ![l] = Append(@, t)]
  /\ UNCHANGED owner

\* The call that has waited longest is let in.
Grant(l) ==
  /\ owner[l] = NoTask
  /\ queue[l] # <<>>
  /\ owner' = [owner EXCEPT ![l] = Head(queue[l])]
  /\ queue' = [queue EXCEPT ![l] = Tail(@)]

\* A waiting call is cancelled.
GiveUp(l) ==
  \E i \in 1..Len(queue[l]) :
    /\ queue' = [queue EXCEPT ![l] = SubSeq(@, 1, i - 1) \o SubSeq(@, i + 1, Len(@))]
    /\ UNCHANGED owner

\* The call inside leaves, by returning or by raising.
Leave(l) ==
  /\ owner[l] # NoTask
  /\ owner' = [owner EXCEPT ![l] = NoTask]
  /\ UNCHANGED queue

Next ==
  \E l \in Labs :
    \/ \E t \in Tasks : Take(t, l) \/ Arrive(t, l)
    \/ Grant(l) \/ GiveUp(l) \/ Leave(l)

Spec == Init /\ [][Next]_vars
=============================================================================
