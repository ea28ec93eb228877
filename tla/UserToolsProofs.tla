-------------------------- MODULE UserToolsProofs ---------------------------
(***************************************************************************)
(* Proofs about UserTools: its inductive invariant, and from it what holds *)
(* of share_lab and delete_user in spite of the races they are exposed to. *)
(***************************************************************************)
EXTENDS UserTools, TLAPS, FiniteSetTheorems

\* A user's name is the user itself.
Self == [u \in Users |-> u]

-----------------------------------------------------------------------------
(***************************************************************************)
(* Lemmas about selections.                                                *)
(***************************************************************************)
\* A selection resolves to items of the list it is about.
LEMMA ResolvedAreListed ==
  ASSUME NEW cands, NEW name, NEW sel
  PROVE  ResolveSelection(cands, name, sel) \subseteq cands
BY DEF ResolveSelection, Numbered, Named

\* Exact names resolve to what they name, or to nothing at all.
LEMMA ResolvedByName ==
  ASSUME NEW cands \in SUBSET Users, NEW sel, sel.how = "names",
         ResolveSelection(cands, Self, sel) # {}
  PROVE  ResolveSelection(cands, Self, sel) = sel.picks
<1>1. ASSUME NEW p, Cardinality(Named(cands, Self, p)) = 1
      PROVE  Named(cands, Self, p) = {p}
  <2>1. Named(cands, Self, p) \subseteq {p}
    BY DEF Named, Self
  <2>2. Named(cands, Self, p) # {}
    BY <1>1, FS_EmptySet
  <2> QED BY <2>1, <2>2
<1>2. \A p \in sel.picks : Cardinality(Named(cands, Self, p)) = 1
  BY DEF ResolveSelection
<1>3. ResolveSelection(cands, Self, sel) = UNION {Named(cands, Self, p) : p \in sel.picks}
  BY <1>2 DEF ResolveSelection
<1>4. \A p \in sel.picks : Named(cands, Self, p) = {p}
  BY <1>1, <1>2
<1> QED BY <1>3, <1>4

\* delete_user is about users it has found; with exact names, about those.
LEMMA DeletesListed ==
  ASSUME NEW cands \in SUBSET Users, NEW sel,
         Cardinality(DeleteTargets(cands, Self, sel)) = 1
  PROVE  /\ DeleteTargets(cands, Self, sel) \subseteq cands
         /\ sel.how = "names" => DeleteTargets(cands, Self, sel) = sel.picks
<1>1. DeleteTargets(cands, Self, sel) # {}
  BY FS_EmptySet
<1> QED BY <1>1, ResolvedAreListed, ResolvedByName DEF DeleteTargets

\* share_lab is about users that exist.
LEMMA SharesListed ==
  ASSUME NEW r, NEW all
  PROVE  ShareTargets(r, all) \subseteq all
BY ResolvedAreListed DEF ShareTargets

\* The arguments of a call that has ended.
LEMMA NoRequestType == NoRequest \in RequestType
BY DEF NoRequest, RequestType, Selections, SelectionsOf
-----------------------------------------------------------------------------
(***************************************************************************)
(* Every step preserves the invariant.                                     *)
(***************************************************************************)
\* No call is open at first.
LEMMA InitIInv == Init => IInv
BY NoRequestType DEF Init, IInv, TypeOK, RaceInv, NamedInv, ToolInv, NoRequest

\* A call that ends leaves nothing behind that the invariant is about; its own entry
\* of since is empty, unless it was about to write the shares.
LEMMA FinishKeeps ==
  ASSUME IInv, NEW c \in Calls, Finish(c),
         users' \subseteq Users, shared' = shared,
         \/ pc[c] # "putShared" /\ since' = since
         \/ since' = [since EXCEPT ![c] = {}]
  PROVE  IInv'
<1>1. TypeOK'
  BY NoRequestType DEF IInv, TypeOK, Finish, Await, Forget
<1>2. RaceInv'
  BY DEF IInv, TypeOK, RaceInv, Finish, Await, Forget
<1>3. NamedInv'
  BY DEF IInv, TypeOK, NamedInv, Finish, Await, Forget, NoRequest
<1>4. ToolInv'
  BY DEF IInv, TypeOK, ToolInv, Finish, Await, Forget
<1> QED BY <1>1, <1>2, <1>3, <1>4 DEF IInv

\* An agent calls: nothing is shown or read yet.
LEMMA AskKeeps ==
  ASSUME IInv, NEW c \in Calls, Ask(c)
  PROVE  IInv'
<1>1. PICK r \in RequestType :
        /\ arg' = [arg EXCEPT ![c] = r]
        /\ Await(c, FirstRequest(r))
  BY RequestAssumption DEF Ask
<1>2. TypeOK'
  BY <1>1 DEF IInv, TypeOK, Ask, Await, FirstRequest
<1>3. RaceInv'
  BY <1>1 DEF IInv, TypeOK, RaceInv, Ask, Await, FirstRequest
<1>4. NamedInv'
  BY <1>1 DEF IInv, TypeOK, NamedInv, Ask, Await, FirstRequest
<1>5. ToolInv'
  BY <1>1 DEF IInv, TypeOK, ToolInv, Ask, Await, FirstRequest, RequestType
<1> QED BY <1>2, <1>3, <1>4, <1>5 DEF IInv

\* An agent accepts: the same request again, with what was shown.
LEMMA AcceptKeeps ==
  ASSUME IInv, NEW c \in Calls, Accept(c)
  PROVE  IInv'
<1>1. arg' = [arg EXCEPT ![c] = [arg[c] EXCEPT !.confirm = TRUE]]
  BY DEF Accept
<1>2. [arg[c] EXCEPT !.confirm = TRUE] \in RequestType
  BY DEF IInv, TypeOK, RequestType
<1>3. \A d \in Calls : arg'[d].tool = arg[d].tool /\ arg'[d].sel = arg[d].sel
  BY <1>1 DEF IInv, TypeOK, RequestType
<1>4. TypeOK'
  BY <1>1, <1>2 DEF IInv, TypeOK, Accept, Await, FirstRequest
<1>5. RaceInv'
  BY DEF IInv, TypeOK, RaceInv, Accept, Await, FirstRequest
<1>6. NamedInv'
  BY <1>3 DEF IInv, TypeOK, NamedInv, Accept, Await, FirstRequest
<1>7. ToolInv'
  BY <1>3 DEF IInv, TypeOK, ToolInv, Accept, Await, FirstRequest, RequestType
<1> QED BY <1>4, <1>5, <1>6, <1>7 DEF IInv

\* A call goes on to another request of its tool, or to an agent's answer.
LEMMA ReadStatusKeeps ==
  ASSUME IInv, NEW c \in Calls, ReadStatus(c)
  PROVE  IInv'
<1>1. CASE Finish(c) /\ UNCHANGED since
  BY <1>1, FinishKeeps DEF ReadStatus, IInv, TypeOK
<1>2. CASE Await(c, "readUsers") /\ UNCHANGED <<arg, targets, existing, historyVars>>
  BY <1>2 DEF ReadStatus, IInv, TypeOK, RaceInv, NamedInv, ToolInv, Await, historyVars
<1> QED BY <1>1, <1>2 DEF ReadStatus

\* share_lab knows the users, and goes on to the shares.
LEMMA ReadUsersKeeps ==
  ASSUME IInv, NEW c \in Calls, ReadUsers(c)
  PROVE  IInv'
<1> DEFINE chosen == ShareTargets(arg[c], users)
<1>1. CASE Finish(c) /\ UNCHANGED since
  BY <1>1, FinishKeeps DEF ReadUsers, IInv, TypeOK
<1>2. CASE /\ Await(c, "readShared")
           /\ targets' = [targets EXCEPT ![c] = chosen]
           /\ UNCHANGED <<arg, existing, historyVars>>
  <2>1. chosen \subseteq Users
    BY SharesListed DEF IInv, TypeOK
  <2> HIDE DEF chosen
  <2> QED
    BY <1>2, <2>1 DEF ReadUsers, IInv, TypeOK, RaceInv, NamedInv, ToolInv, Await, historyVars
<1> QED BY <1>1, <1>2 DEF ReadUsers

\* The shares are read: nobody is added to them yet.
LEMMA ReadSharedKeeps ==
  ASSUME IInv, NEW c \in Calls, ReadShared(c)
  PROVE  IInv'
<1>1. CASE Finish(c) /\ UNCHANGED since
  BY <1>1, FinishKeeps DEF ReadShared, IInv, TypeOK
<1>2. CASE /\ Await(c, "putShared")
           /\ existing' = [existing EXCEPT ![c] = shared]
           /\ UNCHANGED <<arg, targets, historyVars>>
  BY <1>2 DEF ReadShared, IInv, TypeOK, RaceInv, NamedInv, ToolInv, Await, historyVars
<1>3. CASE AskToConfirm(c, targets[c] \ shared)
  BY <1>3 DEF ReadShared, IInv, TypeOK, RaceInv, NamedInv, ToolInv, AskToConfirm, Await, Forget
<1> QED BY <1>1, <1>2, <1>3 DEF ReadShared

\* The shares are written: every other call that is about to do so is owed the new ones.
LEMMA PutSharedKeeps ==
  ASSUME IInv, NEW c \in Calls, PutShared(c)
  PROVE  IInv'
<1>1. Merged(c) \subseteq Users
  BY DEF IInv, TypeOK, Merged
<1>2. TypeOK'
  BY <1>1, NoRequestType DEF IInv, TypeOK, PutShared, Finish, Await, Forget
<1>3. RaceInv'
  BY DEF IInv, TypeOK, RaceInv, PutShared, Finish, Await, Forget
<1>4. NamedInv'
  BY DEF IInv, TypeOK, NamedInv, PutShared, Finish, Await, Forget, NoRequest
<1>5. ToolInv'
  BY DEF IInv, TypeOK, ToolInv, PutShared, Finish, Await, Forget
<1> QED BY <1>2, <1>3, <1>4, <1>5 DEF IInv

\* delete_user has found one user, which is the one that was named if one was.
LEMMA FindUsersKeeps ==
  ASSUME IInv, NEW c \in Calls, FindUsers(c)
  PROVE  IInv'
<1> DEFINE chosen == DeleteTargets(users \cap arg[c].among, Self, arg[c].sel)
<1>1. CASE Finish(c) /\ UNCHANGED since
  BY <1>1, FinishKeeps DEF FindUsers, IInv, TypeOK
<1>2. ASSUME Cardinality(chosen) = 1
      PROVE  /\ chosen \subseteq Users
             /\ arg[c].sel.how = "names" => chosen = arg[c].sel.picks
  BY <1>2, DeletesListed DEF IInv, TypeOK
<1>3. CASE /\ Cardinality(chosen) = 1
           /\ Await(c, "deleteUser")
           /\ targets' = [targets EXCEPT ![c] = chosen]
           /\ UNCHANGED <<arg, existing, historyVars>>
  <2> HIDE DEF chosen
  <2> QED
    BY <1>2, <1>3 DEF FindUsers, IInv, TypeOK, RaceInv, NamedInv, ToolInv, Await, historyVars
<1>4. CASE Cardinality(chosen) = 1 /\ AskToConfirm(c, chosen)
  <2> HIDE DEF chosen
  <2> QED
    BY <1>2, <1>4
    DEF FindUsers, IInv, TypeOK, RaceInv, NamedInv, ToolInv, AskToConfirm, Await, Forget
<1> QED BY <1>1, <1>3, <1>4 DEF FindUsers, Self

\* Every step of every conversation preserves the invariant.
LEMMA NextIInv == IInv /\ [Next]_vars => IInv'
<1> SUFFICES ASSUME IInv, [Next]_vars PROVE IInv'
  OBVIOUS
<1>1. CASE AddUser
  BY <1>1 DEF AddUser, IInv, TypeOK, RaceInv, NamedInv, ToolInv, callVars, historyVars
<1>2. ASSUME NEW c \in Calls, Raise(c) PROVE IInv'
  BY <1>2, FinishKeeps DEF Raise, IInv, TypeOK
<1>3. ASSUME NEW c \in Calls, DeleteUser(c) PROVE IInv'
  BY <1>3, FinishKeeps DEF DeleteUser, IInv, TypeOK
<1>4. ASSUME NEW c \in Calls, CallStep(c) PROVE IInv'
  BY <1>2, <1>3, <1>4, AskKeeps, AcceptKeeps, ReadStatusKeeps, ReadUsersKeeps,
     ReadSharedKeeps, PutSharedKeeps, FindUsersKeeps DEF CallStep
<1>5. CASE UNCHANGED vars
  BY <1>5 DEF vars, callVars, historyVars, IInv, TypeOK, RaceInv, NamedInv, ToolInv
<1> QED BY <1>1, <1>4, <1>5 DEF Next

\* The invariant holds in every reachable state of the conversations.
THEOREM Invariance == Spec => []IInv
  BY InitIInv, NextIInv, PTL DEF Spec

\* share_lab takes a share away only from who was added after it had read the shares.
THEOREM SharesLostInRacesOnly == Spec => LosesOnlyInRace
<1>1. IInv => \A c \in Calls : PutShared(c) => shared \ shared' \subseteq since[c]
  BY DEF IInv, RaceInv, PutShared, Merged
<1> QED BY <1>1, Invariance, PTL DEF LosesOnlyInRace

\* delete_user with an exact name deletes whom its confirmation showed.
THEOREM NamesAreSafe == Spec => NamedDeletesAsShown
<1>1. IInv => \A c \in accepted :
         DeleteUser(c) /\ arg[c].sel.how = "names" => users \ users' \subseteq shown[c]
  BY DEF IInv, TypeOK, NamedInv, ToolInv, DeleteUser
<1> QED BY <1>1, Invariance, PTL DEF NamedDeletesAsShown
=============================================================================
