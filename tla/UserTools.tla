----------------------------- MODULE UserTools ------------------------------
(***************************************************************************)
(* share_lab and the user tools: dialogues in which an agent asks, is      *)
(* shown what would be done, and calls again with confirm.  No tool        *)
(* remembers anything: the confirmed call searches again, outside of any   *)
(* lock, in a list of users and of shares that others change.              *)
(*                                                                         *)
(* Users are numbers, in the order in which lists show them; two users are *)
(* never equal but for case.  A search is the set of users that match it;  *)
(* an empty text, which delete_user refuses before any request, is none.   *)
(***************************************************************************)
EXTENDS Selection

CONSTANTS
  Calls,        \* conversations, with one call at a time each
  Users,        \* the users there may be
  Requests,     \* the first calls of dialogues
  ListLimit     \* _SHARE_LIST_LIMIT

ASSUME UserAssumption == Users \subseteq Nat /\ ListLimit \in Nat \ {0}

Selections ==
  SelectionsOf(Users) \cup [how : {"all"}, picks : {{}}]

\* search.everyone: the text is "all".
RequestType ==
  [tool : {"share", "delete"}, everyone : BOOLEAN, among : SUBSET Users,
   sel : Selections, confirm : BOOLEAN]

ASSUME RequestAssumption == Requests \subseteq RequestType

VARIABLES
  users,        \* EVE-NG: the users that exist
  shared,       \* EVE-NG: the lab's `shared` list
  pc,           \* pc[c]: the request the call waits for; "asked": an answer is
  arg,          \* arg[c]: the arguments of the call
  targets,      \* targets[c]: whom it is about
  existing,     \* existing[c]: the shares it has read
  \* history
  shown,        \* shown[c]: whom the answer that asked for confirmation listed
  accepted,     \* the conversations whose call confirms such an answer
  since         \* since[c]: who was added to the shares after c read them

callVars    == <<pc, arg, targets, existing>>
historyVars == <<shown, accepted, since>>
vars == <<users, shared, callVars, historyVars>>

NoRequest ==
  [tool |-> "delete", everyone |-> FALSE, among |-> {},
   sel |-> [how |-> "none", picks |-> {}], confirm |-> FALSE]

Init ==
  /\ users \in SUBSET Users /\ shared \in SUBSET users
  /\ pc = [c \in Calls |-> "idle"]
  /\ arg = [c \in Calls |-> NoRequest]
  /\ targets = [c \in Calls |-> {}] /\ existing = [c \in Calls |-> {}]
  /\ shown = [c \in Calls |-> {}]
  /\ accepted = {}
  /\ since = [c \in Calls |-> {}]

Await(c, request) == pc' = [pc EXCEPT ![c] = request]

\* Call c has ended: what it has read is gone.
Forget(c) ==
  /\ targets' = [targets EXCEPT ![c] = {}]
  /\ existing' = [existing EXCEPT ![c] = {}]

\* The tool answers or raises; there is nothing to confirm.
Finish(c) ==
  /\ Await(c, "idle") /\ Forget(c)
  /\ arg' = [arg EXCEPT ![c] = NoRequest]
  /\ shown' = [shown EXCEPT ![c] = {}]
  /\ accepted' = accepted \ {c}

\* The tool answers "confirmation_required" with the list S.
AskToConfirm(c, S) ==
  /\ Await(c, "asked") /\ Forget(c)
  /\ shown' = [shown EXCEPT ![c] = S]
  /\ UNCHANGED <<arg, accepted, since>>

FirstRequest(r) == IF r.tool = "share" THEN "readStatus" ELSE "findUsers"
-----------------------------------------------------------------------------
\* An agent calls one of the tools, with or without confirm.
Ask(c) ==
  /\ pc[c] \in {"idle", "asked"}
  /\ \E r \in Requests :
       /\ arg' = [arg EXCEPT ![c] = r]
       /\ Await(c, FirstRequest(r))
  /\ shown' = [shown EXCEPT ![c] = {}]
  /\ accepted' = accepted \ {c}
  /\ UNCHANGED <<users, shared, targets, existing, since>>

\* An agent accepts what it was shown: the same call, with confirm=true.
Accept(c) ==
  /\ pc[c] = "asked"
  /\ arg' = [arg EXCEPT ![c].confirm = TRUE]
  /\ Await(c, FirstRequest(arg[c]))
  /\ accepted' = accepted \cup {c}
  /\ UNCHANGED <<users, shared, targets, existing, shown, since>>

\* A request fails, or the task is cancelled.
Raise(c) ==
  /\ pc[c] \notin {"idle", "asked"}
  /\ Finish(c)
  /\ since' = [since EXCEPT ![c] = {}]
  /\ UNCHANGED <<users, shared>>

-----------------------------------------------------------------------------
(* share_lab *)

\* get_status: on Community, or without a version, sharing is refused.
ReadStatus(c) ==
  /\ pc[c] = "readStatus"
  /\ \/ /\ Await(c, "readUsers")
        /\ UNCHANGED <<arg, targets, existing, historyVars>>
     \/ Finish(c) /\ UNCHANGED since
  /\ UNCHANGED <<users, shared>>

\* Whom share_lab is about; {} if it answers with a list or an error instead.
\* A single match is taken whatever the selection says.
ShareTargets(r, all) ==
  LET matches == all \cap r.among IN
  IF r.everyone THEN all
  ELSE IF Cardinality(matches) > ListLimit THEN {}
  ELSE IF Cardinality(matches) = 1 \/ r.sel.how = "all" THEN matches
  ELSE IF r.sel.how = "none" THEN {}
  ELSE ResolveSelection(matches, [u \in Users |-> u], r.sel)

ReadUsers(c) ==
  LET chosen == ShareTargets(arg[c], users) IN
  /\ pc[c] = "readUsers"
  /\ \/ /\ chosen # {}
        /\ Await(c, "readShared")
        /\ targets' = [targets EXCEPT ![c] = chosen]
        /\ UNCHANGED <<arg, existing, historyVars>>
     \/ chosen = {} /\ Finish(c) /\ UNCHANGED since
  /\ UNCHANGED <<users, shared>>

\* _current_shared_users, and what is left to share.
ReadShared(c) ==
  LET new == targets[c] \ shared IN
  /\ pc[c] = "readShared"
  /\ \/ /\ new # {} /\ arg[c].confirm
        /\ Await(c, "putShared")
        /\ existing' = [existing EXCEPT ![c] = shared]
        /\ UNCHANGED <<arg, targets, historyVars>>
     \/ /\ new # {} /\ ~arg[c].confirm
        /\ AskToConfirm(c, new)
     \/ new = {} /\ Finish(c) /\ UNCHANGED since
  /\ UNCHANGED <<users, shared>>

\* Mutant of Merged: only the new users are sent.
MergedNot(c) == targets[c]

\* What is sent: EVE-NG has no request that adds a share, only one that sets all.
Merged(c) == existing[c] \cup targets[c]

PutShared(c) ==
  /\ pc[c] = "putShared"
  /\ shared' = Merged(c)
  /\ since' = [d \in Calls |-> IF d # c /\ pc[d] = "putShared"
                                THEN since[d] \cup (Merged(c) \ shared) ELSE {}]
  /\ Finish(c)
  /\ UNCHANGED users

-----------------------------------------------------------------------------
(* add_user and delete_user *)

\* A call of add_user is one request.
AddUser ==
  /\ \E u \in Users \ users : users' = users \cup {u}
  /\ UNCHANGED <<shared, callVars, historyVars>>

\* _find_users_by_username and run_delete_flow, for one user at a time.
FindUsers(c) ==
  LET chosen == DeleteTargets(users \cap arg[c].among, [u \in Users |-> u], arg[c].sel) IN
  /\ pc[c] = "findUsers"
  /\ \/ /\ Cardinality(chosen) = 1 /\ arg[c].confirm
        /\ Await(c, "deleteUser")
        /\ targets' = [targets EXCEPT ![c] = chosen]
        /\ UNCHANGED <<arg, existing, historyVars>>
     \/ /\ Cardinality(chosen) = 1 /\ ~arg[c].confirm
        /\ AskToConfirm(c, chosen)
     \/ Cardinality(chosen) # 1 /\ Finish(c) /\ UNCHANGED since
  /\ UNCHANGED <<users, shared>>

\* EVE-NG deletes the user; the shares keep the name.
DeleteUser(c) ==
  /\ pc[c] = "deleteUser"
  /\ targets[c] \subseteq users
  /\ users' = users \ targets[c]
  /\ Finish(c)
  /\ UNCHANGED <<shared, since>>

-----------------------------------------------------------------------------
CallStep(c) ==
  \/ Ask(c) \/ Accept(c) \/ Raise(c)
  \/ ReadStatus(c) \/ ReadUsers(c) \/ ReadShared(c) \/ PutShared(c)
  \/ FindUsers(c) \/ DeleteUser(c)

Next == AddUser \/ \E c \in Calls : CallStep(c)

Spec == Init /\ [][Next]_vars
-----------------------------------------------------------------------------
\* A share is only ever lost to a race: whoever share_lab removes was added after
\* it had read the shares.
LosesOnlyInRace ==
  [][\A c \in Calls : PutShared(c) => shared \ shared' \subseteq since[c]]_vars

\* A deletion that names its user exactly deletes whom its confirmation showed,
\* however the list has changed since.
NamedDeletesAsShown ==
  [][\A c \in accepted :
       DeleteUser(c) /\ arg[c].sel.how = "names" => users \ users' \subseteq shown[c]]_vars

\* "the resolved item(s) are reported back [...]; call again with the same `selection`
\* plus confirm=true to delete them" (confirmation.py).
DeletesOnlyShown ==
  [][\A c \in accepted : DeleteUser(c) => users \ users' \subseteq shown[c]]_vars
-----------------------------------------------------------------------------
(***************************************************************************)
(* The inductive invariant.                                                *)
(***************************************************************************)
TypeOK ==
  /\ users \subseteq Users /\ shared \subseteq Users
  /\ pc \in [Calls -> {"idle", "asked", "readStatus", "readUsers", "readShared", "putShared",
                       "findUsers", "deleteUser"}]
  /\ arg \in [Calls -> RequestType]
  /\ targets \in [Calls -> SUBSET Users] /\ existing \in [Calls -> SUBSET Users]
  /\ shown \in [Calls -> SUBSET Users] /\ since \in [Calls -> SUBSET Users]
  /\ accepted \subseteq Calls

\* What share_lab is about to send lacks only what came after its reading.
RaceInv ==
  \A c \in Calls :
    IF pc[c] = "putShared" THEN shared \subseteq existing[c] \cup since[c] ELSE since[c] = {}

\* A call of delete_user that is shown or goes ahead by name is about that name.
NamedInv ==
  \A c \in Calls :
    arg[c].tool = "delete" /\ arg[c].sel.how = "names" =>
      /\ pc[c] = "asked" \/ c \in accepted => shown[c] = arg[c].sel.picks
      /\ pc[c] = "deleteUser" => targets[c] = arg[c].sel.picks

\* A call waits for requests of its own tool only.
ToolInv ==
  \A c \in Calls :
    /\ pc[c] \in {"readStatus", "readUsers", "readShared", "putShared"} => arg[c].tool = "share"
    /\ pc[c] \in {"findUsers", "deleteUser"} => arg[c].tool = "delete"

IInv == TypeOK /\ RaceInv /\ NamedInv /\ ToolInv
=============================================================================
