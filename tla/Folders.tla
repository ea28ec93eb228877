------------------------------- MODULE Folders ------------------------------
(***************************************************************************)
(* The tools that look for folders and labs anywhere on the server.        *)
(* EVE-NG lists one folder per request, so list_all_labs and               *)
(* list_all_folders walk the tree themselves, one request after the other, *)
(* while other calls and other users change it.  One call is modelled at a *)
(* time; what the others do is in Elsewhere.                               *)
(*                                                                         *)
(* A folder is its number in Path, which lists all paths in the order in   *)
(* which a result is sorted; "/", the first, is the empty path.  A result  *)
(* has entries: a lab's folder and its name, a number, or a folder and 0.  *)
(***************************************************************************)
EXTENDS Selection, SequencesExt

CONSTANTS
  Path,         \* the paths there may be, in order, each a sequence of names
  InOrder,      \* InOrder[F]: the folders F in the order in which EVE-NG lists them
  NameCount,    \* how many names of labs there may be
  Running,      \* the folder that shows labs that are elsewhere
  Requests,     \* the first calls of dialogues
  MaxDepth,     \* max_depth
  MaxFolders,   \* max_folders
  MaxChanges    \* bound: how often others change the tree

Dirs == DOMAIN Path
Root == 1
Labs == [in : Dirs, name : 1 .. NameCount]
Entries == [in : Dirs, name : 0 .. NameCount]

\* The entries of the folders F.
AsEntries(F) == [in : F, name : {0}]

\* The order of entries.
Rank(e) == e.in * (NameCount + 1) + e.name

\* among: what the search text matches; a name in sel is the rank of its entry.
RequestType ==
  [tool : {"listLabs", "deleteLab", "deleteFolder"}, start : Dirs,
   among : SUBSET Entries, sel : SelectionsOf({Rank(e) : e \in Entries}), confirm : BOOLEAN]

ASSUME FolderAssumption ==
  /\ Path[Root] = << >> /\ Running \in Dirs
  /\ \A f, g \in Dirs : Path[f] = Path[g] => f = g
  /\ \A f \in Dirs : \A n \in 0 .. Len(Path[f]) : \E g \in Dirs : Path[g] = SubSeq(Path[f], 1, n)
  /\ Requests \subseteq RequestType /\ Requests # {}
  /\ NameCount \in Nat /\ MaxDepth \in Nat /\ MaxFolders \in Nat /\ MaxChanges \in Nat

ASSUME PathAssumption ==
  /\ Path \in Seq(Seq(STRING)) /\ Root \in Dirs
  /\ InOrder \in [SUBSET Dirs -> Seq(Dirs)]
  /\ \A F \in SUBSET Dirs : ToSet(InOrder[F]) = F

VARIABLES
  folders,      \* EVE-NG: the folders that exist
  labs,         \* EVE-NG: the labs, each with its folder
  pc,           \* the request the call waits for; "asked": an answer is awaited
  arg,          \* the arguments of the call
  visited,      \* the folders whose listing has been asked for
  queue,        \* [dir, depth] of the folders to list, in turn
  found,        \* the labs, or the folders, that the walk has found
  target,       \* what is to be deleted, as a set
  \* history
  stays,        \* the folders and labs that have been there all through the walk
  inTime,       \* what was put into the target since its listing was read
  changes       \* how often others have changed the tree

serverVars == <<folders, labs>>
walkVars   == <<visited, queue, found>>
vars == <<serverVars, pc, arg, walkVars, target, stays, inTime, changes>>
-----------------------------------------------------------------------------
\* f is g or somewhere below g.
Below(f, g) == IsPrefix(Path[g], Path[f])
Depth(f, g) == Len(Path[f]) - Len(Path[g])

\* g is a folder right in f.
Child(g, f) == Below(g, f) /\ Depth(g, f) = 1

ChildrenOf(f) == {g \in folders : Child(g, f)}
LabsIn(f) == {l \in labs : l.in = f}

\* Every folder of F has those above it.
Closed(F) == \A f \in F, g \in Dirs : Below(f, g) => g \in F

Init ==
  /\ folders \in {F \in SUBSET Dirs : {Root, Running} \subseteq F /\ Closed(F)}
  /\ labs \in SUBSET {l \in Labs : l.in \in folders \ {Running}}
  /\ pc = "idle" /\ arg = (CHOOSE r \in Requests : TRUE)
  /\ visited = {} /\ queue = << >> /\ found = {} /\ target = {}
  /\ stays = {} /\ inTime = {} /\ changes = 0

Present == AsEntries(folders) \cup labs

\* The call answers or raises.
Finish(status) ==
  /\ pc' = status
  /\ visited' = {} /\ queue' = << >> /\ found' = {} /\ target' = {}
  /\ stays' = {} /\ inTime' = {}

\* An agent calls one of the tools.
Ask ==
  /\ pc \in {"idle", "asked"}
  /\ \E r \in Requests : arg' = r
  /\ pc' = "walk"
  /\ queue' = << [dir |-> arg'.start, depth |-> 0] >>
  /\ stays' = Present
  /\ UNCHANGED <<serverVars, visited, found, target, inTime, changes>>

\* It accepts what it was shown: the same call with confirm=true, and a new walk.
Accept ==
  /\ pc = "asked"
  /\ arg' = [arg EXCEPT !.confirm = TRUE]
  /\ pc' = "walk"
  /\ queue' = << [dir |-> arg.start, depth |-> 0] >>
  /\ stays' = Present
  /\ UNCHANGED <<serverVars, visited, found, target, inTime, changes>>

\* A request fails, or the task is cancelled.
Raise ==
  /\ pc \notin {"idle", "asked"}
  /\ Finish("idle")
  /\ UNCHANGED <<serverVars, arg, changes>>

-----------------------------------------------------------------------------
(* list_all_labs and list_all_folders *)

\* Mutant of Listed: ".." is taken for a folder.
ListedWithParent(f) == ChildrenOf(f) \cup {g \in folders : f \in ChildrenOf(g)}

\* The listing of f also has "..", which is skipped by its name.
Listed(f) == ChildrenOf(f)

QueuedIf(deeper, f, d) ==
  LET next == InOrder[Listed(f) \ visited] IN
  IF deeper THEN [i \in DOMAIN next |-> [dir |-> next[i], depth |-> d + 1]] ELSE << >>

\* Mutant of Queued: the deepest level is left out.
QueuedShallow(f, d) == QueuedIf(d + 1 < MaxDepth, f, d)

\* Mutant of Queued: there is no max_depth.
QueuedDeeper(f, d) == QueuedIf(TRUE, f, d)

\* What is yet to visit once the listing of f, at depth d, has come.
Queued(f, d) == QueuedIf(d < MaxDepth, f, d)

\* What the walk keeps of the listing; Running shows labs under their own paths.
Collected(f) ==
  IF arg.tool = "deleteFolder" THEN AsEntries(Listed(f) \ (visited \cup {f})) ELSE LabsIn(f)

Ceiling == Cardinality(visited) >= MaxFolders

\* Every folder in the queue has been visited, so that the loop only pops them.
Exhausted == \A i \in DOMAIN queue : queue[i].dir \in visited

\* Mutant of WalkOver: at the ceiling the loop goes on.
WalkOverEmpty == Exhausted

\* The walk has no folder to visit, or may not visit one more.
WalkOver == Exhausted \/ Ceiling

\* The folder at i is the next one to be listed: those before it are skipped.
Turn(i) == queue[i].dir \notin visited /\ \A j \in 1 .. i - 1 : queue[j].dir \in visited

Visit ==
  /\ pc = "walk" /\ ~Ceiling
  /\ \E i \in DOMAIN queue :
       LET f == queue[i].dir IN
       /\ Turn(i) /\ f \in folders
       /\ visited' = visited \cup {f}
       /\ queue' = SubSeq(queue, i + 1, Len(queue)) \o Queued(f, queue[i].depth)
       /\ \E elsewhere \in IF f = Running /\ arg.tool # "deleteFolder" THEN SUBSET labs ELSE {{}} :
            found' = found \cup Collected(f) \cup elsewhere
  /\ UNCHANGED <<serverVars, pc, arg, target, stays, inTime, changes>>

-----------------------------------------------------------------------------
(* What the tools do with it. *)

\* run_delete_flow, for one item at a time.
Chosen ==
  LET cands == found \cap arg.among
      ranks == {Rank(e) : e \in cands}
  IN {e \in cands : Rank(e) \in DeleteTargets(ranks, [k \in ranks |-> k], arg.sel)}

\* The walk is over: no request comes between it and what follows.
Decide ==
  /\ pc = "walk" /\ WalkOver
  /\ \/ /\ arg.tool = "listLabs" \/ Cardinality(Chosen) # 1
        /\ Finish("idle")
     \/ /\ arg.tool # "listLabs" /\ Cardinality(Chosen) = 1 /\ ~arg.confirm
        /\ Finish("asked")
     \/ /\ arg.tool # "listLabs" /\ Cardinality(Chosen) = 1 /\ arg.confirm
        /\ pc' = IF arg.tool = "deleteLab" THEN "deleteLab" ELSE "readContents"
        /\ target' = Chosen
        /\ visited' = {} /\ queue' = << >> /\ found' = {} /\ stays' = {}
        /\ UNCHANGED inTime
  /\ UNCHANGED <<serverVars, arg, changes>>

DeleteLab ==
  /\ pc = "deleteLab"
  /\ target \subseteq labs
  /\ labs' = labs \ target
  /\ Finish("idle")
  /\ UNCHANGED <<folders, arg, changes>>

\* Mutant of Contents: only labs count.
ContentsLabs(f) == LabsIn(f)

\* _folder_contents_bullets
Contents(f) == LabsIn(f) \cup AsEntries(ChildrenOf(f))

\* The folder that is to be deleted.
TargetDir == (CHOOSE e \in target : TRUE).in

ReadContents ==
  /\ pc = "readContents"
  /\ TargetDir \in folders
  /\ \/ /\ Contents(TargetDir) = {}
        /\ pc' = "deleteFolder"
        /\ UNCHANGED <<walkVars, target, stays, inTime>>
     \/ Contents(TargetDir) # {} /\ Finish("idle")
  /\ UNCHANGED <<serverVars, arg, changes>>

\* The folders of F and below, and the labs in them, are gone.
Within(F) == {g \in folders : \E f \in F : Below(g, f)}
DropTree(f) ==
  /\ folders' = folders \ Within({f})
  /\ labs' = {l \in labs : l.in \notin Within({f})}

\* Whether EVE-NG deletes a folder that is not empty is not known; it may.
DeleteFolder ==
  /\ pc = "deleteFolder"
  /\ TargetDir \in folders
  /\ DropTree(TargetDir)
  /\ Finish("idle")
  /\ UNCHANGED <<arg, changes>>

\* A request fails because what it is about has been deleted or moved.
Gone ==
  /\ \/ /\ pc = "walk" /\ ~Ceiling
        /\ \E i \in DOMAIN queue : Turn(i) /\ queue[i].dir \notin folders
     \/ pc = "deleteLab" /\ ~(target \subseteq labs)
     \/ pc \in {"readContents", "deleteFolder"} /\ TargetDir \notin folders
  /\ Finish("idle")
  /\ UNCHANGED <<serverVars, arg, changes>>

Step == Gone \/ Visit \/ Decide \/ DeleteLab \/ ReadContents \/ DeleteFolder

-----------------------------------------------------------------------------
(***************************************************************************)
(* What add_folder, move_folder, move_lab, the other delete tools and the  *)
(* web interface do meanwhile.                                             *)
(***************************************************************************)
AddFolder ==
  /\ \E f \in Dirs \ folders :
       /\ \E g \in folders \ {Running} : Child(f, g)
       /\ folders' = folders \cup {f}
  /\ UNCHANGED labs

\* The path of h, and h's number, when f becomes g.
Rebased(h, f, g) == Path[g] \o SubSeq(Path[h], Len(Path[f]) + 1, Len(Path[h]))
Moved(h, f, g) == CHOOSE k \in Dirs : Path[k] = Rebased(h, f, g)

MoveFolder ==
  \E f \in folders \ {Root, Running}, g \in Dirs \ folders :
    /\ ~Below(g, f) /\ \E p \in folders \ {Running} : Child(g, p)
    /\ \A h \in Within({f}) : \E k \in Dirs : Path[k] = Rebased(h, f, g)
    /\ folders' = (folders \ Within({f})) \cup {Moved(h, f, g) : h \in Within({f})}
    /\ labs' = {IF l.in \in Within({f}) THEN [l EXCEPT !.in = Moved(l.in, f, g)] ELSE l : l \in labs}

RemoveFolder == \E f \in folders \ {Root, Running} : DropTree(f)

AddLab ==
  /\ \E l \in Labs \ labs : l.in \in folders \ {Running} /\ labs' = labs \cup {l}
  /\ UNCHANGED folders

MoveLab ==
  /\ \E l \in labs, f \in folders \ {Running} :
       /\ [l EXCEPT !.in = f] \notin labs
       /\ labs' = (labs \ {l}) \cup {[l EXCEPT !.in = f]}
  /\ UNCHANGED folders

Elsewhere ==
  /\ changes < MaxChanges
  /\ changes' = changes + 1
  /\ AddFolder \/ MoveFolder \/ RemoveFolder \/ AddLab \/ MoveLab
  /\ stays' = stays \cap Present'
  /\ inTime' = IF pc = "deleteFolder"
               THEN inTime \cup (Present' \ Present) ELSE {}
  /\ UNCHANGED <<pc, arg, walkVars, target>>

Next == Ask \/ Accept \/ Raise \/ Step \/ Elsewhere

Spec == Init /\ [][Next]_vars

\* Every request comes back.
FairSpec == Spec /\ WF_vars(Step)
-----------------------------------------------------------------------------
TypeOK ==
  /\ folders \subseteq Dirs /\ labs \subseteq Labs
  /\ pc \in {"idle", "asked", "walk", "deleteLab", "readContents", "deleteFolder"}
  /\ arg \in RequestType
  /\ visited \subseteq Dirs /\ queue \in Seq([dir : Dirs, depth : 0 .. MaxDepth])
  /\ found \subseteq Entries /\ target \subseteq Entries
  /\ stays \subseteq Entries /\ inTime \subseteq Entries /\ changes \in 0 .. MaxChanges

\* A lab within max_depth of the start that stays where it is, in folders that do, is found
\* by a walk that max_folders does not stop, whatever else changes meanwhile.
FindsLabsThatStay ==
  pc = "walk" /\ Exhausted /\ arg.tool # "deleteFolder" =>
    \A l \in stays \cap Labs :
      Below(l.in, arg.start) /\ Depth(l.in, arg.start) <= MaxDepth => l \in found

\* So is a folder, also at the depth that is not looked into any more.
FindsFoldersThatStay ==
  pc = "walk" /\ Exhausted /\ arg.tool = "deleteFolder" =>
    \A f \in stays \cap AsEntries(Dirs) :
      Below(f.in, arg.start) /\ Depth(f.in, arg.start) \in 1 .. MaxDepth + 1 => f \in found

\* A walk never leaves the folder it starts in.
StaysBelowStart == \A f \in visited : Below(f, arg.start)

(***************************************************************************)
(* The inductive invariant.  A walk is right in the middle because of what *)
(* is still waiting in its queue: from every folder that it has listed, it *)
(* reaches what stays below, or a folder on the way there is waiting.      *)
(***************************************************************************)
TreeInv == Closed(folders) /\ \A l \in labs : l.in \in folders

StaysIn == {f \in Dirs : [in |-> f, name |-> 0] \in stays}

\* What stays is there, and so are the folders that it is in.
StayInv == stays \subseteq Present /\ Closed(StaysIn) /\ \A e \in stays : e.in \in StaysIn

\* Only the start of the walk is visited before its parent.
ParentVisited(f) == f # arg.start => \A g \in Dirs : Child(f, g) => g \in visited

QueueInv ==
  \A i \in DOMAIN queue :
    /\ Below(queue[i].dir, arg.start) /\ queue[i].depth = Depth(queue[i].dir, arg.start)
    /\ ParentVisited(queue[i].dir)

VisitedInv ==
  \A f \in visited :
    Below(f, arg.start) /\ Depth(f, arg.start) <= MaxDepth /\ ParentVisited(f)

Waiting(f) == f \notin visited /\ \E i \in DOMAIN queue : queue[i].dir = f

WalkInv ==
  pc = "walk" =>
    /\ arg.start \in visited \/ Waiting(arg.start)
    /\ \A h \in visited, f \in StaysIn : Below(f, h) /\ Depth(f, arg.start) <= MaxDepth =>
         f \in visited \/ \E g \in Dirs : Waiting(g) /\ Below(f, g) /\ Below(g, h) /\ g # h

FoundInv ==
  IF arg.tool = "deleteFolder"
  THEN /\ found \subseteq AsEntries(Dirs)
       /\ \A f \in StaysIn, g \in visited : Child(f, g) => [in |-> f, name |-> 0] \in found
  ELSE \A l \in stays \cap Labs : l.in \in visited => l \in found

RestInv ==
  pc # "walk" => visited = {} /\ queue = << >> /\ found = {} /\ stays = {}

TargetInv ==
  pc \in {"readContents", "deleteFolder"} => \E f \in Dirs : target = AsEntries({f})

\* Whatever is in a folder that is about to be deleted came after the look at it.
LateInv ==
  pc = "deleteFolder" =>
    \A e \in Present : Below(e.in, TargetDir) => e \in target \cup inTime

IInv ==
  /\ TypeOK /\ TreeInv /\ StayInv /\ QueueInv /\ VisitedInv
  /\ WalkInv /\ FoundInv /\ RestInv /\ TargetInv /\ LateInv

\* delete_folder deletes a folder with contents only if they came after its look at them.
EmptyUnlessInTime ==
  [][DeleteFolder => Present \ Present' \subseteq target \cup inTime]_vars

\* A walk ends, however the tree is changed under it.
WalksEnd == (pc = "walk") ~> (pc # "walk")
=============================================================================
