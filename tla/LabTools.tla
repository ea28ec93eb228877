------------------------------ MODULE LabTools ------------------------------
(***************************************************************************)
(* One lab with every tool that takes its lock, called by several agents   *)
(* at once: the composition of ConnectInterface, NodeTools and             *)
(* NetworkTools over the shared lab.                                       *)
(***************************************************************************)
EXTENDS ConnectInterface, NodeTools, NetworkTools

ASSUME RequestAssumption ==
  Requests \subseteq ConnectRequest \cup PowerRequest \cup EditRequest \cup BulkRequest
    \cup AddRequest \cup DeleteRequest \cup AddNetworkRequest \cup EditNetworkRequest
    \cup DeleteNetworkRequest

LabInit ==
  /\ nodes \in SUBSET Nodes
  /\ running \in SUBSET nodes
  /\ nodeName \in [Nodes -> Names]
  /\ place \in [Nodes -> Places]
  /\ nets \in SUBSET NetIds
  /\ hidden \in SUBSET nets
  /\ netName \in [NetIds -> Names]
  /\ wire \in [Nodes -> [Ifaces -> nets \cup {NoNet}]]
  /\ \A n \in Nodes \ nodes : wire[n] = [i \in Ifaces |-> NoNet]

Init == LabInit /\ CallsInit

\* A call gets the lock; a call inside the block takes a step.
Enter(c) == ConnectEntry(c) \/ NodeEntry(c) \/ NetworkEntry(c)
Step(c)  == ConnectStep(c) \/ NodeStep(c) \/ NetworkStep(c)

Next == \E c \in Calls : Begin(c) \/ GiveUp(c) \/ Enter(c) \/ Step(c) \/ Raise(c)

Spec == Init /\ [][Next]_vars

(***************************************************************************)
(* Fairness.  Every request is answered, fails or runs into the client's   *)
(* timeout, so a call inside the block goes on.  A call that waits for the *)
(* lock gets it: LabLock shows that the lock is handed over in order of    *)
(* arrival, of which strong fairness is all that matters here.             *)
(***************************************************************************)
Fairness == \A c \in Calls : WF_vars(Step(c) \/ Raise(c)) /\ SF_vars(Enter(c))

FairSpec == Spec /\ Fairness
-----------------------------------------------------------------------------
Steps == ConnectSteps \cup PowerSteps \cup EditSteps \cup BulkSteps \cup AddSteps
           \cup DeleteSteps \cup NetworkSteps

LabOK ==
  /\ nodes \in SUBSET Nodes
  /\ running \in SUBSET nodes
  /\ nodeName \in [Nodes -> Names]
  /\ place \in [Nodes -> Places]
  /\ nets \in SUBSET NetIds
  /\ hidden \in SUBSET nets
  /\ netName \in [NetIds -> Names]
  /\ wire \in [Nodes -> [Ifaces -> nets \cup {NoNet}]]

Locals ==
  [ src : Ifaces \cup {0}, dst : Ifaces \cup {0}, net : Nat,
    polls : 0..PollAttempts, slot : Given, todo : Seq(Nodes),
    targets : SUBSET (Nodes \cup NetIds), some : BOOLEAN, seen : SUBSET Nodes,
    seenName : [Nodes -> Names \cup {NoName}], seenNetName : Names \cup {NoName} ]

\* Every variable has its type; in particular an interface is on a network that
\* exists or on none, and only nodes that exist run.
TypeOK ==
  /\ LabOK
  /\ holder \in Calls \cup {NoCall}
  /\ pc \in [Calls -> {"idle", "queued"} \cup Steps]
  /\ arg \in [Calls -> Requests \cup {NoRequest}]
  /\ loc \in [Calls -> Locals]
  /\ reply \in Outcomes

\* Community cannot wire the interfaces of a running node: when a request that
\* wires an interface is on its way, its node is stopped, whatever other calls
\* start meanwhile.  (connect_interface checked it several requests earlier.)
WiredWhileStopped ==
  ~Pro =>
    \A c \in Calls :
      /\ pc[c] \in {"setSource", "setNetwork"} => arg[c].node \notin running
      /\ pc[c] = "setTarget" => arg[c].tnode \notin running

\* No edition can edit a running node: when an edit is on its way, its node is
\* stopped.  (A bulk edit decides from one list read before its loop.)
EditedWhileStopped ==
  \A c \in Calls :
    /\ pc[c] = "putNode" => arg[c].node \notin running
    /\ pc[c] = "bulkPut" => Head(loc[c].todo) \notin running

\* The step ends call c with a success.
Succeeds(c) == InBlock(c) /\ ~InBlock(c)' /\ reply' = "success"

\* A connected interface is only ever rewired by a call that confirmed it, and
\* only ever disconnected by deleting its node or its network.
NoSilentRewire ==
  [][\A n \in Nodes, i \in Ifaces :
       wire[n][i] \notin {NoNet, wire'[n][i]} =>
         \E c \in Calls :
           \/ pc[c] \in {"setSource", "setTarget", "setNetwork"} /\ arg[c].confirm
           \/ pc[c] \in {"deleteNodes", "deleteNetworks"}]_vars

\* When connect_interface reports a new line, its bridge is hidden and attached
\* to the two interfaces that were asked for, and to nothing else.
LineDrawn ==
  [][\A c \in Calls :
       pc[c] = "hideLine" /\ Succeeds(c) =>
         /\ loc[c].net \in nets' /\ loc[c].net \in hidden'
         /\ {e \in nodes' \X Ifaces : wire'[e[1]][e[2]] = loc[c].net} =
              {<<arg[c].node, loc[c].src>>, <<arg[c].tnode, loc[c].dst>>}]_vars

\* A node or a network is only renamed by an edit that gives a name: the name
\* that pads every other edit is still its name when EVE-NG gets it.
PaddingNeverRenames ==
  [][/\ \A n \in nodes \cap nodes' :
          nodeName'[n] # nodeName[n] =>
            \E c \in Calls : pc[c] = "putNode" /\ "name" \in arg[c].fields
     /\ \A k \in nets \cap nets' :
          netName'[k] # netName[k] =>
            \E c \in Calls : pc[c] = "putNetwork" /\ "name" \in arg[c].fields]_vars

\* An edit does not give a node the name of another one unless that was confirmed.
NoSilentDuplicate ==
  [][\A c \in Calls :
       /\ pc[c] = "putNode" /\ Succeeds(c)
       /\ "name" \in arg[c].fields /\ ~arg[c].confirm
       => \A n \in nodes \ {arg[c].node} : nodeName'[n] # arg[c].name]_vars

\* A network only disappears by delete_lab_network: hiding never deletes one,
\* neither the public edit nor the end of connect_interface.
HideNeverDeletes ==
  [][nets \subseteq nets' \/ \E c \in Calls : pc[c] = "deleteNetworks"]_vars

\* What a delete tool deletes still has a name that matches its search, although
\* it was found, and its name read, requests earlier.
DeletesWhatMatched ==
  [][\A c \in Calls :
       /\ pc[c] = "deleteNodes" =>
            \A n \in nodes \ nodes' : nodeName[n] \in arg[c].among
       /\ pc[c] = "deleteNetworks" =>
            \A k \in nets \ nets' : netName[k] \in arg[c].among]_vars

\* Nodes that are placed automatically never pile up on another node, however
\* many calls add nodes at once.
NoPileUp ==
  [][\A c \in Calls :
       pc[c] = "postNode" /\ Succeeds(c) /\ arg[c].slot = NoPlace =>
         \A n \in nodes' \ nodes, m \in nodes : ~Near(place'[n], place[m])]_vars

\* Every tool call ends: none waits for the lab for ever, whatever fails.
CallsFinish == \A c \in Calls : pc[c] # "idle" ~> pc[c] = "idle"
-----------------------------------------------------------------------------
(***************************************************************************)
(* The inductive invariant.  Only the holder of the lock is inside the     *)
(* block, so what it has read about the lab is still true when it acts on  *)
(* it; the conjuncts below say what that is at each of its requests.       *)
(***************************************************************************)
HolderInv == \A c \in Calls : InBlock(c) <=> holder = c

\* A call only waits for requests of its own tool.
ToolInv(c) ==
  /\ pc[c] \in ConnectSteps => arg[c].tool = "connect"
  /\ pc[c] \in PowerSteps => arg[c].tool \in {"start", "stop"}
  /\ pc[c] \in EditSteps => arg[c].tool = "editNode"
  /\ pc[c] \in BulkSteps => arg[c].tool = "editMany"
  /\ pc[c] \in AddSteps => arg[c].tool = "addNode"
  /\ pc[c] \in DeleteSteps => arg[c].tool = "deleteNode"
  /\ pc[c] \in {"readTypes", "postNetwork"} => arg[c].tool = "addNetwork"
  /\ pc[c] \in {"readNetwork", "putNetwork"} => arg[c].tool = "editNetwork"
  /\ pc[c] \in {"findNetworks", "deleteNetworks"} => arg[c].tool = "deleteNetwork"
  /\ pc[c] # "idle" => arg[c] \in Requests

\* Only the interfaces of nodes that exist are connected.
WireInv == \A n \in Nodes \ nodes, i \in Ifaces : wire[n][i] = NoNet

Rewirable(c, n, i) ==
  n \in nodes /\ i \in Ifaces /\ (wire[n][i] = NoNet \/ arg[c].confirm)

Source(c) == <<arg[c].node, loc[c].src>>
Target(c) == <<arg[c].tnode, loc[c].dst>>

\* connect_interface: the resolved interfaces exist and may be rewired, until
\* they are; the bridge is attached to what has been wired to it.
ConnectInv(c) ==
  /\ pc[c] \in {"readTarget", "readNetworks", "readStatus", "checkSource", "stopSource",
                "checkTarget", "stopTarget", "createLine", "pollLine", "setSource",
                "setNetwork"} => Rewirable(c, arg[c].node, loc[c].src)
  /\ pc[c] \in {"readTarget", "checkTarget", "stopTarget", "createLine", "pollLine",
                "setSource", "setTarget", "hideLine"} => arg[c].target = "node"
  /\ pc[c] = "readNetworks" => arg[c].target = "netName"
  /\ pc[c] \in {"readStatus", "checkSource", "stopSource", "checkTarget", "stopTarget",
                "createLine", "pollLine", "setSource"} /\ arg[c].target = "node"
       => Rewirable(c, arg[c].tnode, loc[c].dst)
  /\ pc[c] = "pollLine" => loc[c].net \in NetIds /\ Endpoints(loc[c].net) = {}
  /\ pc[c] = "setSource" => loc[c].net \in nets /\ Endpoints(loc[c].net) = {}
  /\ pc[c] = "setTarget" =>
       /\ loc[c].net \in nets /\ Endpoints(loc[c].net) = {Source(c)}
       /\ Target(c) # Source(c) => Rewirable(c, arg[c].tnode, loc[c].dst)
  /\ pc[c] = "hideLine" =>
       loc[c].net \in nets /\ Endpoints(loc[c].net) = {Source(c), Target(c)}

\* On Community the nodes that have been checked are stopped.
StopInv(c) ==
  ~Pro =>
    /\ pc[c] \in {"checkTarget", "stopTarget", "createLine", "pollLine", "setSource",
                  "setNetwork"} => arg[c].node \notin running
    /\ pc[c] \in {"createLine", "pollLine", "setSource", "setTarget"}
         => arg[c].tnode \notin running

\* edit_lab_node: the name that was read is the node's, and a name that was
\* checked for duplicates is still without one.
EditInv(c) ==
  /\ pc[c] \in {"stopNode", "putNode"} =>
       arg[c].node \in nodes /\ loc[c].seenName[arg[c].node] \in {nodeName[arg[c].node], NoName}
  /\ pc[c] \in {"readNode", "stopNode", "putNode"}
       /\ "name" \in arg[c].fields /\ ~arg[c].confirm
       => Duplicates(arg[c].node, arg[c].name) = {}
  /\ pc[c] = "putNode" => arg[c].node \notin running

\* A bulk edit: what the list said of the nodes still to be edited is still true.
BulkInv(c) ==
  pc[c] \in {"bulkStop", "bulkPut"} =>
    /\ loc[c].todo # <<>>
    /\ \A j \in 1..Len(loc[c].todo) :
         LET n == loc[c].todo[j] IN
         /\ n \in nodes
         /\ loc[c].seenName[n] = nodeName[n]
         /\ n \in running => n \in loc[c].seen
    /\ pc[c] = "bulkPut" => Head(loc[c].todo) \notin running

\* The loops: what is left exists, and matches what was searched for.
LoopInv(c) ==
  /\ pc[c] = "powerEach" => loc[c].targets # {} /\ loc[c].targets \subseteq nodes
  /\ pc[c] \in {"readVendors", "deleteNodes"} =>
       /\ loc[c].targets \subseteq nodes
       /\ \A n \in loc[c].targets : nodeName[n] \in arg[c].among
  /\ pc[c] = "deleteNetworks" =>
       /\ loc[c].targets \subseteq nets
       /\ \A k \in loc[c].targets : netName[k] \in arg[c].among

\* An automatic place is still free.
PlaceInv(c) ==
  /\ pc[c] = "readPlaces" => loc[c].slot = arg[c].slot
  /\ pc[c] = "postNode" =>
       /\ loc[c].slot \in Places
       /\ arg[c].slot = NoPlace => \A n \in nodes : ~Near(loc[c].slot, place[n])

\* A network that is about to be hidden is attached to something, and a name
\* that pads is still the network's.
NetworkInv(c) ==
  pc[c] = "putNetwork" =>
    /\ arg[c].visibility = "hide" => Endpoints(arg[c].net) # {}
    /\ NeedsPadding(arg[c]) => loc[c].seenNetName = netName[arg[c].net]

CallInv(c) ==
  /\ ToolInv(c) /\ ConnectInv(c) /\ StopInv(c) /\ EditInv(c) /\ BulkInv(c)
  /\ LoopInv(c) /\ PlaceInv(c) /\ NetworkInv(c)

\* What makes the properties above inductive: who holds the lock, and what every
\* call knows of the lab.
IInv == TypeOK /\ HolderInv /\ WireInv /\ \A c \in Calls : CallInv(c)
=============================================================================
