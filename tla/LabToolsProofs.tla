--------------------------- MODULE LabToolsProofs ---------------------------
(***************************************************************************)
(* Proofs about LabTools: its inductive invariant, and from it every       *)
(* safety property of the tools, for any number of calls, any requests and *)
(* any lab.  There is one lemma per request, and InXxx and XxxGoesOn say   *)
(* what a call of a tool knows inside the block and what is left to show   *)
(* when it goes on to another request.                                     *)
(***************************************************************************)
EXTENDS LabTools, FiniteSetTheorems, TLAPS

-----------------------------------------------------------------------------
\* A given place, completed, is a place; all of it may come from the other.
LEMMA CompletedPlace ==
  ASSUME NEW given \in Given, NEW p \in Places
  PROVE  Completed(given, p) \in Places /\ Completed(NoPlace, p) = p
BY LabAssumption DEF Completed, Given, Places, NoPlace

LEMMA PlacesGiven == NoPlace \in Given /\ Places \subseteq Given
BY DEF NoPlace, Given, Places

LEMMA GridInPlaces == ASSUME NEW i \in Nat PROVE GridAt(i) \in Places
BY DEF GridAt, Places, GridStart, GridGap, GridColumns

-----------------------------------------------------------------------------
(***************************************************************************)
(* What each request to EVE-NG leaves true of the lab.                     *)
(***************************************************************************)
LabInv == LabOK /\ WireInv

\* A request that only reads leaves the lab as it is.
LEMMA ReadKeepsLab ==
  ASSUME LabInv, UNCHANGED labVars
  PROVE  LabInv'
BY DEF LabInv, LabOK, WireInv, labVars, nodeVars, netVars

\* Starting or stopping a node.
LEMMA PowerKeepsLab ==
  ASSUME LabInv, NEW n, Start(n) \/ Stop(n)
  PROVE  LabInv'
BY DEF LabInv, LabOK, WireInv, Start, Stop, netVars

\* Editing a node.
LEMMA EditNodeKeepsLab ==
  ASSUME LabInv, NEW n, NEW name \in Names \cup {NoName}, NEW slot \in Given,
         EditNode(n, name, slot)
  PROVE  LabInv'
BY CompletedPlace DEF LabInv, LabOK, WireInv, EditNode, netVars

\* Adding a node, which is not connected to anything.
LEMMA AddNodeKeepsLab ==
  ASSUME LabInv, NEW n, NEW name \in Names, NEW slot \in Places, AddNode(n, name, slot)
  PROVE  LabInv'
BY DEF LabInv, LabOK, WireInv, AddNode, netVars

\* Deleting a node, which disconnects its interfaces.
LEMMA DeleteNodeKeepsLab ==
  ASSUME LabInv, NEW n, DeleteNode(n)
  PROVE  LabInv'
BY DEF LabInv, LabOK, WireInv, DeleteNode, netVars

\* Wiring an interface of a node to a network.
LEMMA SetInterfaceKeepsLab ==
  ASSUME LabInv, NEW n, NEW i \in Ifaces, NEW k, SetInterface(n, i, k)
  PROVE  LabInv'
BY DEF LabInv, LabOK, WireInv, SetInterface, nodeVars, netVars

\* Adding a network.
LEMMA AddNetworkKeepsLab ==
  ASSUME LabInv, NEW k, NEW name \in Names, AddNetwork(k, name)
  PROVE  LabInv'
BY DEF LabInv, LabOK, WireInv, AddNetwork, nodeVars

\* Editing a network; one that disappears because it is hidden has no endpoints,
\* so that no interface is left on it.
LEMMA EditNetworkKeepsLab ==
  ASSUME LabInv, NEW k, NEW name \in Names \cup {NoName}, NEW v, EditNetwork(k, name, v)
  PROVE  LabInv'
<1> DEFINE deleted == v = "hide" /\ Endpoints(k) = {}
<1>1. /\ k \in nets
      /\ nets' = IF deleted THEN nets \ {k} ELSE nets
      /\ hidden' \subseteq nets'
      /\ netName' \in [NetIds -> Names]
      /\ UNCHANGED <<nodes, running, nodeName, place, wire>>
  BY DEF LabInv, LabOK, EditNetwork, nodeVars
<1>2. wire \in [Nodes -> [Ifaces -> nets' \cup {NoNet}]]
  <2>1. CASE deleted
    <3>1. ASSUME NEW n \in Nodes, NEW i \in Ifaces PROVE wire[n][i] # k
      <4>1. CASE n \in nodes
        <5>1. <<n, i>> \in nodes \X Ifaces /\ <<n, i>> \notin Endpoints(k)
          BY <2>1, <4>1
        <5> QED BY <5>1 DEF Endpoints
      <4>2. CASE n \notin nodes
        BY <1>1, <4>2, LabAssumption DEF LabInv, LabOK, WireInv, NoNet
      <4> QED BY <4>1, <4>2
    <3> QED BY <1>1, <2>1, <3>1 DEF LabInv, LabOK
  <2>2. CASE ~deleted
    BY <1>1, <2>2 DEF LabInv, LabOK
  <2> QED BY <2>1, <2>2
<1> HIDE DEF deleted
<1> QED BY <1>1, <1>2 DEF LabInv, LabOK, WireInv

\* Deleting a network, which disconnects what was attached to it.
LEMMA DeleteNetworkKeepsLab ==
  ASSUME LabInv, NEW k, DeleteNetwork(k)
  PROVE  LabInv'
<1>1. \A n \in Nodes, i \in Ifaces :
        wire'[n][i] = IF wire[n][i] = k THEN NoNet ELSE wire[n][i]
  BY DEF DeleteNetwork
<1>2. wire' \in [Nodes -> [Ifaces -> nets' \cup {NoNet}]]
  BY DEF LabInv, LabOK, DeleteNetwork
<1> QED BY <1>1, <1>2 DEF LabInv, LabOK, WireInv, DeleteNetwork, nodeVars

-----------------------------------------------------------------------------
(***************************************************************************)
(* What a step of one call leaves true of all calls.                       *)
(***************************************************************************)
\* A call outside the block knows nothing of the lab.
LEMMA OutsideCall ==
  ASSUME NEW c, pc'[c] \in {"idle", "queued"}, pc'[c] = "queued" => arg'[c] \in Requests
  PROVE  CallInv(c)'
<1>1. ToolInv(c)'
  BY DEF ToolInv, ConnectSteps, PowerSteps, EditSteps, BulkSteps, AddSteps, DeleteSteps
<1>2. ConnectInv(c)' /\ StopInv(c)'
  BY DEF ConnectInv, StopInv
<1>3. EditInv(c)' /\ BulkInv(c)' /\ LoopInv(c)' /\ PlaceInv(c)' /\ NetworkInv(c)'
  BY DEF EditInv, BulkInv, LoopInv, PlaceInv, NetworkInv
<1> QED BY <1>1, <1>2, <1>3 DEF CallInv

\* While a call is inside the block, or the lock is free, every other call is
\* outside and has a request unless it is idle.
LEMMA OthersOutside ==
  ASSUME IInv, NEW c \in Calls, InBlock(c) \/ holder = NoCall, NEW d \in Calls, d # c
  PROVE  pc[d] \in {"idle", "queued"} /\ (pc[d] = "queued" => arg[d] \in Requests)
<1>1. ~InBlock(d)
  BY LabAssumption DEF IInv, HolderInv
<1> QED BY <1>1 DEF IInv, CallInv, ToolInv, InBlock

\* The names of the requests are not the names of the two states outside.
LEMMA StepsInside == "idle" \notin Steps /\ "queued" \notin Steps
BY DEF Steps, ConnectSteps, PowerSteps, EditSteps, BulkSteps, AddSteps, DeleteSteps,
       NetworkSteps

\* No locals are locals.
LEMMA NoLocalsType == NoLocals \in Locals
BY LabAssumption, PollAssumption, PlacesGiven DEF NoLocals, Locals, NoNames, NoNet

\* A call that ends frees the lock and forgets what it has read.
LEMMA FinishStep ==
  ASSUME IInv, NEW c \in Calls, NEW o \in Outcomes, InBlock(c), Finish(c, o), LabInv'
  PROVE  IInv'
<1>1. TypeOK'
  BY NoLocalsType DEF IInv, TypeOK, Finish, LabInv
<1>2. \A d \in Calls : pc'[d] \in {"idle", "queued"} /\ (pc'[d] = "queued" => arg'[d] \in Requests)
  BY OthersOutside DEF Finish, IInv, TypeOK
<1>3. HolderInv'
  BY <1>2, LabAssumption DEF HolderInv, InBlock, Finish
<1>4. \A d \in Calls : CallInv(d)'
  BY <1>2, OutsideCall
<1> QED BY <1>1, <1>3, <1>4 DEF IInv, LabInv

\* A call that answers without having changed anything.
LEMMA RefuseStep ==
  ASSUME IInv, NEW c \in Calls, InBlock(c), Refuse(c)
  PROVE  IInv'
<1>1. LabInv'
  BY ReadKeepsLab DEF IInv, TypeOK, LabInv, Refuse
<1> QED BY <1>1, FinishStep DEF Refuse, Outcomes

\* A call that goes on to its next request: what is left to show is what the call
\* knows at that request.
LEMMA AwaitStep ==
  ASSUME IInv, NEW c \in Calls, NEW request \in Steps, NEW l \in Locals, InBlock(c),
         Await(c, request, l), LabInv', CallInv(c)'
  PROVE  IInv'
<1>1. TypeOK'
  BY DEF IInv, TypeOK, Await, LabInv, Outcomes
<1>2. \A d \in Calls : d # c => pc'[d] = pc[d] /\ arg'[d] = arg[d]
  BY DEF Await, IInv, TypeOK
<1>3. HolderInv'
  <2>1. holder' = holder /\ holder = c
    BY DEF IInv, HolderInv, Await
  <2>2. pc'[c] = request /\ InBlock(c)'
    BY StepsInside DEF Await, IInv, TypeOK, InBlock
  <2>3. \A d \in Calls : d # c => ~InBlock(d)'
    BY <1>2, OthersOutside DEF InBlock
  <2> QED BY <2>1, <2>2, <2>3 DEF HolderInv
<1>4. \A d \in Calls : d # c => CallInv(d)'
  BY <1>2, OthersOutside, OutsideCall
<1> QED BY <1>1, <1>3, <1>4 DEF IInv, LabInv

\* A call that enters the block.
LEMMA EnterStep ==
  ASSUME IInv, NEW c \in Calls, NEW request \in Steps, holder = NoCall,
         EnterBlock(c, request), CallInv(c)'
  PROVE  IInv'
<1>1. LabInv'
  BY ReadKeepsLab DEF IInv, TypeOK, LabInv, EnterBlock
<1>2. TypeOK'
  BY <1>1 DEF IInv, TypeOK, EnterBlock, LabInv, Outcomes
<1>3. \A d \in Calls : d # c => pc'[d] = pc[d] /\ arg'[d] = arg[d]
  BY DEF EnterBlock, IInv, TypeOK
<1>4. HolderInv'
  <2>1. pc'[c] = request /\ InBlock(c)' /\ holder' = c
    BY StepsInside DEF EnterBlock, IInv, TypeOK, InBlock
  <2>2. \A d \in Calls : d # c => ~InBlock(d)'
    BY <1>3, OthersOutside DEF InBlock
  <2> QED BY <2>1, <2>2 DEF HolderInv
<1>5. \A d \in Calls : d # c => CallInv(d)'
  BY <1>3, OthersOutside, OutsideCall
<1> QED BY <1>1, <1>2, <1>4, <1>5 DEF IInv, LabInv

\* A call that is answered without having entered the block for a request.
LEMMA RefuseAtEntry ==
  ASSUME IInv, NEW c \in Calls, pc[c] = "queued", holder = NoCall, Refuse(c)
  PROVE  IInv'
<1>1. LabInv'
  BY ReadKeepsLab DEF IInv, TypeOK, LabInv, Refuse
<1>2. TypeOK'
  BY <1>1, NoLocalsType DEF IInv, TypeOK, Refuse, Finish, LabInv, Outcomes
<1>3. \A d \in Calls : pc'[d] \in {"idle", "queued"} /\ (pc'[d] = "queued" => arg'[d] \in Requests)
  BY OthersOutside DEF Refuse, Finish, IInv, TypeOK
<1>4. HolderInv'
  BY <1>3, LabAssumption DEF HolderInv, InBlock, Refuse, Finish
<1>5. \A d \in Calls : CallInv(d)'
  BY <1>3, OutsideCall
<1> QED BY <1>1, <1>2, <1>4, <1>5 DEF IInv, LabInv

\* A call that is made, or given up before it has entered the block.
LEMMA OutsideStep ==
  ASSUME IInv, NEW c \in Calls, Begin(c) \/ GiveUp(c)
  PROVE  IInv'
<1>1. LabInv'
  BY ReadKeepsLab DEF IInv, TypeOK, LabInv, Begin, GiveUp
<1>2. TypeOK'
  BY <1>1 DEF IInv, TypeOK, Begin, GiveUp, LabInv, Outcomes
<1>3. /\ pc[c] \in {"idle", "queued"} /\ pc'[c] \in {"idle", "queued"}
      /\ pc'[c] = "queued" => arg'[c] \in Requests
      /\ \A d \in Calls : d # c => pc'[d] = pc[d] /\ arg'[d] = arg[d]
      /\ UNCHANGED <<holder, loc>>
  BY DEF IInv, TypeOK, Begin, GiveUp
<1>4. HolderInv'
  BY <1>3 DEF IInv, HolderInv, InBlock
<1>5. ASSUME NEW d \in Calls PROVE CallInv(d)'
  <2>1. CASE d = c
    BY <1>3, <2>1, OutsideCall
  <2>2. CASE d # c
    <3>1. pc'[d] = pc[d] /\ arg'[d] = arg[d] /\ UNCHANGED <<loc, labVars>>
      BY <1>3, <2>2 DEF Begin, GiveUp
    <3>2. CallInv(d)
      BY DEF IInv
    <3> QED BY <3>1, <3>2 DEF CallInv, ToolInv, ConnectInv, StopInv, EditInv, BulkInv,
              LoopInv, PlaceInv, NetworkInv, Rewirable, Source, Target, Endpoints,
              Duplicates, Named, labVars, nodeVars, netVars
  <2> QED BY <2>1, <2>2
<1> QED BY <1>1, <1>2, <1>4, <1>5 DEF IInv, LabInv
-----------------------------------------------------------------------------
(***************************************************************************)
(* A call at a request of its tool knows only what that tool has read.     *)
(***************************************************************************)
\* The requests of the tools have different names.
LEMMA AtConnect ==
  ASSUME NEW c, pc'[c] \in ConnectSteps, arg'[c] \in Requests, arg'[c].tool = "connect",
         ConnectInv(c)', StopInv(c)'
  PROVE  CallInv(c)'
<1>1. ToolInv(c)'
  BY DEF ToolInv, ConnectSteps, PowerSteps, EditSteps, BulkSteps, AddSteps, DeleteSteps
<1>2. EditInv(c)' /\ BulkInv(c)' /\ LoopInv(c)' /\ PlaceInv(c)' /\ NetworkInv(c)'
  BY DEF EditInv, BulkInv, LoopInv, PlaceInv, NetworkInv, ConnectSteps
<1> QED BY <1>1, <1>2 DEF CallInv

LEMMA AtPower ==
  ASSUME NEW c, pc'[c] \in PowerSteps, arg'[c] \in Requests,
         arg'[c].tool \in {"start", "stop"}, LoopInv(c)'
  PROVE  CallInv(c)'
<1>1. ToolInv(c)'
  BY DEF ToolInv, ConnectSteps, PowerSteps, EditSteps, BulkSteps, AddSteps, DeleteSteps
<1>2. ConnectInv(c)' /\ StopInv(c)' /\ EditInv(c)' /\ BulkInv(c)' /\ PlaceInv(c)' /\ NetworkInv(c)'
  BY DEF ConnectInv, StopInv, EditInv, BulkInv, PlaceInv, NetworkInv, PowerSteps
<1> QED BY <1>1, <1>2 DEF CallInv

LEMMA AtEdit ==
  ASSUME NEW c, pc'[c] \in EditSteps, arg'[c] \in Requests, arg'[c].tool = "editNode",
         EditInv(c)'
  PROVE  CallInv(c)'
<1>1. ToolInv(c)'
  BY DEF ToolInv, ConnectSteps, PowerSteps, EditSteps, BulkSteps, AddSteps, DeleteSteps
<1>2. ConnectInv(c)' /\ StopInv(c)' /\ BulkInv(c)' /\ LoopInv(c)' /\ PlaceInv(c)' /\ NetworkInv(c)'
  BY DEF ConnectInv, StopInv, BulkInv, LoopInv, PlaceInv, NetworkInv, EditSteps
<1> QED BY <1>1, <1>2 DEF CallInv

LEMMA AtBulk ==
  ASSUME NEW c, pc'[c] \in BulkSteps, arg'[c] \in Requests, arg'[c].tool = "editMany",
         BulkInv(c)'
  PROVE  CallInv(c)'
<1>1. ToolInv(c)'
  BY DEF ToolInv, ConnectSteps, PowerSteps, EditSteps, BulkSteps, AddSteps, DeleteSteps
<1>2. ConnectInv(c)' /\ StopInv(c)' /\ EditInv(c)' /\ LoopInv(c)' /\ PlaceInv(c)' /\ NetworkInv(c)'
  BY DEF ConnectInv, StopInv, EditInv, LoopInv, PlaceInv, NetworkInv, BulkSteps
<1> QED BY <1>1, <1>2 DEF CallInv

LEMMA AtAdd ==
  ASSUME NEW c, pc'[c] \in AddSteps, arg'[c] \in Requests, arg'[c].tool = "addNode",
         PlaceInv(c)'
  PROVE  CallInv(c)'
<1>1. ToolInv(c)'
  BY DEF ToolInv, ConnectSteps, PowerSteps, EditSteps, BulkSteps, AddSteps, DeleteSteps
<1>2. ConnectInv(c)' /\ StopInv(c)' /\ EditInv(c)' /\ BulkInv(c)' /\ LoopInv(c)' /\ NetworkInv(c)'
  BY DEF ConnectInv, StopInv, EditInv, BulkInv, LoopInv, NetworkInv, AddSteps
<1> QED BY <1>1, <1>2 DEF CallInv

LEMMA AtDelete ==
  ASSUME NEW c, pc'[c] \in DeleteSteps, arg'[c] \in Requests, arg'[c].tool = "deleteNode",
         LoopInv(c)'
  PROVE  CallInv(c)'
<1>1. ToolInv(c)'
  BY DEF ToolInv, ConnectSteps, PowerSteps, EditSteps, BulkSteps, AddSteps, DeleteSteps
<1>2. ConnectInv(c)' /\ StopInv(c)' /\ EditInv(c)' /\ BulkInv(c)' /\ PlaceInv(c)' /\ NetworkInv(c)'
  BY DEF ConnectInv, StopInv, EditInv, BulkInv, PlaceInv, NetworkInv, DeleteSteps
<1> QED BY <1>1, <1>2 DEF CallInv

LEMMA AtNetwork ==
  ASSUME NEW c, pc'[c] \in NetworkSteps, arg'[c] \in Requests, ToolInv(c)', LoopInv(c)',
         NetworkInv(c)'
  PROVE  CallInv(c)'
<1>1. ConnectInv(c)' /\ StopInv(c)' /\ EditInv(c)' /\ BulkInv(c)' /\ PlaceInv(c)'
  BY DEF ConnectInv, StopInv, EditInv, BulkInv, PlaceInv, NetworkSteps
<1> QED BY <1>1 DEF CallInv

\* The arguments of a request are those of its tool.
LEMMA RequestTypes ==
  ASSUME NEW r \in Requests
  PROVE  /\ r.tool = "connect" => r \in ConnectRequest
         /\ r.tool \in {"start", "stop"} => r \in PowerRequest
         /\ r.tool = "editNode" => r \in EditRequest
         /\ r.tool = "editMany" => r \in BulkRequest
         /\ r.tool = "addNode" => r \in AddRequest
         /\ r.tool = "deleteNode" => r \in DeleteRequest
         /\ r.tool = "addNetwork" => r \in AddNetworkRequest
         /\ r.tool = "editNetwork" => r \in EditNetworkRequest
         /\ r.tool = "deleteNetwork" => r \in DeleteNetworkRequest
<1>1. /\ r \in ConnectRequest => r.tool = "connect"
      /\ r \in PowerRequest => r.tool \in {"start", "stop"}
      /\ r \in EditRequest => r.tool = "editNode"
      /\ r \in BulkRequest => r.tool = "editMany"
      /\ r \in AddRequest => r.tool = "addNode"
      /\ r \in DeleteRequest => r.tool = "deleteNode"
      /\ r \in AddNetworkRequest => r.tool = "addNetwork"
      /\ r \in EditNetworkRequest => r.tool = "editNetwork"
      /\ r \in DeleteNetworkRequest => r.tool = "deleteNetwork"
  BY DEF ConnectRequest, PowerRequest, EditRequest, BulkRequest, AddRequest, DeleteRequest,
         AddNetworkRequest, EditNetworkRequest, DeleteNetworkRequest
<1>2. \/ r \in ConnectRequest \/ r \in PowerRequest \/ r \in EditRequest
      \/ r \in BulkRequest \/ r \in AddRequest \/ r \in DeleteRequest
      \/ r \in AddNetworkRequest \/ r \in EditNetworkRequest \/ r \in DeleteNetworkRequest
  BY RequestAssumption
<1> QED BY <1>1, <1>2

\* What a step that goes on to another request of its call finds, and leaves.
LEMMA AwaitFacts ==
  ASSUME IInv, NEW c \in Calls, NEW request, NEW l, InBlock(c), Await(c, request, l)
  PROVE  /\ loc[c] \in Locals /\ arg[c] \in Requests
         /\ pc'[c] = request /\ loc'[c] = l /\ arg' = arg
BY DEF IInv, TypeOK, InBlock, Await, CallInv, ToolInv

-----------------------------------------------------------------------------
(***************************************************************************)
(* connect_interface.                                                      *)
(***************************************************************************)
LEMMA ConnectEntryKeepsIInv ==
  ASSUME IInv, NEW c \in Calls, ConnectEntry(c)
  PROVE  IInv'
<1>1. CASE ConnectEnter(c)
  <2>1. /\ pc'[c] = "readSource" /\ arg'[c] \in Requests /\ arg'[c].tool = "connect"
        /\ holder = NoCall /\ EnterBlock(c, "readSource")
    BY <1>1 DEF ConnectEnter, LockFree, EnterBlock, IInv, TypeOK, CallInv, ToolInv
  <2>2. ConnectInv(c)' /\ StopInv(c)'
    BY <2>1 DEF ConnectInv, StopInv
  <2>3. CallInv(c)'
    BY <2>1, <2>2, AtConnect DEF ConnectSteps
  <2> QED BY <2>1, <2>3, EnterStep DEF Steps, ConnectSteps
<1>2. CASE ConnectRefuse(c)
  BY <1>2, RefuseAtEntry DEF ConnectRefuse, LockFree
<1> QED BY <1>1, <1>2 DEF ConnectEntry

\* An interface that is resolved exists, and a connected one has been confirmed.
LEMMA UsableIface ==
  ASSUME NEW r, NEW n, NEW s, NEW i \in Usable(r, n, s)
  PROVE  i \in Ifaces /\ (wire[n][i] = NoNet \/ r.confirm)
BY DEF Usable, Resolve, Free, Numbered

\* A call inside connect_interface.
LEMMA InConnect ==
  ASSUME IInv, NEW c \in Calls, pc[c] \in ConnectSteps
  PROVE  /\ InBlock(c) /\ loc[c] \in Locals
         /\ arg[c] \in Requests /\ arg[c].tool = "connect" /\ arg[c] \in ConnectRequest
         /\ ConnectInv(c) /\ StopInv(c)
<1>1. InBlock(c)
  BY DEF InBlock, ConnectSteps
<1>2. loc[c] \in Locals /\ arg[c] \in Requests /\ arg[c].tool = "connect"
      /\ ConnectInv(c) /\ StopInv(c)
  BY <1>1 DEF IInv, TypeOK, CallInv, ToolInv, InBlock
<1> QED BY <1>1, <1>2, RequestTypes

\* It goes on to its next request.
LEMMA ConnectGoesOn ==
  ASSUME IInv, NEW c \in Calls, pc[c] \in ConnectSteps, NEW request \in ConnectSteps,
         NEW l \in Locals, Await(c, request, l), LabInv', ConnectInv(c)', StopInv(c)'
  PROVE  IInv'
<1>1. pc'[c] = request /\ arg' = arg
  BY InConnect, AwaitFacts
<1>2. CallInv(c)'
  BY <1>1, InConnect, AtConnect
<1> QED BY <1>2, InConnect, AwaitStep DEF Steps

LEMMA ReadSourceKeepsIInv ==
  ASSUME IInv, NEW c \in Calls, ReadSource(c)
  PROVE  IInv'
<1> DEFINE r == arg[c]
           next == IF r.target = "node" THEN "readTarget"
                   ELSE IF r.target = "netName" THEN "readNetworks" ELSE "readStatus"
<1>1. pc[c] = "readSource" /\ pc[c] \in ConnectSteps /\ r.node \in nodes
  BY DEF ReadSource, ConnectSteps
<1>2. ASSUME NEW i \in Usable(r, r.node, r.sel), UNCHANGED labVars,
             Await(c, next, [loc[c] EXCEPT !.src = i, !.net = r.net])
      PROVE  IInv'
  <2> DEFINE l == [loc[c] EXCEPT !.src = i, !.net = r.net]
  <2>1. pc'[c] = next /\ loc'[c] = l /\ arg' = arg
    BY <1>1, <1>2, InConnect, AwaitFacts
  <2>2. l \in Locals /\ l.src = i
    <3>1. loc[c] \in Locals /\ i \in Ifaces /\ r.net \in Nat
      BY <1>1, <1>2, InConnect, UsableIface DEF ConnectRequest
    <3> QED BY <3>1 DEF Locals
  <2>3. ConnectInv(c)' /\ StopInv(c)'
    BY <1>1, <1>2, <2>1, <2>2, UsableIface
    DEF ConnectInv, StopInv, Rewirable, labVars, nodeVars
  <2>4. LabInv'
    BY <1>2, ReadKeepsLab DEF LabInv, IInv, TypeOK
  <2> QED BY <1>1, <1>2, <2>2, <2>3, <2>4, ConnectGoesOn DEF ConnectSteps
<1> QED BY <1>1, <1>2, InConnect, RefuseStep DEF ReadSource

LEMMA ReadTargetKeepsIInv ==
  ASSUME IInv, NEW c \in Calls, ReadTarget(c)
  PROVE  IInv'
<1> DEFINE r == arg[c]
<1>1. pc[c] = "readTarget" /\ pc[c] \in ConnectSteps /\ r.tnode \in nodes
  BY DEF ReadTarget, ConnectSteps
<1>2. ASSUME NEW i \in Usable(r, r.tnode, r.tsel), UNCHANGED labVars,
             Await(c, "readStatus", [loc[c] EXCEPT !.dst = i])
      PROVE  IInv'
  <2> DEFINE l == [loc[c] EXCEPT !.dst = i]
  <2>1. pc'[c] = "readStatus" /\ loc'[c] = l /\ arg' = arg
    BY <1>1, <1>2, InConnect, AwaitFacts
  <2>2. l \in Locals /\ l.src = loc[c].src /\ l.dst = i
    <3>1. loc[c] \in Locals /\ i \in Ifaces
      BY <1>1, <1>2, InConnect, UsableIface
    <3> QED BY <3>1 DEF Locals
  <2>3. ConnectInv(c)' /\ StopInv(c)'
    BY <1>1, <1>2, <2>1, <2>2, InConnect, UsableIface
    DEF ConnectInv, StopInv, Rewirable, labVars, nodeVars
  <2>4. LabInv'
    BY <1>2, ReadKeepsLab DEF LabInv, IInv, TypeOK
  <2> QED BY <1>1, <1>2, <2>2, <2>3, <2>4, ConnectGoesOn DEF ConnectSteps
<1> QED BY <1>1, <1>2, InConnect, RefuseStep DEF ReadTarget

LEMMA ReadNetworksKeepsIInv ==
  ASSUME IInv, NEW c \in Calls, ReadNetworks(c)
  PROVE  IInv'
<1>1. pc[c] = "readNetworks" /\ pc[c] \in ConnectSteps
  BY DEF ReadNetworks, ConnectSteps
<1>2. ASSUME NEW k \in Named(nets, netName, arg[c].name), UNCHANGED labVars,
             Await(c, "readStatus", [loc[c] EXCEPT !.net = k])
      PROVE  IInv'
  <2> DEFINE l == [loc[c] EXCEPT !.net = k]
  <2>1. pc'[c] = "readStatus" /\ loc'[c] = l /\ arg' = arg
    BY <1>1, <1>2, InConnect, AwaitFacts
  <2>2. k \in Nat
    BY <1>2, LabAssumption DEF Named, IInv, TypeOK, LabOK
  <2>3. l \in Locals /\ l.src = loc[c].src
    BY <1>1, <2>2, InConnect DEF Locals
  <2>4. arg[c].target # "node"
    BY <1>1, InConnect DEF ConnectInv
  <2>5. ConnectInv(c)' /\ StopInv(c)'
    BY <1>1, <1>2, <2>1, <2>3, <2>4, InConnect
    DEF ConnectInv, StopInv, Rewirable, labVars, nodeVars
  <2>6. LabInv'
    BY <1>2, ReadKeepsLab DEF LabInv, IInv, TypeOK
  <2> QED BY <1>1, <1>2, <2>3, <2>5, <2>6, ConnectGoesOn DEF ConnectSteps
<1> QED BY <1>1, <1>2, InConnect, RefuseStep DEF ReadNetworks
LEMMA ReadStatusKeepsIInv ==
  ASSUME IInv, NEW c \in Calls, ReadStatus(c)
  PROVE  IInv'
<1>1. pc[c] = "readStatus" /\ pc[c] \in ConnectSteps /\ UNCHANGED labVars
  BY DEF ReadStatus, ConnectSteps
<1>2. PICK isPro \in {Pro, FALSE} :
        Await(c, IF isPro THEN Wire(arg[c]) ELSE "checkSource", loc[c])
  BY DEF ReadStatus
<1> DEFINE next == IF isPro THEN Wire(arg[c]) ELSE "checkSource"
<1>3. pc'[c] = next /\ loc'[c] = loc[c] /\ arg' = arg
  BY <1>1, <1>2, InConnect, AwaitFacts
<1>4. /\ next \in {"createLine", "setNetwork", "checkSource"}
      /\ next = "createLine" => arg[c].target = "node"
      /\ next # "checkSource" => Pro
  <2>1. CASE isPro
    <3>1. Pro
      BY <2>1 
    <3> QED BY <2>1, <3>1 DEF Wire
  <2>2. CASE ~isPro
    BY <2>2
  <2> QED BY <2>1, <2>2
<1> HIDE DEF next
<1>5. ConnectInv(c)' /\ StopInv(c)'
  BY <1>1, <1>3, <1>4, InConnect
  DEF ConnectInv, StopInv, Rewirable, labVars, nodeVars
<1>6. LabInv'
  BY <1>1, ReadKeepsLab DEF LabInv, IInv, TypeOK
<1> QED BY <1>1, <1>2, <1>4, <1>5, <1>6, InConnect, ConnectGoesOn DEF ConnectSteps, next

\* The stop of a node leaves what the other requests need.
LEMMA CheckSourceKeepsIInv ==
  ASSUME IInv, NEW c \in Calls, CheckSource(c)
  PROVE  IInv'
<1>1. pc[c] = "checkSource" /\ pc[c] \in ConnectSteps /\ UNCHANGED labVars
  BY DEF CheckSource, Check, ConnectSteps
<1>2. PICK readable \in BOOLEAN :
        Await(c, IF readable /\ arg[c].node \notin running
                 THEN StopTargetOrWire(arg[c]) ELSE "stopSource", loc[c])
  BY DEF CheckSource, Check
<1> DEFINE next == IF readable /\ arg[c].node \notin running
                   THEN StopTargetOrWire(arg[c]) ELSE "stopSource"
<1>3. pc'[c] = next /\ loc'[c] = loc[c] /\ arg' = arg
  BY <1>1, <1>2, InConnect, AwaitFacts
<1>4. /\ next \in {"checkTarget", "setNetwork", "stopSource"}
      /\ next = "checkTarget" => arg[c].target = "node"
      /\ next # "stopSource" => arg[c].node \notin running
  BY <1>2 DEF StopTargetOrWire
<1> HIDE DEF next
<1>5. ConnectInv(c)' /\ StopInv(c)'
  BY <1>1, <1>3, <1>4, InConnect
  DEF ConnectInv, StopInv, Rewirable, labVars, nodeVars
<1>6. LabInv'
  BY <1>1, ReadKeepsLab DEF LabInv, IInv, TypeOK
<1> QED BY <1>1, <1>2, <1>4, <1>5, <1>6, InConnect, ConnectGoesOn DEF ConnectSteps, next

LEMMA StopSourceKeepsIInv ==
  ASSUME IInv, NEW c \in Calls, StopSource(c)
  PROVE  IInv'
<1> DEFINE next == StopTargetOrWire(arg[c])
<1>1. /\ pc[c] = "stopSource" /\ pc[c] \in ConnectSteps
      /\ Stop(arg[c].node) /\ Await(c, next, loc[c])
  BY DEF StopSource, ConnectSteps
<1>2. pc'[c] = next /\ loc'[c] = loc[c] /\ arg' = arg
  BY <1>1, InConnect, AwaitFacts
<1>3. /\ next \in {"checkTarget", "setNetwork"}
      /\ next = "checkTarget" => arg[c].target = "node"
  BY DEF StopTargetOrWire
<1> HIDE DEF next
<1>4. ConnectInv(c)' /\ StopInv(c)'
  BY <1>1, <1>2, <1>3, InConnect DEF ConnectInv, StopInv, Rewirable, Stop
<1>5. LabInv'
  BY <1>1, PowerKeepsLab DEF LabInv, IInv, TypeOK
<1> QED BY <1>1, <1>3, <1>4, <1>5, InConnect, ConnectGoesOn DEF ConnectSteps

LEMMA CheckTargetKeepsIInv ==
  ASSUME IInv, NEW c \in Calls, CheckTarget(c)
  PROVE  IInv'
<1>1. pc[c] = "checkTarget" /\ pc[c] \in ConnectSteps /\ UNCHANGED labVars
  BY DEF CheckTarget, Check, ConnectSteps
<1>2. PICK readable \in BOOLEAN :
        Await(c, IF readable /\ arg[c].tnode \notin running
                 THEN "createLine" ELSE "stopTarget", loc[c])
  BY DEF CheckTarget, Check
<1> DEFINE next == IF readable /\ arg[c].tnode \notin running
                   THEN "createLine" ELSE "stopTarget"
<1>3. pc'[c] = next /\ loc'[c] = loc[c] /\ arg' = arg
  BY <1>1, <1>2, InConnect, AwaitFacts
<1>4. /\ next \in {"createLine", "stopTarget"}
      /\ next # "stopTarget" => arg[c].tnode \notin running
  OBVIOUS
<1> HIDE DEF next
<1>5. ConnectInv(c)' /\ StopInv(c)'
  BY <1>1, <1>3, <1>4, InConnect
  DEF ConnectInv, StopInv, Rewirable, labVars, nodeVars
<1>6. LabInv'
  BY <1>1, ReadKeepsLab DEF LabInv, IInv, TypeOK
<1> QED BY <1>1, <1>2, <1>4, <1>5, <1>6, InConnect, ConnectGoesOn DEF ConnectSteps, next

LEMMA StopTargetKeepsIInv ==
  ASSUME IInv, NEW c \in Calls, StopTarget(c)
  PROVE  IInv'
<1>1. /\ pc[c] = "stopTarget" /\ pc[c] \in ConnectSteps
      /\ Stop(arg[c].tnode) /\ Await(c, "createLine", loc[c])
  BY DEF StopTarget, ConnectSteps
<1>2. pc'[c] = "createLine" /\ loc'[c] = loc[c] /\ arg' = arg
  BY <1>1, InConnect, AwaitFacts
<1>3. ConnectInv(c)' /\ StopInv(c)'
  BY <1>1, <1>2, InConnect DEF ConnectInv, StopInv, Rewirable, Stop
<1>4. LabInv'
  BY <1>1, PowerKeepsLab DEF LabInv, IInv, TypeOK
<1> QED BY <1>1, <1>3, <1>4, InConnect, ConnectGoesOn DEF ConnectSteps
\* What is attached to a network only changes with the nodes and their interfaces.
LEMMA SameEndpoints ==
  ASSUME NEW k, UNCHANGED <<nodes, wire>>
  PROVE  Endpoints(k)' = Endpoints(k)
BY DEF Endpoints

\* Nothing is attached to a network that does not exist.
LEMMA NoEndpoints ==
  ASSUME LabInv, NEW k \in NetIds \ nets
  PROVE  Endpoints(k) = {}
<1>1. ASSUME NEW n \in nodes, NEW i \in Ifaces PROVE wire[n][i] # k
  BY LabAssumption DEF LabInv, LabOK, NoNet
<1> QED BY <1>1 DEF Endpoints

\* Wiring an interface attaches it, and nothing else, to the network.
LEMMA SetInterfaceAttaches ==
  ASSUME LabInv, NEW n, NEW i \in Ifaces, NEW k, SetInterface(n, i, k)
  PROVE  Endpoints(k)' = Endpoints(k) \cup {<<n, i>>}
<1>1. /\ n \in nodes /\ nodes' = nodes
      /\ \A m \in nodes, j \in Ifaces :
           wire'[m][j] = IF m = n /\ j = i THEN k ELSE wire[m][j]
  BY DEF LabInv, LabOK, SetInterface, nodeVars
<1>2. ASSUME NEW e
      PROVE  e \in {x \in nodes \X Ifaces : wire'[x[1]][x[2]] = k} <=>
               e \in {x \in nodes \X Ifaces : wire[x[1]][x[2]] = k} \cup {<<n, i>>}
  BY <1>1
<1> QED BY <1>1, <1>2 DEF Endpoints

LEMMA CreateLineKeepsIInv ==
  ASSUME IInv, NEW c \in Calls, CreateLine(c)
  PROVE  IInv'
<1>1. pc[c] = "createLine" /\ pc[c] \in ConnectSteps
  BY DEF CreateLine, ConnectSteps
<1>2. ASSUME NEW k \in NetIds \ nets, AddNetwork(k, LineName) \/ UNCHANGED labVars
      PROVE  LabInv' /\ UNCHANGED <<nodes, running, wire>> /\ Endpoints(k)' = {}
  <2>1. LabInv /\ LineName \in Names
    BY LabAssumption DEF LabInv, IInv, TypeOK
  <2>2. LabInv' /\ UNCHANGED <<nodes, running, wire>>
    BY <1>2, <2>1, AddNetworkKeepsLab, ReadKeepsLab DEF AddNetwork, labVars, nodeVars
  <2> QED BY <2>1, <2>2, SameEndpoints, NoEndpoints
<1>3. ASSUME NEW k \in NetIds \ nets, AddNetwork(k, LineName) \/ UNCHANGED labVars,
             Await(c, "pollLine", [loc[c] EXCEPT !.net = k, !.polls = 0])
      PROVE  IInv'
  <2> DEFINE l == [loc[c] EXCEPT !.net = k, !.polls = 0]
  <2>1. pc'[c] = "pollLine" /\ loc'[c] = l /\ arg' = arg
    BY <1>1, <1>3, InConnect, AwaitFacts
  <2>2. l \in Locals /\ l.src = loc[c].src /\ l.dst = loc[c].dst /\ l.net = k
    <3>1. loc[c] \in Locals /\ k \in Nat /\ 0 \in 0..PollAttempts
      BY <1>1, <1>3, InConnect, LabAssumption, PollAssumption
    <3> QED BY <3>1 DEF Locals
  <2>3. ConnectInv(c)'
    BY <1>1, <1>2, <1>3, <2>1, <2>2, InConnect DEF ConnectInv, Rewirable
  <2>4. StopInv(c)'
    BY <1>1, <1>2, <1>3, <2>1, InConnect DEF StopInv
  <2> QED BY <1>1, <1>2, <1>3, <2>2, <2>3, <2>4, ConnectGoesOn DEF ConnectSteps
<1>4. ASSUME NEW k \in NetIds \ nets, AddNetwork(k, LineName), Finish(c, "refused")
      PROVE  IInv'
  BY <1>1, <1>2, <1>4, InConnect, FinishStep DEF Outcomes
<1> QED BY <1>3, <1>4 DEF CreateLine

LEMMA PollLineKeepsIInv ==
  ASSUME IInv, NEW c \in Calls, PollLine(c)
  PROVE  IInv'
<1>1. pc[c] = "pollLine" /\ pc[c] \in ConnectSteps
  BY DEF PollLine, ConnectSteps
<1>2. ASSUME UNCHANGED labVars
      PROVE  LabInv' /\ UNCHANGED <<nodes, running, nets, wire>>
  BY <1>2, ReadKeepsLab DEF LabInv, IInv, TypeOK, labVars, nodeVars, netVars
<1>3. CASE /\ loc[c].net \in nets /\ Await(c, "setSource", loc[c])
           /\ UNCHANGED labVars
  <2>1. pc'[c] = "setSource" /\ loc'[c] = loc[c] /\ arg' = arg
    BY <1>1, <1>3, InConnect, AwaitFacts
  <2>2. Endpoints(loc[c].net)' = Endpoints(loc[c].net)
    BY <1>2, <1>3, <2>1, SameEndpoints
  <2>3. ConnectInv(c)'
    BY <1>1, <1>2, <1>3, <2>1, <2>2, InConnect DEF ConnectInv, Rewirable
  <2>4. StopInv(c)'
    BY <1>1, <1>2, <1>3, <2>1, InConnect DEF StopInv
  <2> QED BY <1>1, <1>2, <1>3, <2>3, <2>4, InConnect, ConnectGoesOn DEF ConnectSteps
<1>4. ASSUME loc[c].polls + 1 < PollAttempts, UNCHANGED labVars,
             Await(c, "pollLine", [loc[c] EXCEPT !.polls = loc[c].polls + 1])
      PROVE  IInv'
  <2> DEFINE l == [loc[c] EXCEPT !.polls = loc[c].polls + 1]
  <2>1. pc'[c] = "pollLine" /\ loc'[c] = l /\ arg' = arg
    BY <1>1, <1>4, InConnect, AwaitFacts
  <2>2. l \in Locals /\ l.src = loc[c].src /\ l.dst = loc[c].dst /\ l.net = loc[c].net
    <3>1. loc[c] \in Locals
      BY <1>1, InConnect
    <3>2. loc[c].polls + 1 \in 0..PollAttempts
      BY <1>4, <3>1, PollAssumption DEF Locals
    <3> QED BY <3>1, <3>2 DEF Locals
  <2>3. Endpoints(loc[c].net)' = Endpoints(loc[c].net)
    <3>1. loc'[c].net = loc[c].net
      BY <2>1, <2>2
    <3> QED BY <1>2, <1>4, <3>1 DEF Endpoints
  <2>4. ConnectInv(c)'
    BY <1>1, <1>2, <1>4, <2>1, <2>2, <2>3, InConnect DEF ConnectInv, Rewirable
  <2>5. StopInv(c)'
    BY <1>1, <1>2, <1>4, <2>1, InConnect DEF StopInv
  <2> QED BY <1>1, <1>2, <1>4, <2>2, <2>4, <2>5, ConnectGoesOn DEF ConnectSteps
<1> QED BY <1>1, <1>3, <1>4, InConnect, RefuseStep DEF PollLine
LEMMA SetSourceKeepsIInv ==
  ASSUME IInv, NEW c \in Calls, SetSource(c)
  PROVE  IInv'
<1> DEFINE n == arg[c].node
           i == loc[c].src
           k == loc[c].net
<1>1. /\ pc[c] = "setSource" /\ pc[c] \in ConnectSteps
      /\ SetInterface(n, i, k) /\ Await(c, "setTarget", loc[c])
  BY DEF SetSource, ConnectSteps
<1>2. pc'[c] = "setTarget" /\ loc'[c] = loc[c] /\ arg' = arg
  BY <1>1, InConnect, AwaitFacts
<1>3. /\ arg[c].target = "node" /\ Rewirable(c, n, i) /\ Rewirable(c, arg[c].tnode, loc[c].dst)
      /\ k \in nets /\ Endpoints(k) = {} /\ (~Pro => arg[c].tnode \notin running)
  BY <1>1, InConnect DEF ConnectInv, StopInv
<1>4. LabInv /\ n \in nodes /\ i \in Ifaces
  BY <1>3 DEF IInv, TypeOK, LabInv, Rewirable
<1>5. LabInv'
  BY <1>1, <1>4, SetInterfaceKeepsLab
<1>6. Endpoints(loc[c].net)' = {Source(c)}
  <2>1. {e \in nodes' \X Ifaces : wire'[e[1]][e[2]] = k} = {Source(c)}
    BY <1>1, <1>3, <1>4, SetInterfaceAttaches DEF Endpoints, Source
  <2> QED BY <1>2, <2>1 DEF Endpoints, Source
<1>7. ConnectInv(c)'
  <2>1. Source(c)' = Source(c) /\ Target(c)' = Target(c)
    BY <1>2 DEF Source, Target
  <2>2. loc'[c].net \in nets'
    BY <1>1, <1>2, <1>3 DEF SetInterface, netVars
  <2>3. Target(c) # Source(c) => Rewirable(c, arg[c].tnode, loc[c].dst)'
    <3>1. ASSUME NEW m \in nodes, NEW j \in Ifaces, <<m, j>> # <<n, i>>
          PROVE  wire'[m][j] = wire[m][j]
      BY <1>1, <1>4, <3>1 DEF SetInterface, LabInv, LabOK
    <3> QED BY <1>1, <1>2, <1>3, <3>1 DEF SetInterface, nodeVars, Rewirable, Source, Target
  <2> QED BY <1>2, <1>3, <1>6, <2>1, <2>2, <2>3 DEF ConnectInv
<1>8. StopInv(c)'
  BY <1>1, <1>2, <1>3 DEF StopInv, SetInterface, nodeVars
<1> QED BY <1>1, <1>5, <1>7, <1>8, InConnect, ConnectGoesOn DEF ConnectSteps

LEMMA SetTargetKeepsIInv ==
  ASSUME IInv, NEW c \in Calls, SetTarget(c)
  PROVE  IInv'
<1> DEFINE n == arg[c].tnode
           i == loc[c].dst
           k == loc[c].net
<1>1. /\ pc[c] = "setTarget" /\ pc[c] \in ConnectSteps
      /\ SetInterface(n, i, k) /\ Await(c, "hideLine", loc[c])
  BY DEF SetTarget, ConnectSteps
<1>2. pc'[c] = "hideLine" /\ loc'[c] = loc[c] /\ arg' = arg
  BY <1>1, InConnect, AwaitFacts
<1>3. /\ arg[c].target = "node" /\ k \in nets /\ Endpoints(k) = {Source(c)}
      /\ Target(c) # Source(c) => Rewirable(c, n, i)
  BY <1>1, InConnect DEF ConnectInv
<1>4. LabInv /\ n \in nodes /\ i \in Ifaces
  <2>1. CASE Target(c) # Source(c)
    BY <1>3, <2>1 DEF IInv, TypeOK, LabInv, Rewirable
  <2>2. CASE Target(c) = Source(c)
    <3>1. Target(c) \in nodes \X Ifaces
      BY <1>3, <2>2 DEF Endpoints
    <3> QED BY <3>1 DEF Target, IInv, TypeOK, LabInv
  <2> QED BY <2>1, <2>2
<1>5. LabInv'
  BY <1>1, <1>4, SetInterfaceKeepsLab
<1>6. Endpoints(loc[c].net)' = {Source(c), Target(c)}
  <2>1. {e \in nodes' \X Ifaces : wire'[e[1]][e[2]] = k} = {Source(c), Target(c)}
    BY <1>1, <1>3, <1>4, SetInterfaceAttaches DEF Endpoints, Target
  <2> QED BY <1>2, <2>1 DEF Endpoints, Source, Target
<1>7. ConnectInv(c)'
  <2>1. Source(c)' = Source(c) /\ Target(c)' = Target(c)
    BY <1>2 DEF Source, Target
  <2>2. loc'[c].net \in nets'
    BY <1>1, <1>2, <1>3 DEF SetInterface, netVars
  <2> QED BY <1>2, <1>3, <1>6, <2>1, <2>2 DEF ConnectInv
<1>8. StopInv(c)'
  BY <1>2 DEF StopInv
<1> QED BY <1>1, <1>5, <1>7, <1>8, InConnect, ConnectGoesOn DEF ConnectSteps

LEMMA HideLineKeepsIInv ==
  ASSUME IInv, NEW c \in Calls, HideLine(c)
  PROVE  IInv'
<1>1. pc[c] = "hideLine" /\ pc[c] \in ConnectSteps /\ Finish(c, "success")
  BY DEF HideLine, ConnectSteps
<1>2. LabInv'
  BY EditNetworkKeepsLab DEF HideLine, LabInv, IInv, TypeOK
<1> QED BY <1>1, <1>2, InConnect, FinishStep DEF Outcomes

LEMMA SetNetworkKeepsIInv ==
  ASSUME IInv, NEW c \in Calls, SetNetwork(c)
  PROVE  IInv'
<1>1. pc[c] = "setNetwork" /\ pc[c] \in ConnectSteps /\ Finish(c, "success")
  BY DEF SetNetwork, ConnectSteps
<1>2. loc[c].src \in Ifaces
  BY <1>1, InConnect DEF ConnectInv, Rewirable
<1>3. LabInv'
  BY <1>2, SetInterfaceKeepsLab DEF SetNetwork, LabInv, IInv, TypeOK
<1> QED BY <1>1, <1>3, InConnect, FinishStep DEF Outcomes

LEMMA ConnectStepKeepsIInv ==
  ASSUME IInv, NEW c \in Calls, ConnectStep(c)
  PROVE  IInv'
BY ReadSourceKeepsIInv, ReadTargetKeepsIInv, ReadNetworksKeepsIInv, ReadStatusKeepsIInv,
   CheckSourceKeepsIInv, StopSourceKeepsIInv, CheckTargetKeepsIInv, StopTargetKeepsIInv,
   CreateLineKeepsIInv, PollLineKeepsIInv, SetSourceKeepsIInv, SetTargetKeepsIInv,
   HideLineKeepsIInv, SetNetworkKeepsIInv
DEF ConnectStep
-----------------------------------------------------------------------------
(***************************************************************************)
(* start_node and stop_node.                                               *)
(***************************************************************************)
LEMMA InPower ==
  ASSUME IInv, NEW c \in Calls, pc[c] \in PowerSteps
  PROVE  /\ InBlock(c) /\ loc[c] \in Locals
         /\ arg[c] \in Requests /\ arg[c].tool \in {"start", "stop"}
         /\ arg[c] \in PowerRequest /\ LoopInv(c)
<1>1. InBlock(c)
  BY DEF InBlock, PowerSteps
<1>2. loc[c] \in Locals /\ arg[c] \in Requests /\ arg[c].tool \in {"start", "stop"}
      /\ LoopInv(c)
  BY <1>1 DEF IInv, TypeOK, CallInv, ToolInv, InBlock
<1> QED BY <1>1, <1>2, RequestTypes

LEMMA PowerGoesOn ==
  ASSUME IInv, NEW c \in Calls, pc[c] \in PowerSteps, NEW request \in PowerSteps,
         NEW l \in Locals, Await(c, request, l), LabInv', LoopInv(c)'
  PROVE  IInv'
<1>1. pc'[c] = request /\ arg' = arg
  BY InPower, AwaitFacts
<1>2. CallInv(c)'
  BY <1>1, InPower, AtPower
<1> QED BY <1>2, InPower, AwaitStep DEF Steps

LEMMA PowerEnterKeepsIInv ==
  ASSUME IInv, NEW c \in Calls, PowerEnter(c)
  PROVE  IInv'
<1> DEFINE next == IF arg[c].all THEN "listPower" ELSE "power"
<1>1. /\ pc'[c] = next /\ arg'[c] \in Requests /\ arg'[c].tool \in {"start", "stop"}
      /\ holder = NoCall /\ EnterBlock(c, next)
  BY DEF PowerEnter, LockFree, EnterBlock, IInv, TypeOK, CallInv, ToolInv
<1>2. next \in {"listPower", "power"}
  OBVIOUS
<1> HIDE DEF next
<1>3. LoopInv(c)'
  BY <1>1, <1>2 DEF LoopInv
<1>4. next \in PowerSteps
  BY <1>2 DEF PowerSteps
<1>5. CallInv(c)'
  BY <1>1, <1>3, <1>4, AtPower
<1> QED BY <1>1, <1>4, <1>5, EnterStep DEF Steps

LEMMA PowerOneKeepsIInv ==
  ASSUME IInv, NEW c \in Calls, PowerOne(c)
  PROVE  IInv'
<1>1. LabInv'
  BY PowerKeepsLab DEF PowerOne, Power, LabInv, IInv, TypeOK
<1> QED BY <1>1, FinishStep DEF PowerOne, InBlock, Outcomes

LEMMA ListPowerKeepsIInv ==
  ASSUME IInv, NEW c \in Calls, ListPower(c)
  PROVE  IInv'
<1>1. pc[c] = "listPower" /\ pc[c] \in PowerSteps
  BY DEF ListPower, PowerSteps
<1>2. ASSUME nodes # {}, UNCHANGED labVars,
             Await(c, "powerEach", [loc[c] EXCEPT !.targets = nodes])
      PROVE  IInv'
  <2> DEFINE l == [loc[c] EXCEPT !.targets = nodes]
  <2>1. pc'[c] = "powerEach" /\ loc'[c] = l
    BY <1>1, <1>2, InPower, AwaitFacts
  <2>2. l \in Locals /\ l.targets = nodes
    <3>1. loc[c] \in Locals /\ nodes \in SUBSET (Nodes \cup NetIds)
      BY <1>1, InPower DEF IInv, TypeOK, LabOK
    <3> QED BY <3>1 DEF Locals
  <2>3. LoopInv(c)'
    BY <1>2, <2>1, <2>2 DEF LoopInv, labVars, nodeVars
  <2>4. LabInv'
    BY <1>2, ReadKeepsLab DEF LabInv, IInv, TypeOK
  <2> QED BY <1>1, <1>2, <2>2, <2>3, <2>4, PowerGoesOn DEF PowerSteps
<1> QED BY <1>1, <1>2, InPower, RefuseStep DEF ListPower

LEMMA PowerEachKeepsIInv ==
  ASSUME IInv, NEW c \in Calls, PowerEach(c)
  PROVE  IInv'
<1>1. pc[c] = "powerEach" /\ pc[c] \in PowerSteps
  BY DEF PowerEach, PowerSteps
<1>2. PICK n \in loc[c].targets, done \in BOOLEAN, ok \in BOOLEAN :
        LET rest == loc[c].targets \ {n}
            some == loc[c].some \/ ok
        IN
        /\ IF done THEN Power(c, n) ELSE UNCHANGED labVars
        /\ IF rest # {}
           THEN Await(c, "powerEach", [loc[c] EXCEPT !.targets = rest, !.some = some])
           ELSE Finish(c, IF some THEN "success" ELSE "refused")
  BY DEF PowerEach
<1> DEFINE rest == loc[c].targets \ {n}
           some == loc[c].some \/ ok
           l == [loc[c] EXCEPT !.targets = rest, !.some = some]
<1>3. LabInv' /\ nodes' = nodes
  <2>1. CASE done
    BY <1>2, <2>1, PowerKeepsLab DEF Power, Start, Stop, LabInv, IInv, TypeOK
  <2>2. CASE ~done
    BY <1>2, <2>2, ReadKeepsLab DEF labVars, nodeVars, LabInv, IInv, TypeOK
  <2> QED BY <2>1, <2>2
<1>4. CASE rest # {}
  <2>1. Await(c, "powerEach", l)
    BY <1>2, <1>4
  <2>2. pc'[c] = "powerEach" /\ loc'[c] = l
    BY <1>1, <2>1, InPower, AwaitFacts
  <2>3. l \in Locals /\ l.targets = rest
    <3>1. loc[c] \in Locals /\ rest \in SUBSET (Nodes \cup NetIds)
      BY <1>1, InPower DEF Locals
    <3>2. some \in BOOLEAN
      OBVIOUS
    <3> HIDE DEF rest, some
    <3> QED BY <3>1, <3>2 DEF Locals
  <2>4. LoopInv(c)'
    BY <1>1, <1>3, <1>4, <2>2, <2>3, InPower DEF LoopInv
  <2> QED BY <1>1, <1>3, <2>1, <2>3, <2>4, PowerGoesOn DEF PowerSteps
<1>5. CASE rest = {}
  <2>1. Finish(c, IF some THEN "success" ELSE "refused")
    BY <1>2, <1>5
  <2> QED BY <1>1, <1>3, <2>1, InPower, FinishStep DEF Outcomes
<1> QED BY <1>4, <1>5

-----------------------------------------------------------------------------
(***************************************************************************)
(* edit_lab_node.                                                          *)
(***************************************************************************)
LEMMA InEdit ==
  ASSUME IInv, NEW c \in Calls, pc[c] \in EditSteps
  PROVE  /\ InBlock(c) /\ loc[c] \in Locals
         /\ arg[c] \in Requests /\ arg[c].tool = "editNode" /\ arg[c] \in EditRequest
         /\ EditInv(c)
<1>1. InBlock(c)
  BY DEF InBlock, EditSteps
<1>2. loc[c] \in Locals /\ arg[c] \in Requests /\ arg[c].tool = "editNode" /\ EditInv(c)
  BY <1>1 DEF IInv, TypeOK, CallInv, ToolInv, InBlock
<1> QED BY <1>1, <1>2, RequestTypes

LEMMA EditGoesOn ==
  ASSUME IInv, NEW c \in Calls, pc[c] \in EditSteps, NEW request \in EditSteps,
         NEW l \in Locals, Await(c, request, l), LabInv', EditInv(c)'
  PROVE  IInv'
<1>1. pc'[c] = request /\ arg' = arg
  BY InEdit, AwaitFacts
<1>2. CallInv(c)'
  BY <1>1, InEdit, AtEdit
<1> QED BY <1>2, InEdit, AwaitStep DEF Steps

LEMMA EditEntryKeepsIInv ==
  ASSUME IInv, NEW c \in Calls, EditEnter(c) \/ EditRefuse(c)
  PROVE  IInv'
<1>1. CASE EditEnter(c)
  <2> DEFINE next == IF "name" \in arg[c].fields /\ ~arg[c].confirm
                     THEN "readNames" ELSE "readNode"
  <2>1. /\ pc'[c] = next /\ arg'[c] \in Requests /\ arg'[c].tool = "editNode"
        /\ holder = NoCall /\ EnterBlock(c, next) /\ arg' = arg
    BY <1>1 DEF EditEnter, LockFree, EnterBlock, IInv, TypeOK, CallInv, ToolInv
  <2>2. /\ next \in {"readNames", "readNode"}
        /\ "name" \in arg[c].fields /\ ~arg[c].confirm => next = "readNames"
    OBVIOUS
  <2> HIDE DEF next
  <2>3. EditInv(c)'
    BY <2>1, <2>2 DEF EditInv
  <2>4. next \in EditSteps
    BY <2>2 DEF EditSteps
  <2>5. CallInv(c)'
    BY <2>1, <2>3, <2>4, AtEdit
  <2> QED BY <2>1, <2>4, <2>5, EnterStep DEF Steps
<1>2. CASE EditRefuse(c)
  BY <1>2, RefuseAtEntry DEF EditRefuse, LockFree
<1> QED BY <1>1, <1>2

LEMMA ReadNamesKeepsIInv ==
  ASSUME IInv, NEW c \in Calls, ReadNames(c)
  PROVE  IInv'
<1>1. pc[c] = "readNames" /\ pc[c] \in EditSteps
  BY DEF ReadNames, EditSteps
<1>2. ASSUME Duplicates(arg[c].node, arg[c].name) = {}, UNCHANGED labVars,
             Await(c, "readNode", loc[c])
      PROVE  IInv'
  <2>1. pc'[c] = "readNode" /\ loc'[c] = loc[c] /\ arg' = arg
    BY <1>1, <1>2, InEdit, AwaitFacts
  <2>2. EditInv(c)'
    BY <1>2, <2>1 DEF EditInv, Duplicates, Named, labVars, nodeVars
  <2>3. LabInv'
    BY <1>2, ReadKeepsLab DEF LabInv, IInv, TypeOK
  <2> QED BY <1>1, <1>2, <2>2, <2>3, InEdit, EditGoesOn DEF EditSteps
<1> QED BY <1>1, <1>2, InEdit, RefuseStep DEF ReadNames

LEMMA ReadNodeKeepsIInv ==
  ASSUME IInv, NEW c \in Calls, ReadNode(c)
  PROVE  IInv'
<1> DEFINE r == arg[c]
<1>1. pc[c] = "readNode" /\ pc[c] \in EditSteps /\ r.node \in nodes
  BY DEF ReadNode, EditSteps
<1>2. ASSUME NEW readable \in BOOLEAN, NEW name \in {nodeName[r.node], NoName},
             UNCHANGED labVars,
             Await(c, IF readable /\ r.node \notin running THEN "putNode" ELSE "stopNode",
                   [loc[c] EXCEPT !.seenName[r.node] = name])
      PROVE  IInv'
  <2> DEFINE next == IF readable /\ r.node \notin running THEN "putNode" ELSE "stopNode"
             l == [loc[c] EXCEPT !.seenName[r.node] = name]
  <2>1. pc'[c] = next /\ loc'[c] = l /\ arg' = arg
    BY <1>1, <1>2, InEdit, AwaitFacts
  <2>2. /\ next \in {"putNode", "stopNode"}
        /\ next = "putNode" => r.node \notin running
    OBVIOUS
  <2>3. l \in Locals /\ l.seenName[r.node] = name
    <3>1. /\ loc[c] \in Locals /\ loc[c].seenName \in [Nodes -> Names \cup {NoName}]
          /\ r.node \in Nodes /\ name \in Names \cup {NoName}
      BY <1>1, InEdit DEF Locals, IInv, TypeOK, LabOK
    <3>2. [loc[c].seenName EXCEPT ![r.node] = name] \in [Nodes -> Names \cup {NoName}]
      BY <3>1
    <3>3. l = [loc[c] EXCEPT !.seenName = [loc[c].seenName EXCEPT ![r.node] = name]]
      BY <3>1 DEF Locals
    <3>4. [loc[c].seenName EXCEPT ![r.node] = name][r.node] = name
      BY <3>1
    <3> HIDE DEF l
    <3> QED BY <3>1, <3>2, <3>3, <3>4 DEF Locals
  <2> HIDE DEF next, l
  <2>4. EditInv(c)'
    BY <1>1, <1>2, <2>1, <2>2, <2>3, InEdit
    DEF EditInv, Duplicates, Named, labVars, nodeVars
  <2>5. LabInv'
    BY <1>2, ReadKeepsLab DEF LabInv, IInv, TypeOK
  <2> QED BY <1>1, <1>2, <2>2, <2>3, <2>4, <2>5, EditGoesOn DEF EditSteps, next, l
<1> QED BY <1>1, <1>2, InEdit, RefuseStep DEF ReadNode

LEMMA StopNodeKeepsIInv ==
  ASSUME IInv, NEW c \in Calls, StopNode(c)
  PROVE  IInv'
<1>1. /\ pc[c] = "stopNode" /\ pc[c] \in EditSteps
      /\ Stop(arg[c].node) /\ Await(c, "putNode", loc[c])
  BY DEF StopNode, EditSteps
<1>2. pc'[c] = "putNode" /\ loc'[c] = loc[c] /\ arg' = arg
  BY <1>1, InEdit, AwaitFacts
<1>3. EditInv(c)'
  BY <1>1, <1>2, InEdit DEF EditInv, Duplicates, Named, Stop
<1>4. LabInv'
  BY <1>1, PowerKeepsLab DEF LabInv, IInv, TypeOK
<1> QED BY <1>1, <1>3, <1>4, InEdit, EditGoesOn DEF EditSteps

LEMMA PutNodeKeepsIInv ==
  ASSUME IInv, NEW c \in Calls, PutNode(c)
  PROVE  IInv'
<1> DEFINE r == arg[c]
           name == SentName(r, loc[c].seenName[r.node])
           slot == IF "place" \in r.fields THEN r.slot ELSE NoPlace
<1>1. /\ pc[c] = "putNode" /\ pc[c] \in EditSteps
      /\ EditNode(r.node, name, slot) /\ Finish(c, "success")
  BY DEF PutNode, EditSteps
<1>2. r.name \in Names \cup {NoName} /\ r.slot \in Given /\ r.node \in Nodes
  BY <1>1, InEdit DEF EditRequest
<1>3. loc[c].seenName[r.node] \in Names \cup {NoName}
  BY <1>1, <1>2, InEdit DEF Locals
<1>4. name \in Names \cup {NoName} /\ slot \in Given
  BY <1>2, <1>3, PlacesGiven DEF SentName
<1> HIDE DEF name, slot
<1>5. LabInv'
  BY <1>1, <1>4, EditNodeKeepsLab DEF LabInv, IInv, TypeOK
<1> QED BY <1>1, <1>5, InEdit, FinishStep DEF Outcomes
-----------------------------------------------------------------------------
(***************************************************************************)
(* The bulk edits.                                                         *)
(***************************************************************************)
LEMMA InBulk ==
  ASSUME IInv, NEW c \in Calls, pc[c] \in BulkSteps
  PROVE  /\ InBlock(c) /\ loc[c] \in Locals
         /\ arg[c] \in Requests /\ arg[c].tool = "editMany" /\ arg[c] \in BulkRequest
         /\ BulkInv(c)
<1>1. InBlock(c)
  BY DEF InBlock, BulkSteps
<1>2. loc[c] \in Locals /\ arg[c] \in Requests /\ arg[c].tool = "editMany" /\ BulkInv(c)
  BY <1>1 DEF IInv, TypeOK, CallInv, ToolInv, InBlock
<1> QED BY <1>1, <1>2, RequestTypes

LEMMA BulkGoesOn ==
  ASSUME IInv, NEW c \in Calls, pc[c] \in BulkSteps, NEW request \in BulkSteps,
         NEW l \in Locals, Await(c, request, l), LabInv', BulkInv(c)'
  PROVE  IInv'
<1>1. pc'[c] = request /\ arg' = arg
  BY InBulk, AwaitFacts
<1>2. CallInv(c)'
  BY <1>1, InBulk, AtBulk
<1> QED BY <1>2, InBulk, AwaitStep DEF Steps

LEMMA BulkEnterKeepsIInv ==
  ASSUME IInv, NEW c \in Calls, BulkEnter(c)
  PROVE  IInv'
<1>1. /\ pc'[c] = "listNodes" /\ arg'[c] \in Requests /\ arg'[c].tool = "editMany"
      /\ holder = NoCall /\ EnterBlock(c, "listNodes")
  BY DEF BulkEnter, LockFree, EnterBlock, IInv, TypeOK, CallInv, ToolInv
<1>2. BulkInv(c)'
  BY <1>1 DEF BulkInv
<1>3. CallInv(c)'
  BY <1>1, <1>2, AtBulk DEF BulkSteps
<1> QED BY <1>1, <1>3, EnterStep DEF Steps, BulkSteps

\* The nodes that are picked by their numbers exist.
LEMMA InOrderType ==
  ASSUME LabOK, NEW order \in Seq(Nat), order # <<>>,
         \A j \in 1..Len(order) : Numbered(nodes, order[j]) # {}
  PROVE  /\ InOrder(order) \in Seq(Nodes) /\ InOrder(order) # <<>>
         /\ \A j \in 1..Len(InOrder(order)) : InOrder(order)[j] \in nodes
<1> DEFINE pick(j) == CHOOSE n \in Numbered(nodes, order[j]) : TRUE
<1>1. ASSUME NEW j \in 1..Len(order) PROVE pick(j) \in nodes
  <2>1. pick(j) \in Numbered(nodes, order[j])
    BY <1>1
  <2> QED BY <2>1 DEF Numbered
<1>2. InOrder(order) = [j \in 1..Len(order) |-> pick(j)]
  BY DEF InOrder
<1>3. Len(order) \in Nat /\ Len(order) # 0
  OBVIOUS
<1> HIDE DEF pick
<1>4. \A j \in 1..Len(order) : InOrder(order)[j] \in nodes
  BY <1>1, <1>2
<1>5. InOrder(order) \in Seq(nodes)
  BY <1>1, <1>2, <1>3
<1>6. Len(InOrder(order)) = Len(order)
  BY <1>2, <1>3, <1>5
<1> QED BY <1>3, <1>4, <1>5, <1>6 DEF LabOK

LEMMA ListNodesKeepsIInv ==
  ASSUME IInv, NEW c \in Calls, ListNodes(c)
  PROVE  IInv'
<1> DEFINE order == arg[c].order
           todo == InOrder(order)
<1>1. pc[c] = "listNodes" /\ pc[c] \in BulkSteps
  BY DEF ListNodes, BulkSteps
<1>2. ASSUME order # <<>>, \A j \in 1..Len(order) : Numbered(nodes, order[j]) # {},
             NEW unreadable \in SUBSET nodes, UNCHANGED labVars,
             Await(c, Stopping(todo, running \cup unreadable),
                   [loc[c] EXCEPT !.todo = todo, !.seen = running \cup unreadable,
                                  !.seenName = nodeName])
      PROVE  IInv'
  <2> DEFINE seen == running \cup unreadable
             next == Stopping(todo, seen)
             l == [loc[c] EXCEPT !.todo = todo, !.seen = seen, !.seenName = nodeName]
  <2>1. pc'[c] = next /\ loc'[c] = l
    BY <1>1, <1>2, InBulk, AwaitFacts
  <2>2. /\ todo \in Seq(Nodes) /\ todo # <<>>
        /\ \A j \in 1..Len(todo) : todo[j] \in nodes
    <3>1. order \in Seq(Nat) /\ LabOK
      BY <1>1, InBulk DEF BulkRequest, IInv, TypeOK
    <3> QED BY <1>2, <3>1, InOrderType
  <2>3. next \in {"bulkStop", "bulkPut"} /\ (next = "bulkPut" => Head(todo) \notin running)
    BY DEF Stopping
  <2> HIDE DEF todo
  <2>4. l \in Locals /\ l.todo = todo /\ l.seen = seen /\ l.seenName = nodeName
    <3>1. loc[c] \in Locals
      BY <1>1, InBulk
    <3>2. seen \in SUBSET Nodes /\ nodeName \in [Nodes -> Names \cup {NoName}]
      BY <1>2 DEF IInv, TypeOK, LabOK
    <3> HIDE DEF seen
    <3> QED BY <2>2, <3>1, <3>2 DEF Locals
  <2> HIDE DEF next, l
  <2>5. BulkInv(c)'
    BY <1>2, <2>1, <2>2, <2>3, <2>4 DEF BulkInv, labVars, nodeVars
  <2>6. LabInv'
    BY <1>2, ReadKeepsLab DEF LabInv, IInv, TypeOK
  <2> QED BY <1>1, <1>2, <2>3, <2>4, <2>5, <2>6, BulkGoesOn DEF BulkSteps, next, l, todo
<1> QED BY <1>1, <1>2, InBulk, RefuseStep DEF ListNodes

LEMMA BulkStopKeepsIInv ==
  ASSUME IInv, NEW c \in Calls, BulkStop(c)
  PROVE  IInv'
<1>1. /\ pc[c] = "bulkStop" /\ pc[c] \in BulkSteps
      /\ Stop(Head(loc[c].todo)) /\ Await(c, "bulkPut", loc[c])
  BY DEF BulkStop, BulkSteps
<1>2. pc'[c] = "bulkPut" /\ loc'[c] = loc[c]
  BY <1>1, InBulk, AwaitFacts
<1>3. BulkInv(c)'
  BY <1>1, <1>2, InBulk DEF BulkInv, Stop
<1>4. LabInv'
  BY <1>1, PowerKeepsLab DEF LabInv, IInv, TypeOK
<1> QED BY <1>1, <1>3, <1>4, InBulk, BulkGoesOn DEF BulkSteps

LEMMA BulkPutKeepsIInv ==
  ASSUME IInv, NEW c \in Calls, BulkPut(c)
  PROVE  IInv'
<1> DEFINE todo == loc[c].todo
           n == Head(todo)
           rest == Tail(todo)
<1>1. /\ pc[c] = "bulkPut" /\ pc[c] \in BulkSteps
      /\ EditNode(n, loc[c].seenName[n], NoPlace)
      /\ IF rest # <<>>
         THEN Await(c, Stopping(rest, loc[c].seen), [loc[c] EXCEPT !.todo = rest])
         ELSE Finish(c, "success")
  BY DEF BulkPut, BulkSteps
<1>2. todo \in Seq(Nodes) /\ todo # <<>> /\ loc[c] \in Locals
  BY <1>1, InBulk DEF Locals, BulkInv
<1>3. \A j \in 1..Len(todo) :
        /\ todo[j] \in nodes
        /\ loc[c].seenName[todo[j]] = nodeName[todo[j]]
        /\ todo[j] \in running => todo[j] \in loc[c].seen
  BY <1>1, InBulk DEF BulkInv
<1>4. n \in nodes /\ loc[c].seenName[n] = nodeName[n] /\ nodeName[n] \in Names
  <2>1. n = todo[1] /\ 1 \in 1..Len(todo)
    BY <1>2
  <2> QED BY <1>3, <2>1 DEF IInv, TypeOK, LabOK
<1>5. LabInv' /\ UNCHANGED <<nodes, running, nodeName>>
  <2>1. LabInv'
    BY <1>1, <1>4, EditNodeKeepsLab, PlacesGiven DEF LabInv, IInv, TypeOK
  <2>2. UNCHANGED <<nodes, running>>
    BY <1>1 DEF EditNode
  <2>3. nodeName' = nodeName
    <3>1. [nodeName EXCEPT ![n] = nodeName[n]] = nodeName
      BY <1>4 DEF IInv, TypeOK, LabOK
    <3> HIDE DEF n
    <3> QED BY <1>1, <1>4, <3>1 DEF EditNode
  <2> QED BY <2>1, <2>2, <2>3
<1>6. CASE rest # <<>>
  <2> DEFINE next == Stopping(rest, loc[c].seen)
             l == [loc[c] EXCEPT !.todo = rest]
  <2>1. Await(c, next, l)
    BY <1>1, <1>6
  <2>2. pc'[c] = next /\ loc'[c] = l
    BY <1>1, <2>1, InBulk, AwaitFacts
  <2>3. /\ rest \in Seq(Nodes) /\ Len(rest) = Len(todo) - 1
        /\ \A j \in 1..Len(rest) : j + 1 \in 1..Len(todo) /\ rest[j] = todo[j + 1]
        /\ Head(rest) = rest[1] /\ 1 \in 1..Len(rest)
    BY <1>2, <1>6
  <2>4. /\ next \in {"bulkStop", "bulkPut"}
        /\ next = "bulkPut" => Head(rest) \notin loc[c].seen
    BY DEF Stopping
  <2> HIDE DEF rest
  <2>5. /\ l \in Locals /\ l.todo = rest /\ l.seen = loc[c].seen
        /\ l.seenName = loc[c].seenName
    BY <1>2, <2>3 DEF Locals
  <2>6. \A j \in 1..Len(rest) :
          /\ rest[j] \in nodes
          /\ loc[c].seenName[rest[j]] = nodeName[rest[j]]
          /\ rest[j] \in running => rest[j] \in loc[c].seen
    BY <1>3, <2>3
  <2>7. next = "bulkPut" => Head(rest) \notin running
    BY <2>3, <2>4, <2>6
  <2> HIDE DEF next, l
  <2>8. BulkInv(c)'
    BY <1>5, <1>6, <2>2, <2>5, <2>6, <2>7 DEF BulkInv
  <2> QED BY <1>1, <1>5, <2>1, <2>4, <2>5, <2>8, BulkGoesOn DEF BulkSteps
<1>7. CASE rest = <<>>
  BY <1>1, <1>5, <1>7, InBulk, FinishStep DEF Outcomes
<1> QED BY <1>6, <1>7
-----------------------------------------------------------------------------
(***************************************************************************)
(* add_lab_node.                                                           *)
(***************************************************************************)
LEMMA InAdd ==
  ASSUME IInv, NEW c \in Calls, pc[c] \in AddSteps
  PROVE  /\ InBlock(c) /\ loc[c] \in Locals
         /\ arg[c] \in Requests /\ arg[c].tool = "addNode" /\ arg[c] \in AddRequest
         /\ PlaceInv(c)
<1>1. InBlock(c)
  BY DEF InBlock, AddSteps
<1>2. loc[c] \in Locals /\ arg[c] \in Requests /\ arg[c].tool = "addNode" /\ PlaceInv(c)
  BY <1>1 DEF IInv, TypeOK, CallInv, ToolInv, InBlock
<1> QED BY <1>1, <1>2, RequestTypes

\* Until it sends the node it changes nothing in the lab.
LEMMA AddGoesOn ==
  ASSUME IInv, NEW c \in Calls, pc[c] \in AddSteps, NEW request \in AddSteps,
         NEW l \in Locals, Await(c, request, l), UNCHANGED labVars, PlaceInv(c)'
  PROVE  IInv'
<1>1. pc'[c] = request /\ arg' = arg
  BY InAdd, AwaitFacts
<1>2. CallInv(c)'
  BY <1>1, InAdd, AtAdd
<1>3. LabInv'
  BY ReadKeepsLab DEF LabInv, IInv, TypeOK
<1> QED BY <1>2, <1>3, InAdd, AwaitStep DEF Steps

LEMMA AddEnterKeepsIInv ==
  ASSUME IInv, NEW c \in Calls, AddEnter(c)
  PROVE  IInv'
<1>1. /\ pc'[c] = "readTemplates" /\ arg'[c] \in Requests /\ arg'[c].tool = "addNode"
      /\ holder = NoCall /\ EnterBlock(c, "readTemplates")
  BY DEF AddEnter, LockFree, EnterBlock, IInv, TypeOK, CallInv, ToolInv
<1>2. CallInv(c)'
  BY <1>1, AtAdd DEF AddSteps, PlaceInv
<1> QED BY <1>1, <1>2, EnterStep DEF Steps, AddSteps

LEMMA ReadTemplatesKeepsIInv ==
  ASSUME IInv, NEW c \in Calls, ReadTemplates(c)
  PROVE  IInv'
<1>1. pc[c] = "readTemplates" /\ pc[c] \in AddSteps
  BY DEF ReadTemplates, AddSteps
<1>2. ASSUME Await(c, "readTemplate", loc[c]), UNCHANGED labVars PROVE IInv'
  <2>1. PlaceInv(c)'
    BY <1>1, <1>2, InAdd, AwaitFacts DEF PlaceInv
  <2> QED BY <1>1, <1>2, <2>1, InAdd, AddGoesOn DEF AddSteps
<1> QED BY <1>1, <1>2, InAdd, RefuseStep DEF ReadTemplates

LEMMA ReadTemplateKeepsIInv ==
  ASSUME IInv, NEW c \in Calls, ReadTemplate(c)
  PROVE  IInv'
<1> DEFINE slot == arg[c].slot
           next == IF NotGiven \in {slot[1], slot[2]} THEN "readPlaces" ELSE "postNode"
           l == [loc[c] EXCEPT !.slot = slot]
<1>1. pc[c] = "readTemplate" /\ pc[c] \in AddSteps
  BY DEF ReadTemplate, AddSteps
<1>2. loc[c] \in Locals /\ slot \in Given
  BY <1>1, InAdd DEF AddRequest
<1>3. l \in Locals /\ l.slot = slot
  BY <1>2 DEF Locals
<1>4. ASSUME Await(c, next, l), UNCHANGED labVars PROVE IInv'
  <2>1. pc'[c] = next /\ loc'[c] = l /\ arg' = arg
    BY <1>1, <1>4, InAdd, AwaitFacts
  <2>2. NotGiven \notin {slot[1], slot[2]} => slot \in Places /\ slot # NoPlace
    BY <1>2 DEF Given, Places, NoPlace
  <2>3. PlaceInv(c)'
    BY <1>2, <1>3, <2>1, <2>2 DEF PlaceInv
  <2> QED BY <1>1, <1>3, <1>4, <2>3, AddGoesOn DEF AddSteps
<1> QED BY <1>1, <1>4, InAdd, RefuseStep DEF ReadTemplate

LEMMA ReadPlacesKeepsIInv ==
  ASSUME IInv, NEW c \in Calls, ReadPlaces(c)
  PROVE  IInv'
<1>1. pc[c] = "readPlaces" /\ pc[c] \in AddSteps /\ UNCHANGED labVars
  BY DEF ReadPlaces, AddSteps
<1>2. PICK i \in 0..Cardinality(nodes) :
        /\ NextFree(i, {place[n] : n \in nodes})
        /\ Await(c, "postNode", [loc[c] EXCEPT !.slot = Completed(@, GridAt(i))])
  BY DEF ReadPlaces
<1> DEFINE first == Completed(loc[c].slot, GridAt(i))
           l == [loc[c] EXCEPT !.slot = first]
<1>3. pc'[c] = "postNode" /\ loc'[c] = l /\ arg' = arg
  BY <1>1, <1>2, InAdd, AwaitFacts
<1>4. first \in Places /\ (loc[c].slot = NoPlace => first = GridAt(i))
  BY <1>1, GridInPlaces, CompletedPlace, InAdd DEF Locals
<1>5. l \in Locals /\ l.slot = first
  <2>1. loc[c] \in Locals
    BY <1>1, InAdd
  <2> QED BY <1>4, <2>1, PlacesGiven DEF Locals
<1>6. PlaceInv(c)'
  <2>1. arg[c].slot = NoPlace => \A n \in nodes : ~Near(first, place[n])
    BY <1>1, <1>2, <1>4, InAdd DEF NextFree, IsFree, PlaceInv
  <2> QED BY <1>1, <1>3, <1>4, <1>5, <2>1 DEF PlaceInv, labVars, nodeVars
<1> QED BY <1>1, <1>2, <1>5, <1>6, AddGoesOn DEF AddSteps

LEMMA PostNodeKeepsIInv ==
  ASSUME IInv, NEW c \in Calls, PostNode(c)
  PROVE  IInv'
<1>1. pc[c] = "postNode" /\ pc[c] \in AddSteps /\ Finish(c, "success")
  BY DEF PostNode, AddSteps
<1>2. arg[c].name \in Names /\ loc[c].slot \in Places
  BY <1>1, InAdd DEF AddRequest, PlaceInv
<1>3. LabInv'
  BY <1>2, AddNodeKeepsLab DEF PostNode, LabInv, IInv, TypeOK
<1> QED BY <1>1, <1>3, InAdd, FinishStep DEF Outcomes

-----------------------------------------------------------------------------
(***************************************************************************)
(* delete_lab_node.                                                        *)
(***************************************************************************)
\* A reply to a list only ever selects items of the list.
LEMMA SelectedAreListed ==
  ASSUME NEW cands, NEW name, NEW sel
  PROVE  DeleteTargets(cands, name, sel) \subseteq cands
<1>1. ResolveSelection(cands, name, sel) \subseteq cands
  BY DEF ResolveSelection, Numbered, Named
<1> QED BY <1>1 DEF DeleteTargets

LEMMA InDelete ==
  ASSUME IInv, NEW c \in Calls, pc[c] \in DeleteSteps
  PROVE  /\ InBlock(c) /\ loc[c] \in Locals
         /\ arg[c] \in Requests /\ arg[c].tool = "deleteNode" /\ LoopInv(c)
<1>1. InBlock(c)
  BY DEF InBlock, DeleteSteps
<1> QED BY <1>1 DEF IInv, TypeOK, CallInv, ToolInv, InBlock

LEMMA DeleteGoesOn ==
  ASSUME IInv, NEW c \in Calls, pc[c] \in DeleteSteps, NEW request \in DeleteSteps,
         NEW l \in Locals, Await(c, request, l), LabInv', LoopInv(c)'
  PROVE  IInv'
<1>1. pc'[c] = request /\ arg' = arg
  BY InDelete, AwaitFacts
<1>2. CallInv(c)'
  BY <1>1, InDelete, AtDelete
<1> QED BY <1>2, InDelete, AwaitStep DEF Steps

LEMMA DeleteEntryKeepsIInv ==
  ASSUME IInv, NEW c \in Calls, DeleteEnter(c) \/ DeleteRefuse(c)
  PROVE  IInv'
<1>1. CASE DeleteEnter(c)
  <2>1. /\ pc'[c] = "findNodes" /\ arg'[c] \in Requests /\ arg'[c].tool = "deleteNode"
        /\ holder = NoCall /\ EnterBlock(c, "findNodes")
    BY <1>1 DEF DeleteEnter, LockFree, EnterBlock, IInv, TypeOK, CallInv, ToolInv
  <2>2. CallInv(c)'
    BY <2>1, AtDelete DEF DeleteSteps, LoopInv
  <2> QED BY <2>1, <2>2, EnterStep DEF Steps, DeleteSteps
<1>2. CASE DeleteRefuse(c)
  BY <1>2, RefuseAtEntry DEF DeleteRefuse, LockFree
<1> QED BY <1>1, <1>2

LEMMA FindNodesKeepsIInv ==
  ASSUME IInv, NEW c \in Calls, FindNodes(c)
  PROVE  IInv'
<1> DEFINE found == {n \in nodes : nodeName[n] \in arg[c].among}
           l == [loc[c] EXCEPT !.targets = found, !.seenName = nodeName]
<1>1. /\ pc[c] = "findNodes" /\ pc[c] \in DeleteSteps /\ UNCHANGED labVars
      /\ Await(c, "readVendors", l)
  BY DEF FindNodes, DeleteSteps
<1>2. pc'[c] = "readVendors" /\ loc'[c] = l /\ arg' = arg
  BY <1>1, InDelete, AwaitFacts
<1>3. l \in Locals /\ l.targets = found
  <2>1. /\ loc[c] \in Locals /\ found \in SUBSET (Nodes \cup NetIds)
        /\ nodeName \in [Nodes -> Names \cup {NoName}]
    BY <1>1, InDelete DEF IInv, TypeOK, LabOK
  <2> HIDE DEF found
  <2> QED BY <2>1 DEF Locals
<1>4. LoopInv(c)'
  BY <1>1, <1>2, <1>3 DEF LoopInv, labVars, nodeVars
<1>5. LabInv'
  BY <1>1, ReadKeepsLab DEF LabInv, IInv, TypeOK
<1> QED BY <1>1, <1>3, <1>4, <1>5, DeleteGoesOn DEF DeleteSteps

LEMMA ReadVendorsKeepsIInv ==
  ASSUME IInv, NEW c \in Calls, ReadVendors(c)
  PROVE  IInv'
<1> DEFINE targets == DeleteTargets(loc[c].targets, loc[c].seenName, arg[c].sel)
           l == [loc[c] EXCEPT !.targets = targets]
<1>1. pc[c] = "readVendors" /\ pc[c] \in DeleteSteps
  BY DEF ReadVendors, DeleteSteps
<1>2. targets \subseteq loc[c].targets
  BY SelectedAreListed
<1> HIDE DEF targets
<1>3. ASSUME Await(c, "deleteNodes", l), UNCHANGED labVars PROVE IInv'
  <2>1. pc'[c] = "deleteNodes" /\ loc'[c] = l /\ arg' = arg
    BY <1>1, <1>3, InDelete, AwaitFacts
  <2>2. l \in Locals /\ l.targets = targets
    BY <1>1, <1>2, InDelete DEF Locals
  <2>3. LoopInv(c)'
    BY <1>1, <1>2, <1>3, <2>1, <2>2, InDelete DEF LoopInv, labVars, nodeVars
  <2>4. LabInv'
    BY <1>3, ReadKeepsLab DEF LabInv, IInv, TypeOK
  <2> QED BY <1>1, <1>3, <2>2, <2>3, <2>4, DeleteGoesOn DEF DeleteSteps
<1> QED BY <1>1, <1>3, InDelete, RefuseStep DEF ReadVendors, targets

LEMMA DeleteNodesKeepsIInv ==
  ASSUME IInv, NEW c \in Calls, DeleteNodes(c)
  PROVE  IInv'
<1>1. pc[c] = "deleteNodes" /\ pc[c] \in DeleteSteps
  BY DEF DeleteNodes, DeleteSteps
<1>2. PICK n \in loc[c].targets :
        LET rest == loc[c].targets \ {n} IN
        /\ DeleteNode(n)
        /\ IF rest # {}
           THEN Await(c, "deleteNodes", [loc[c] EXCEPT !.targets = rest])
           ELSE Finish(c, "success")
  BY DEF DeleteNodes
<1> DEFINE rest == loc[c].targets \ {n}
           l == [loc[c] EXCEPT !.targets = rest]
<1>3. LabInv' /\ nodes' = nodes \ {n} /\ nodeName' = nodeName
  BY <1>2, DeleteNodeKeepsLab DEF DeleteNode, LabInv, IInv, TypeOK
<1>4. CASE rest # {}
  <2>1. Await(c, "deleteNodes", l)
    BY <1>2, <1>4
  <2>2. pc'[c] = "deleteNodes" /\ loc'[c] = l /\ arg' = arg
    BY <1>1, <2>1, InDelete, AwaitFacts
  <2>3. l \in Locals /\ l.targets = rest
    <3>1. loc[c] \in Locals /\ rest \in SUBSET (Nodes \cup NetIds)
      BY <1>1, InDelete DEF Locals
    <3> HIDE DEF rest
    <3> QED BY <3>1 DEF Locals
  <2>4. LoopInv(c)'
    BY <1>1, <1>3, <2>2, <2>3, InDelete DEF LoopInv
  <2> QED BY <1>1, <1>3, <2>1, <2>3, <2>4, DeleteGoesOn DEF DeleteSteps
<1>5. CASE rest = {}
  BY <1>1, <1>2, <1>3, <1>5, InDelete, FinishStep DEF Outcomes
<1> QED BY <1>4, <1>5
-----------------------------------------------------------------------------
(***************************************************************************)
(* add_lab_network, edit_lab_network and delete_lab_network.               *)
(***************************************************************************)
\* The tool that sends a request.
NetworkTool(request) ==
  IF request \in {"readTypes", "postNetwork"} THEN "addNetwork"
  ELSE IF request \in {"readNetwork", "putNetwork"} THEN "editNetwork" ELSE "deleteNetwork"

LEMMA InNetwork ==
  ASSUME IInv, NEW c \in Calls, pc[c] \in NetworkSteps
  PROVE  /\ InBlock(c) /\ loc[c] \in Locals
         /\ arg[c] \in Requests /\ arg[c].tool = NetworkTool(pc[c])
         /\ LoopInv(c) /\ NetworkInv(c)
<1>1. InBlock(c)
  BY DEF InBlock, NetworkSteps
<1>2. ToolInv(c)
  BY DEF IInv, CallInv
<1>3. arg[c].tool = NetworkTool(pc[c])
  BY <1>2 DEF ToolInv, NetworkTool, NetworkSteps
<1> QED BY <1>1, <1>3 DEF IInv, TypeOK, CallInv, ToolInv, InBlock

LEMMA AtNetworkTool ==
  ASSUME NEW c, pc'[c] \in NetworkSteps, arg'[c] \in Requests,
         arg'[c].tool = NetworkTool(pc'[c])
  PROVE  ToolInv(c)'
BY DEF ToolInv, NetworkTool, ConnectSteps, PowerSteps, EditSteps, BulkSteps, AddSteps,
       DeleteSteps, NetworkSteps

LEMMA NetworkGoesOn ==
  ASSUME IInv, NEW c \in Calls, pc[c] \in NetworkSteps, NEW request \in NetworkSteps,
         NetworkTool(request) = NetworkTool(pc[c]), NEW l \in Locals,
         Await(c, request, l), LabInv', LoopInv(c)', NetworkInv(c)'
  PROVE  IInv'
<1>1. pc'[c] = request /\ arg' = arg
  BY InNetwork, AwaitFacts
<1>2. CallInv(c)'
  BY <1>1, InNetwork, AtNetworkTool, AtNetwork
<1> QED BY <1>2, InNetwork, AwaitStep DEF Steps

LEMMA NetworkEntryKeepsIInv ==
  ASSUME IInv, NEW c \in Calls, NetworkEntry(c)
  PROVE  IInv'
<1>1. ASSUME NEW request \in NetworkSteps, pc[c] = "queued", holder = NoCall,
             arg[c].tool = NetworkTool(request), EnterBlock(c, request),
             LoopInv(c)', NetworkInv(c)'
      PROVE  IInv'
  <2>1. pc'[c] = request /\ arg'[c] = arg[c] /\ arg[c] \in Requests
    BY <1>1 DEF EnterBlock, IInv, TypeOK, CallInv, ToolInv
  <2>2. CallInv(c)'
    BY <1>1, <2>1, AtNetworkTool, AtNetwork
  <2> QED BY <1>1, <2>2, EnterStep DEF Steps
<1>2. CASE AddNetworkEnter(c)
  <2> DEFINE next == IF arg[c].type = "name" THEN "postNetwork" ELSE "readTypes"
  <2>1. /\ pc[c] = "queued" /\ holder = NoCall /\ arg[c].tool = "addNetwork"
        /\ EnterBlock(c, next)
    BY <1>2 DEF AddNetworkEnter, LockFree
  <2>2. next \in {"postNetwork", "readTypes"} /\ pc'[c] = next
    BY <2>1 DEF EnterBlock, IInv, TypeOK
  <2> HIDE DEF next
  <2>3. LoopInv(c)' /\ NetworkInv(c)'
    BY <2>2 DEF LoopInv, NetworkInv
  <2>4. next \in NetworkSteps /\ NetworkTool(next) = "addNetwork"
    BY <2>2 DEF NetworkSteps, NetworkTool
  <2> QED BY <1>1, <2>1, <2>3, <2>4
<1>3. CASE EditNetworkEnter(c)
  <2> DEFINE r == arg[c]
             next == IF r.visibility = "hide" \/ NeedsPadding(r) THEN "readNetwork"
                     ELSE "putNetwork"
  <2>1. /\ pc[c] = "queued" /\ holder = NoCall /\ r.tool = "editNetwork"
        /\ EnterBlock(c, next)
    BY <1>3 DEF EditNetworkEnter, LockFree
  <2>2. /\ next \in {"readNetwork", "putNetwork"} /\ pc'[c] = next /\ arg' = arg
        /\ next = "putNetwork" => r.visibility # "hide" /\ ~NeedsPadding(r)
    BY <2>1 DEF EnterBlock, IInv, TypeOK
  <2> HIDE DEF next
  <2>3. LoopInv(c)' /\ NetworkInv(c)'
    BY <2>2 DEF LoopInv, NetworkInv, NeedsPadding
  <2>4. next \in NetworkSteps /\ NetworkTool(next) = "editNetwork"
    BY <2>2 DEF NetworkSteps, NetworkTool
  <2> QED BY <1>1, <2>1, <2>3, <2>4
<1>4. CASE DeleteNetworkEnter(c)
  <2>1. /\ pc[c] = "queued" /\ holder = NoCall /\ arg[c].tool = "deleteNetwork"
        /\ EnterBlock(c, "findNetworks")
    BY <1>4 DEF DeleteNetworkEnter, LockFree
  <2>2. pc'[c] = "findNetworks"
    BY <2>1 DEF EnterBlock, IInv, TypeOK
  <2>3. LoopInv(c)' /\ NetworkInv(c)'
    BY <2>2 DEF LoopInv, NetworkInv
  <2> QED BY <1>1, <2>1, <2>3 DEF NetworkSteps, NetworkTool
<1>5. CASE EditNetworkRefuse(c) \/ DeleteNetworkRefuse(c)
  BY <1>5, RefuseAtEntry DEF EditNetworkRefuse, DeleteNetworkRefuse, LockFree
<1> QED BY <1>2, <1>3, <1>4, <1>5 DEF NetworkEntry

LEMMA ReadTypesKeepsIInv ==
  ASSUME IInv, NEW c \in Calls, ReadTypes(c)
  PROVE  IInv'
<1>1. pc[c] = "readTypes" /\ pc[c] \in NetworkSteps
  BY DEF ReadTypes, NetworkSteps
<1>2. ASSUME Await(c, "postNetwork", loc[c]), UNCHANGED labVars PROVE IInv'
  <2>1. pc'[c] = "postNetwork"
    BY <1>1, <1>2, InNetwork, AwaitFacts
  <2>2. LoopInv(c)' /\ NetworkInv(c)'
    BY <2>1 DEF LoopInv, NetworkInv
  <2>3. LabInv'
    BY <1>2, ReadKeepsLab DEF LabInv, IInv, TypeOK
  <2>4. "postNetwork" \in NetworkSteps /\ NetworkTool("postNetwork") = NetworkTool(pc[c])
    BY <1>1 DEF NetworkSteps, NetworkTool
  <2> QED BY <1>1, <1>2, <2>2, <2>3, <2>4, InNetwork, NetworkGoesOn
<1> QED BY <1>1, <1>2, InNetwork, RefuseStep DEF ReadTypes

LEMMA PostNetworkKeepsIInv ==
  ASSUME IInv, NEW c \in Calls, PostNetwork(c)
  PROVE  IInv'
<1>1. pc[c] = "postNetwork" /\ pc[c] \in NetworkSteps /\ Finish(c, "success")
  BY DEF PostNetwork, NetworkSteps
<1>2. arg[c].name \in Names
  BY <1>1, InNetwork, RequestTypes DEF NetworkTool, AddNetworkRequest
<1>3. LabInv'
  BY <1>2, AddNetworkKeepsLab DEF PostNetwork, LabInv, IInv, TypeOK
<1> QED BY <1>1, <1>3, InNetwork, FinishStep DEF Outcomes

LEMMA ReadNetworkKeepsIInv ==
  ASSUME IInv, NEW c \in Calls, ReadNetwork(c)
  PROVE  IInv'
<1> DEFINE r == arg[c]
           l == [loc[c] EXCEPT !.seenNetName = netName[r.net]]
<1>1. pc[c] = "readNetwork" /\ pc[c] \in NetworkSteps
  BY DEF ReadNetwork, NetworkSteps
<1>2. ASSUME r.net \in nets, r.visibility = "hide" => Endpoints(r.net) # {},
             Await(c, "putNetwork", l), UNCHANGED labVars
      PROVE  IInv'
  <2>1. pc'[c] = "putNetwork" /\ loc'[c] = l /\ arg' = arg
    BY <1>1, <1>2, InNetwork, AwaitFacts
  <2>2. l \in Locals /\ l.seenNetName = netName[r.net]
    <3>1. loc[c] \in Locals /\ netName[r.net] \in Names
      BY <1>1, <1>2, InNetwork DEF IInv, TypeOK, LabOK
    <3> QED BY <3>1 DEF Locals
  <2>3. LoopInv(c)'
    BY <2>1 DEF LoopInv
  <2>4. NetworkInv(c)'
    <3>1. Endpoints(arg[c].net)' = Endpoints(arg[c].net)
      BY <1>2, <2>1 DEF Endpoints, labVars, nodeVars
    <3> QED BY <1>2, <2>1, <2>2, <3>1 DEF NetworkInv, NeedsPadding, labVars, netVars
  <2>5. LabInv'
    BY <1>2, ReadKeepsLab DEF LabInv, IInv, TypeOK
  <2>6. "putNetwork" \in NetworkSteps /\ NetworkTool("putNetwork") = NetworkTool(pc[c])
    BY <1>1 DEF NetworkSteps, NetworkTool
  <2> QED BY <1>1, <1>2, <2>2, <2>3, <2>4, <2>5, <2>6, NetworkGoesOn
<1> QED BY <1>1, <1>2, InNetwork, RefuseStep DEF ReadNetwork

LEMMA PutNetworkKeepsIInv ==
  ASSUME IInv, NEW c \in Calls, PutNetwork(c)
  PROVE  IInv'
<1> DEFINE r == arg[c]
           name == IF "name" \in r.fields THEN r.name
                   ELSE IF NeedsPadding(r) THEN loc[c].seenNetName ELSE NoName
<1>1. /\ pc[c] = "putNetwork" /\ pc[c] \in NetworkSteps
      /\ EditNetwork(r.net, name, r.visibility) /\ Finish(c, "success")
  BY DEF PutNetwork, NetworkSteps
<1>2. name \in Names \cup {NoName}
  <2>1. r.name \in Names \cup {NoName}
    BY <1>1, InNetwork, RequestTypes DEF NetworkTool, EditNetworkRequest
  <2>2. loc[c].seenNetName \in Names \cup {NoName}
    BY <1>1, InNetwork DEF Locals
  <2> QED BY <2>1, <2>2
<1> HIDE DEF name
<1>3. LabInv'
  BY <1>1, <1>2, EditNetworkKeepsLab DEF LabInv, IInv, TypeOK
<1> QED BY <1>1, <1>3, InNetwork, FinishStep DEF Outcomes

LEMMA FindNetworksKeepsIInv ==
  ASSUME IInv, NEW c \in Calls, FindNetworks(c)
  PROVE  IInv'
<1> DEFINE found == {k \in nets : netName[k] \in arg[c].among}
           targets == DeleteTargets(found, netName, arg[c].sel)
           l == [loc[c] EXCEPT !.targets = targets]
<1>1. pc[c] = "findNetworks" /\ pc[c] \in NetworkSteps
  BY DEF FindNetworks, NetworkSteps
<1>2. ASSUME Await(c, "deleteNetworks", l), UNCHANGED labVars PROVE IInv'
  <2>1. pc'[c] = "deleteNetworks" /\ loc'[c] = l /\ arg' = arg
    BY <1>1, <1>2, InNetwork, AwaitFacts
  <2>2. targets \subseteq nets /\ \A k \in targets : netName[k] \in arg[c].among
    <3>1. targets \subseteq found
      BY SelectedAreListed
    <3> QED BY <3>1
  <2> HIDE DEF targets
  <2>3. l \in Locals /\ l.targets = targets
    <3>1. loc[c] \in Locals /\ targets \in SUBSET (Nodes \cup NetIds)
      BY <1>1, <2>2, InNetwork DEF IInv, TypeOK, LabOK
    <3> QED BY <3>1 DEF Locals
  <2>4. LoopInv(c)'
    BY <1>2, <2>1, <2>2, <2>3 DEF LoopInv, labVars, netVars
  <2>5. NetworkInv(c)'
    BY <2>1 DEF NetworkInv
  <2>6. LabInv'
    BY <1>2, ReadKeepsLab DEF LabInv, IInv, TypeOK
  <2>7. "deleteNetworks" \in NetworkSteps /\ NetworkTool("deleteNetworks") = NetworkTool(pc[c])
    BY <1>1 DEF NetworkSteps, NetworkTool
  <2> QED BY <1>1, <1>2, <2>3, <2>4, <2>5, <2>6, <2>7, NetworkGoesOn
<1> QED BY <1>1, <1>2, InNetwork, RefuseStep DEF FindNetworks

LEMMA DeleteNetworksKeepsIInv ==
  ASSUME IInv, NEW c \in Calls, DeleteNetworks(c)
  PROVE  IInv'
<1>1. pc[c] = "deleteNetworks" /\ pc[c] \in NetworkSteps
  BY DEF DeleteNetworks, NetworkSteps
<1>2. PICK k \in loc[c].targets :
        LET rest == loc[c].targets \ {k} IN
        /\ DeleteNetwork(k)
        /\ IF rest # {}
           THEN Await(c, "deleteNetworks", [loc[c] EXCEPT !.targets = rest])
           ELSE Finish(c, "success")
  BY DEF DeleteNetworks
<1> DEFINE rest == loc[c].targets \ {k}
           l == [loc[c] EXCEPT !.targets = rest]
<1>3. LabInv' /\ nets' = nets \ {k} /\ netName' = netName
  BY <1>2, DeleteNetworkKeepsLab DEF DeleteNetwork, LabInv, IInv, TypeOK
<1>4. CASE rest # {}
  <2>1. Await(c, "deleteNetworks", l)
    BY <1>2, <1>4
  <2>2. pc'[c] = "deleteNetworks" /\ loc'[c] = l /\ arg' = arg
    BY <1>1, <2>1, InNetwork, AwaitFacts
  <2>3. l \in Locals /\ l.targets = rest
    <3>1. loc[c] \in Locals /\ rest \in SUBSET (Nodes \cup NetIds)
      BY <1>1, InNetwork DEF Locals
    <3> HIDE DEF rest
    <3> QED BY <3>1 DEF Locals
  <2>4. LoopInv(c)' /\ NetworkInv(c)'
    BY <1>1, <1>3, <2>2, <2>3, InNetwork DEF LoopInv, NetworkInv
  <2> QED BY <1>1, <1>3, <2>1, <2>3, <2>4, NetworkGoesOn
<1>5. CASE rest = {}
  BY <1>1, <1>2, <1>3, <1>5, InNetwork, FinishStep DEF Outcomes
<1> QED BY <1>4, <1>5

-----------------------------------------------------------------------------
(***************************************************************************)
(* All calls together.                                                     *)
(***************************************************************************)
LEMMA NodeEntryKeepsIInv ==
  ASSUME IInv, NEW c \in Calls, NodeEntry(c)
  PROVE  IInv'
BY PowerEnterKeepsIInv, EditEntryKeepsIInv, BulkEnterKeepsIInv, AddEnterKeepsIInv,
   DeleteEntryKeepsIInv
DEF NodeEntry

LEMMA NodeStepKeepsIInv ==
  ASSUME IInv, NEW c \in Calls, NodeStep(c)
  PROVE  IInv'
BY PowerOneKeepsIInv, ListPowerKeepsIInv, PowerEachKeepsIInv,
   ReadNamesKeepsIInv, ReadNodeKeepsIInv, StopNodeKeepsIInv, PutNodeKeepsIInv,
   ListNodesKeepsIInv, BulkStopKeepsIInv, BulkPutKeepsIInv,
   ReadTemplatesKeepsIInv, ReadTemplateKeepsIInv, ReadPlacesKeepsIInv, PostNodeKeepsIInv,
   FindNodesKeepsIInv, ReadVendorsKeepsIInv, DeleteNodesKeepsIInv
DEF NodeStep

LEMMA NetworkStepKeepsIInv ==
  ASSUME IInv, NEW c \in Calls, NetworkStep(c)
  PROVE  IInv'
BY ReadTypesKeepsIInv, PostNetworkKeepsIInv, ReadNetworkKeepsIInv, PutNetworkKeepsIInv,
   FindNetworksKeepsIInv, DeleteNetworksKeepsIInv
DEF NetworkStep

LEMMA NextKeepsIInv ==
  ASSUME IInv, Next
  PROVE  IInv'
<1>1. PICK c \in Calls : Begin(c) \/ GiveUp(c) \/ Enter(c) \/ Step(c) \/ Raise(c)
  BY DEF Next
<1>2. CASE Begin(c) \/ GiveUp(c)
  BY <1>2, OutsideStep
<1>3. CASE Enter(c)
  BY <1>3, ConnectEntryKeepsIInv, NodeEntryKeepsIInv, NetworkEntryKeepsIInv DEF Enter
<1>4. CASE Step(c)
  BY <1>4, ConnectStepKeepsIInv, NodeStepKeepsIInv, NetworkStepKeepsIInv DEF Step
<1>5. CASE Raise(c)
  <2>1. LabInv'
    BY <1>5, ReadKeepsLab DEF Raise, LabInv, IInv, TypeOK
  <2> QED BY <1>5, <2>1, FinishStep DEF Raise, Outcomes
<1> QED BY <1>1, <1>2, <1>3, <1>4, <1>5

LEMMA StutterKeepsIInv ==
  ASSUME IInv, UNCHANGED vars
  PROVE  IInv'
<1>1. LabInv'
  BY ReadKeepsLab DEF LabInv, IInv, TypeOK, vars
<1>2. TypeOK' /\ HolderInv'
  BY <1>1 DEF IInv, TypeOK, LabInv, HolderInv, InBlock, vars
<1>3. ASSUME NEW c \in Calls PROVE CallInv(c)'
  BY DEF IInv, CallInv, ToolInv, ConnectInv, StopInv, EditInv, BulkInv,
         LoopInv, PlaceInv, NetworkInv, Rewirable, Source, Target, Endpoints,
         Duplicates, Named, vars, labVars, nodeVars, netVars
<1> QED BY <1>1, <1>2, <1>3 DEF IInv, LabInv

LEMMA InitIInv == Init => IInv
<1> SUFFICES ASSUME Init PROVE IInv
  OBVIOUS
<1>1. TypeOK
  BY NoLocalsType DEF Init, LabInit, CallsInit, TypeOK, LabOK, Outcomes
<1>2. HolderInv
  BY LabAssumption DEF Init, CallsInit, HolderInv, InBlock
<1>3. WireInv
  BY DEF Init, LabInit, WireInv
<1>4. ASSUME NEW c \in Calls PROVE CallInv(c)
  <2>1. pc[c] = "idle"
    BY DEF Init, CallsInit
  <2>2. ToolInv(c)
    BY <2>1 DEF ToolInv, ConnectSteps, PowerSteps, EditSteps, BulkSteps, AddSteps, DeleteSteps
  <2>3. ConnectInv(c) /\ StopInv(c)
    BY <2>1 DEF ConnectInv, StopInv
  <2>4. EditInv(c) /\ BulkInv(c) /\ LoopInv(c) /\ PlaceInv(c) /\ NetworkInv(c)
    BY <2>1 DEF EditInv, BulkInv, LoopInv, PlaceInv, NetworkInv
  <2> QED BY <2>2, <2>3, <2>4 DEF CallInv
<1> QED BY <1>1, <1>2, <1>3, <1>4 DEF IInv

\* In every reachable state the lab is well formed, only the holder of the lock
\* is inside the block, and what a call has read and decided is still true of the
\* lab at the request that acts on it, for any number of agents that call any of
\* the tools that take the lab's lock.
THEOREM Invariance == Spec => []IInv
<1>1. IInv /\ [Next]_vars => IInv'
  BY NextKeepsIInv, StutterKeepsIInv
<1> QED BY InitIInv, <1>1, PTL DEF Spec
-----------------------------------------------------------------------------
(***************************************************************************)
(* The invariants that follow from it.                                     *)
(***************************************************************************)
\* Every variable always has its type: no interface is on a network that does not
\* exist, and no node runs that does not exist.
THEOREM TypeCorrect == Spec => []TypeOK
<1>1. IInv => TypeOK
  BY DEF IInv
<1> QED BY Invariance, <1>1, PTL

\* When connect_interface asks EVE-NG Community to wire an interface, its node is
\* stopped: no other call has started it since connect_interface checked it.
THEOREM WiresStoppedNodes == Spec => []WiredWhileStopped
<1>1. IInv => WiredWhileStopped
  BY DEF IInv, CallInv, StopInv, WiredWhileStopped
<1> QED BY Invariance, <1>1, PTL

\* When edit_lab_node or a bulk edit asks EVE-NG to edit a node, it is stopped.
THEOREM EditsStoppedNodes == Spec => []EditedWhileStopped
<1>1. IInv => EditedWhileStopped
  BY DEF IInv, CallInv, EditInv, BulkInv, EditedWhileStopped
<1> QED BY Invariance, <1>1, PTL

-----------------------------------------------------------------------------
(***************************************************************************)
(* Which requests change what.                                             *)
(***************************************************************************)
\* Every other request at most starts or stops nodes.
LEMMA LabChanges ==
  ASSUME [Next]_vars
  PROVE  \/ UNCHANGED <<nodes, nodeName, place, wire, netVars>>
         \/ \E c \in Calls :
              \/ CreateLine(c) \/ SetSource(c) \/ SetTarget(c) \/ HideLine(c) \/ SetNetwork(c)
              \/ PutNode(c) \/ BulkPut(c) \/ PostNode(c) \/ DeleteNodes(c)
              \/ PostNetwork(c) \/ PutNetwork(c) \/ DeleteNetworks(c)
<1>1. CASE UNCHANGED vars
  BY <1>1 DEF vars, labVars, nodeVars
<1>2. CASE Next
  <2>1. PICK c \in Calls : Begin(c) \/ GiveUp(c) \/ Enter(c) \/ Step(c) \/ Raise(c)
    BY <1>2 DEF Next
  <2>2. ASSUME UNCHANGED labVars
        PROVE  UNCHANGED <<nodes, nodeName, place, wire, netVars>>
    BY <2>2 DEF labVars, nodeVars
  <2>3. CASE Begin(c) \/ GiveUp(c) \/ Raise(c)
    BY <2>2, <2>3 DEF Begin, GiveUp, Raise
  <2>4. CASE Enter(c)
    BY <2>2, <2>4
    DEF Enter, ConnectEntry, ConnectEnter, ConnectRefuse, NodeEntry, PowerEnter, EditEnter,
        EditRefuse, BulkEnter, AddEnter, DeleteEnter, DeleteRefuse, NetworkEntry,
        AddNetworkEnter, EditNetworkEnter, EditNetworkRefuse, DeleteNetworkEnter,
        DeleteNetworkRefuse, EnterBlock, Refuse
  <2>5. CASE ConnectStep(c)
    BY <2>2, <2>5
    DEF ConnectStep, ReadSource, ReadTarget, ReadNetworks, ReadStatus, CheckSource, Check,
        StopSource, CheckTarget, StopTarget, PollLine, Stop, Refuse
  <2>6. CASE NodeStep(c)
    BY <2>2, <2>6
    DEF NodeStep, PowerOne, ListPower, PowerEach, Power, Start, ReadNames, ReadNode, StopNode,
        ListNodes, BulkStop, ReadTemplates, ReadTemplate, ReadPlaces, FindNodes, ReadVendors,
        Stop, Refuse
  <2>7. CASE NetworkStep(c)
    BY <2>2, <2>7 DEF NetworkStep, ReadTypes, ReadNetwork, FindNetworks, Refuse
  <2> QED BY <2>1, <2>3, <2>4, <2>5, <2>6, <2>7 DEF Step
<1> QED BY <1>1, <1>2

\* A call that ends with a success does so by its own step.
LEMMA SuccessIsOwnStep ==
  ASSUME IInv, [Next]_vars, NEW c \in Calls, Succeeds(c)
  PROVE  Step(c)
<1>1. InBlock(c) /\ ~InBlock(c)' /\ reply' = "success"
  BY DEF Succeeds
<1>2. Next
  BY <1>1 DEF InBlock, vars
<1>3. PICK d \in Calls : Begin(d) \/ GiveUp(d) \/ Enter(d) \/ Step(d) \/ Raise(d)
  BY <1>2 DEF Next
<1>4. ~Begin(d) /\ ~GiveUp(d) /\ ~Raise(d)
  BY <1>1 DEF Begin, GiveUp, Raise, Finish
<1>5. ~Enter(d)
  BY <1>1
  DEF Enter, ConnectEntry, ConnectEnter, ConnectRefuse, NodeEntry, PowerEnter, EditEnter,
      EditRefuse, BulkEnter, AddEnter, DeleteEnter, DeleteRefuse, NetworkEntry,
      AddNetworkEnter, EditNetworkEnter, EditNetworkRefuse, DeleteNetworkEnter,
      DeleteNetworkRefuse, EnterBlock, Refuse, Finish
<1>6. Step(d)
  BY <1>3, <1>4, <1>5
<1>7. InBlock(d)
  BY <1>6
  DEF Step, InBlock, ConnectStep, ReadSource, ReadTarget, ReadNetworks, ReadStatus,
      CheckSource, StopSource, CheckTarget, StopTarget, CreateLine, PollLine, SetSource,
      SetTarget, HideLine, SetNetwork, NodeStep, PowerOne, ListPower, PowerEach, ReadNames,
      ReadNode, StopNode, PutNode, ListNodes, BulkStop, BulkPut, ReadTemplates, ReadTemplate,
      ReadPlaces, PostNode, FindNodes, ReadVendors, DeleteNodes, NetworkStep, ReadTypes,
      PostNetwork, ReadNetwork, PutNetwork, FindNetworks, DeleteNetworks
<1>8. c = d
  BY <1>1, <1>7 DEF IInv, HolderInv
<1> QED BY <1>6, <1>8

\* A call takes the step of the request it waits for.
LEMMA StepOfRequest ==
  ASSUME NEW c \in Calls, Step(c)
  PROVE  /\ pc[c] = "hideLine" => HideLine(c)
         /\ pc[c] = "putNode" => PutNode(c)
         /\ pc[c] = "postNode" => PostNode(c)
         /\ pc[c] = "deleteNodes" => DeleteNodes(c)
         /\ pc[c] = "deleteNetworks" => DeleteNetworks(c)
BY DEF Step, ConnectStep, ReadSource, ReadTarget, ReadNetworks, ReadStatus,
      CheckSource, StopSource, CheckTarget, StopTarget, CreateLine, PollLine, SetSource,
      SetTarget, HideLine, SetNetwork, NodeStep, PowerOne, ListPower, PowerEach, ReadNames,
      ReadNode, StopNode, PutNode, ListNodes, BulkStop, BulkPut, ReadTemplates, ReadTemplate,
      ReadPlaces, PostNode, FindNodes, ReadVendors, DeleteNodes, NetworkStep, ReadTypes,
      PostNetwork, ReadNetwork, PutNetwork, FindNetworks, DeleteNetworks
-----------------------------------------------------------------------------
(***************************************************************************)
(* What a step may never do.                                               *)
(***************************************************************************)
\* Only one call waits for a request to EVE-NG that is part of a block.
LEMMA OneInside ==
  ASSUME IInv, NEW c \in Calls, NEW d \in Calls, InBlock(c), InBlock(d)
  PROVE  c = d
BY DEF IInv, HolderInv

\* A connected interface is only ever rewired by a call of connect_interface that
\* confirmed it, and only disconnected by deleting its node or its network.
THEOREM NeverRewiresSilently == Spec => NoSilentRewire
<1>1. ASSUME IInv, [Next]_vars, NEW n \in Nodes, NEW i \in Ifaces,
             wire[n][i] \notin {NoNet, wire'[n][i]}
      PROVE  \E c \in Calls :
               \/ pc[c] \in {"setSource", "setTarget", "setNetwork"} /\ arg[c].confirm
               \/ pc[c] \in {"deleteNodes", "deleteNetworks"}
  <2>1. PICK c \in Calls :
          SetSource(c) \/ SetTarget(c) \/ SetNetwork(c) \/ DeleteNodes(c) \/ DeleteNetworks(c)
    BY <1>1, LabChanges
    DEF CreateLine, HideLine, PutNode, BulkPut, PostNode, PostNetwork, PutNetwork, AddNetwork,
        EditNetwork, EditNode, AddNode, labVars
  <2>2. wire \in [Nodes -> [Ifaces -> nets \cup {NoNet}]]
    BY <1>1 DEF IInv, TypeOK, LabOK
  <2>3. CASE SetSource(c) \/ SetNetwork(c)
    <3>1. pc[c] \in {"setSource", "setNetwork"} /\ pc[c] \in ConnectSteps
      BY <2>3 DEF SetSource, SetNetwork, ConnectSteps
    <3>2. n = arg[c].node /\ i = loc[c].src
      BY <1>1, <2>2, <2>3 DEF SetSource, SetNetwork, SetInterface
    <3>3. Rewirable(c, n, i)
      BY <1>1, <3>1, <3>2, InConnect DEF ConnectInv
    <3> QED BY <1>1, <3>1, <3>3 DEF Rewirable
  <2>4. CASE SetTarget(c)
    <3>1. pc[c] = "setTarget" /\ pc[c] \in ConnectSteps
      BY <2>4 DEF SetTarget, ConnectSteps
    <3>2. /\ n = arg[c].tnode /\ i = loc[c].dst /\ n \in nodes
          /\ wire'[n][i] = loc[c].net
      BY <1>1, <2>2, <2>4 DEF SetTarget, SetInterface
    <3>3. /\ Endpoints(loc[c].net) = {Source(c)}
          /\ Target(c) # Source(c) => Rewirable(c, n, i)
      BY <1>1, <3>1, <3>2, InConnect DEF ConnectInv
    <3>4. Target(c) # Source(c)
      <4>1. <<n, i>> \notin Endpoints(loc[c].net)
        BY <1>1, <3>2 DEF Endpoints
      <4> QED BY <3>2, <3>3, <4>1 DEF Target
    <3> QED BY <1>1, <3>1, <3>3, <3>4 DEF Rewirable
  <2> QED BY <2>1, <2>3, <2>4 DEF DeleteNodes, DeleteNetworks
<1>2. IInv /\ [Next]_vars =>
        [\A n \in Nodes, i \in Ifaces :
           wire[n][i] \notin {NoNet, wire'[n][i]} =>
             \E c \in Calls :
               \/ pc[c] \in {"setSource", "setTarget", "setNetwork"} /\ arg[c].confirm
               \/ pc[c] \in {"deleteNodes", "deleteNetworks"}]_vars
  BY <1>1
<1> QED BY Invariance, <1>2, PTL DEF Spec, NoSilentRewire

\* When connect_interface reports a new line, its bridge exists, is hidden, and is
\* attached to the two interfaces that were asked for and to nothing else.
THEOREM DrawsTheLine == Spec => LineDrawn
<1>1. ASSUME IInv, [Next]_vars, NEW c \in Calls, pc[c] = "hideLine", Succeeds(c)
      PROVE  /\ loc[c].net \in nets' /\ loc[c].net \in hidden'
             /\ {e \in nodes' \X Ifaces : wire'[e[1]][e[2]] = loc[c].net} =
                  {<<arg[c].node, loc[c].src>>, <<arg[c].tnode, loc[c].dst>>}
  <2>1. EditNetwork(loc[c].net, NoName, "hide")
    BY <1>1, SuccessIsOwnStep, StepOfRequest DEF HideLine
  <2>2. loc[c].net \in nets /\ Endpoints(loc[c].net) = {Source(c), Target(c)}
    BY <1>1, InConnect DEF ConnectInv, ConnectSteps
  <2>3. nodes' = nodes /\ wire' = wire
    BY <2>1 DEF EditNetwork, nodeVars
  <2>4. loc[c].net \in nets' /\ loc[c].net \in hidden'
    BY <2>1, <2>2 DEF EditNetwork
  <2> QED BY <2>2, <2>3, <2>4 DEF Endpoints, Source, Target
<1>2. IInv /\ [Next]_vars =>
        [\A c \in Calls :
           pc[c] = "hideLine" /\ Succeeds(c) =>
             /\ loc[c].net \in nets' /\ loc[c].net \in hidden'
             /\ {e \in nodes' \X Ifaces : wire'[e[1]][e[2]] = loc[c].net} =
                  {<<arg[c].node, loc[c].src>>, <<arg[c].tnode, loc[c].dst>>}]_vars
  BY <1>1
<1> QED BY Invariance, <1>2, PTL DEF Spec, LineDrawn

\* A node or a network is only renamed by an edit that gives a name: the name that
\* pads every other edit is still the current one when EVE-NG gets it.
THEOREM PaddingKeepsNames == Spec => PaddingNeverRenames
<1>1. ASSUME IInv, [Next]_vars, NEW n \in nodes \cap nodes', nodeName'[n] # nodeName[n]
      PROVE  \E c \in Calls : pc[c] = "putNode" /\ "name" \in arg[c].fields
  <2>1. PICK c \in Calls : PutNode(c) \/ BulkPut(c) \/ PostNode(c)
    BY <1>1, LabChanges
    DEF CreateLine, SetSource, SetTarget, HideLine, SetNetwork, DeleteNodes, PostNetwork,
        PutNetwork, DeleteNetworks, AddNetwork, EditNetwork, SetInterface, DeleteNode,
        DeleteNetwork, labVars, nodeVars
  <2>2. nodeName \in [Nodes -> Names] /\ nodes \subseteq Nodes
    BY <1>1 DEF IInv, TypeOK, LabOK
  <2>3. CASE PutNode(c)
    <3>1. pc[c] = "putNode" /\ pc[c] \in EditSteps
      BY <2>3 DEF PutNode, EditSteps
    <3>2. loc[c].seenName[arg[c].node] \in {nodeName[arg[c].node], NoName}
      BY <1>1, <3>1, InEdit DEF EditInv
    <3>3. "name" \in arg[c].fields
      BY <1>1, <2>2, <2>3, <3>2 DEF PutNode, SentName, EditNode
    <3> QED BY <3>1, <3>3
  <2>4. CASE BulkPut(c)
    <3>1. pc[c] = "bulkPut" /\ pc[c] \in BulkSteps
      BY <2>4 DEF BulkPut, BulkSteps
    <3>2. /\ loc[c].todo \in Seq(Nodes) /\ loc[c].todo # <<>>
          /\ loc[c].seenName[loc[c].todo[1]] = nodeName[loc[c].todo[1]]
      <4>1. /\ loc[c].todo \in Seq(Nodes) /\ loc[c].todo # <<>>
            /\ \A j \in 1..Len(loc[c].todo) :
                 loc[c].seenName[loc[c].todo[j]] = nodeName[loc[c].todo[j]]
        BY <1>1, <3>1, InBulk DEF BulkInv, Locals
      <4>2. 1 \in 1..Len(loc[c].todo)
        BY <4>1
      <4> QED BY <4>1, <4>2
    <3>3. Head(loc[c].todo) = loc[c].todo[1]
      BY <3>2
    <3>4. nodeName'[n] = nodeName[n]
      BY <2>2, <2>4, <3>2, <3>3 DEF BulkPut, EditNode
    <3> QED BY <1>1, <3>4
  <2>5. CASE PostNode(c)
    BY <1>1, <2>2, <2>5 DEF PostNode, AddNode
  <2> QED BY <2>1, <2>3, <2>4, <2>5
<1>2. ASSUME IInv, [Next]_vars, NEW k \in nets \cap nets', netName'[k] # netName[k]
      PROVE  \E c \in Calls : pc[c] = "putNetwork" /\ "name" \in arg[c].fields
  <2>1. PICK c \in Calls :
          CreateLine(c) \/ HideLine(c) \/ PostNetwork(c) \/ PutNetwork(c)
    BY <1>2, LabChanges
    DEF SetSource, SetTarget, SetNetwork, DeleteNodes, PostNode, PutNode, BulkPut,
        DeleteNetworks, SetInterface, DeleteNode, DeleteNetwork, EditNode, AddNode, netVars
  <2>2. netName \in [NetIds -> Names] /\ nets \subseteq NetIds
    BY <1>2 DEF IInv, TypeOK, LabOK
  <2>3. CASE CreateLine(c) \/ PostNetwork(c) \/ HideLine(c)
    BY <1>2, <2>2, <2>3
    DEF CreateLine, PostNetwork, HideLine, AddNetwork, EditNetwork, labVars, netVars
  <2>4. CASE PutNetwork(c)
    <3>1. pc[c] = "putNetwork" /\ pc[c] \in NetworkSteps
      BY <2>4 DEF PutNetwork, NetworkSteps
    <3>2. NeedsPadding(arg[c]) => loc[c].seenNetName = netName[arg[c].net]
      BY <1>2, <3>1, InNetwork DEF NetworkInv
    <3>3. "name" \in arg[c].fields
      BY <1>2, <2>2, <2>4, <3>2 DEF PutNetwork, EditNetwork
    <3> QED BY <3>1, <3>3
  <2> QED BY <2>1, <2>3, <2>4
<1>3. IInv /\ [Next]_vars =>
        [/\ \A n \in nodes \cap nodes' :
              nodeName'[n] # nodeName[n] =>
                \E c \in Calls : pc[c] = "putNode" /\ "name" \in arg[c].fields
         /\ \A k \in nets \cap nets' :
              netName'[k] # netName[k] =>
                \E c \in Calls : pc[c] = "putNetwork" /\ "name" \in arg[c].fields]_vars
  BY <1>1, <1>2
<1> QED BY Invariance, <1>3, PTL DEF Spec, PaddingNeverRenames
\* An edit that did not confirm a duplicate name does not create one, although
\* edit_lab_node looked for the name several requests before it sets it.
THEOREM NeverDuplicatesSilently == Spec => NoSilentDuplicate
<1>1. ASSUME IInv, [Next]_vars, NEW c \in Calls, pc[c] = "putNode", Succeeds(c),
             "name" \in arg[c].fields, ~arg[c].confirm, NEW n \in nodes \ {arg[c].node}
      PROVE  nodeName'[n] # arg[c].name
  <2>1. PutNode(c)
    BY <1>1, SuccessIsOwnStep, StepOfRequest
  <2>2. Duplicates(arg[c].node, arg[c].name) = {}
    BY <1>1, InEdit DEF EditInv, EditSteps
  <2>3. nodeName[n] # arg[c].name
    BY <1>1, <2>2 DEF Duplicates, Named
  <2>4. nodeName'[n] = nodeName[n]
    BY <1>1, <2>1 DEF PutNode, EditNode, IInv, TypeOK, LabOK
  <2> QED BY <2>3, <2>4
<1>2. IInv /\ [Next]_vars =>
        [\A c \in Calls :
           /\ pc[c] = "putNode" /\ Succeeds(c)
           /\ "name" \in arg[c].fields /\ ~arg[c].confirm
           => \A n \in nodes \ {arg[c].node} : nodeName'[n] # arg[c].name]_vars
  BY <1>1
<1> QED BY Invariance, <1>2, PTL DEF Spec, NoSilentDuplicate

\* EVE-NG deletes a network that is hidden while nothing is attached to it; neither
\* edit_lab_network nor the end of connect_interface ever makes it do so.
THEOREM HidingKeepsNetworks == Spec => HideNeverDeletes
<1>1. ASSUME IInv, [Next]_vars, ~(nets \subseteq nets')
      PROVE  \E c \in Calls : pc[c] = "deleteNetworks"
  <2>1. PICK c \in Calls : HideLine(c) \/ PutNetwork(c) \/ DeleteNetworks(c)
    BY <1>1, LabChanges
    DEF CreateLine, SetSource, SetTarget, SetNetwork, DeleteNodes, PostNode, PutNode, BulkPut,
        PostNetwork, AddNetwork, SetInterface, DeleteNode, EditNode, AddNode, labVars, netVars
  <2>2. CASE HideLine(c)
    <3>1. pc[c] = "hideLine" /\ pc[c] \in ConnectSteps
      BY <2>2 DEF HideLine, ConnectSteps
    <3>2. Endpoints(loc[c].net) # {}
      BY <1>1, <3>1, InConnect DEF ConnectInv
    <3> QED BY <1>1, <2>2, <3>2 DEF HideLine, EditNetwork
  <2>3. CASE PutNetwork(c)
    <3>1. pc[c] = "putNetwork" /\ pc[c] \in NetworkSteps
      BY <2>3 DEF PutNetwork, NetworkSteps
    <3>2. arg[c].visibility = "hide" => Endpoints(arg[c].net) # {}
      BY <1>1, <3>1, InNetwork DEF NetworkInv
    <3> QED BY <1>1, <2>3, <3>2 DEF PutNetwork, EditNetwork
  <2> QED BY <2>1, <2>2, <2>3 DEF DeleteNetworks
<1>2. IInv /\ [Next]_vars =>
        [nets \subseteq nets' \/ \E c \in Calls : pc[c] = "deleteNetworks"]_vars
  BY <1>1
<1> QED BY Invariance, <1>2, PTL DEF Spec, HideNeverDeletes

\* What delete_lab_node and delete_lab_network delete still matches the search
\* that found it requests earlier.
THEOREM DeletesOnlyMatches == Spec => DeletesWhatMatched
<1>1. ASSUME IInv, [Next]_vars, NEW c \in Calls, pc[c] = "deleteNodes",
             NEW n \in nodes \ nodes'
      PROVE  nodeName[n] \in arg[c].among
  <2>1. PICK d \in Calls : DeleteNodes(d)
    BY <1>1, LabChanges
    DEF CreateLine, SetSource, SetTarget, HideLine, SetNetwork, PostNode, PutNode, BulkPut,
        PostNetwork, PutNetwork, DeleteNetworks, AddNetwork, EditNetwork, SetInterface,
        DeleteNetwork, EditNode, AddNode, labVars, nodeVars
  <2>2. c = d
    BY <1>1, <2>1, OneInside DEF DeleteNodes, InBlock
  <2>3. n \in loc[c].targets
    BY <1>1, <2>1, <2>2 DEF DeleteNodes, DeleteNode
  <2> QED BY <1>1, <2>3, InDelete DEF LoopInv, DeleteSteps
<1>2. ASSUME IInv, [Next]_vars, NEW c \in Calls, pc[c] = "deleteNetworks",
             NEW k \in nets \ nets'
      PROVE  netName[k] \in arg[c].among
  <2>1. PICK d \in Calls : HideLine(d) \/ PutNetwork(d) \/ DeleteNetworks(d)
    BY <1>2, LabChanges
    DEF CreateLine, SetSource, SetTarget, SetNetwork, DeleteNodes, PostNode, PutNode, BulkPut,
        PostNetwork, AddNetwork, SetInterface, DeleteNode, EditNode, AddNode, labVars, netVars
  <2>2. c = d
    BY <1>2, <2>1, OneInside DEF HideLine, PutNetwork, DeleteNetworks, InBlock
  <2>3. DeleteNetworks(c)
    BY <1>2, <2>1, <2>2 DEF HideLine, PutNetwork
  <2>4. k \in loc[c].targets
    BY <1>2, <2>3 DEF DeleteNetworks, DeleteNetwork
  <2> QED BY <1>2, <2>4, InNetwork DEF LoopInv, NetworkSteps
<1>3. IInv /\ [Next]_vars =>
        [\A c \in Calls :
           /\ pc[c] = "deleteNodes" =>
                \A n \in nodes \ nodes' : nodeName[n] \in arg[c].among
           /\ pc[c] = "deleteNetworks" =>
                \A k \in nets \ nets' : netName[k] \in arg[c].among]_vars
  BY <1>1, <1>2
<1> QED BY Invariance, <1>3, PTL DEF Spec, DeletesWhatMatched

\* A node that is placed automatically is not placed on another one: the place
\* that add_lab_node found free stays free until EVE-NG has the node.
THEOREM NeverPilesUp == Spec => NoPileUp
<1>1. ASSUME IInv, [Next]_vars, NEW c \in Calls, pc[c] = "postNode", Succeeds(c),
             arg[c].slot = NoPlace, NEW n \in nodes' \ nodes, NEW m \in nodes
      PROVE  ~Near(place'[n], place[m])
  <2>1. PostNode(c)
    BY <1>1, SuccessIsOwnStep, StepOfRequest
  <2>2. ~Near(loc[c].slot, place[m])
    BY <1>1, InAdd DEF PlaceInv, AddSteps
  <2>3. place'[n] = loc[c].slot
    BY <1>1, <2>1 DEF PostNode, AddNode, IInv, TypeOK, LabOK
  <2> QED BY <2>2, <2>3
<1>2. IInv /\ [Next]_vars =>
        [\A c \in Calls :
           pc[c] = "postNode" /\ Succeeds(c) /\ arg[c].slot = NoPlace =>
             \A n \in nodes' \ nodes, m \in nodes : ~Near(place'[n], place[m])]_vars
  BY <1>1
<1> QED BY Invariance, <1>2, PTL DEF Spec, NoPileUp

\* No node is near two places of the grid: they are twice OverlapGap apart.
LEMMA GridApart ==
  ASSUME NEW i \in Nat, NEW j \in Nat, i # j, NEW q \in Places, Near(GridAt(i), q)
  PROVE  ~Near(GridAt(j), q)
<1> USE DEF GridStart, GridGap, GridColumns, OverlapGap
<1>1. /\ i = 5 * (i \div 5) + (i % 5) /\ i \div 5 \in Int /\ i % 5 \in 0..4
      /\ j = 5 * (j \div 5) + (j % 5) /\ j \div 5 \in Int /\ j % 5 \in 0..4
  OBVIOUS
<1>2. i % 5 # j % 5 \/ i \div 5 # j \div 5
  BY <1>1
<1> DEFINE a == i % 5
           b == i \div 5
           e == j % 5
           f == j \div 5
<1>3. /\ GridAt(i)[1] = 100 + a * 100 /\ GridAt(i)[2] = 100 + b * 100
      /\ GridAt(j)[1] = 100 + e * 100 /\ GridAt(j)[2] = 100 + f * 100
  BY DEF GridAt
<1>4. a \in Int /\ b \in Int /\ e \in Int /\ f \in Int /\ (a # e \/ b # f)
  BY <1>1, <1>2
<1>5. q[1] \in Int /\ q[2] \in Int
  BY DEF Places
<1> HIDE DEF a, b, e, f
<1> QED BY <1>3, <1>4, <1>5 DEF Near, Close

\* _next_free_position ends, and soon: whatever the nodes' positions are, one of
\* the first n + 1 places of the grid is free where n places are taken.
THEOREM FreePlaceFound ==
  ASSUME NEW taken \in SUBSET Places, IsFiniteSet(taken)
  PROVE  \E i \in 0..Cardinality(taken) : IsFree(GridAt(i), taken)
<1> DEFINE S == 0..Cardinality(taken)
           blocker == [i \in S |-> CHOOSE q \in taken : Near(GridAt(i), q)]
<1>1. SUFFICES ASSUME \A i \in S : ~IsFree(GridAt(i), taken) PROVE FALSE
  OBVIOUS
<1>2. \A i \in S : blocker[i] \in taken /\ Near(GridAt(i), blocker[i])
  BY <1>1 DEF IsFree
<1>3. Cardinality(taken) \in Nat
  BY FS_CardinalityType
<1>4. IsFiniteSet(S) /\ Cardinality(taken) < Cardinality(S)
  BY <1>3, FS_Interval
<1>5. blocker \in [S -> taken]
  BY <1>2
<1> HIDE DEF blocker
<1>6. PICK i \in S, j \in S : i # j /\ blocker[i] = blocker[j]
  <2> HIDE DEF S
  <2> QED BY <1>4, <1>5, FS_PigeonHole
<1>7. i \in Nat /\ j \in Nat /\ blocker[i] \in Places
  BY <1>2, <1>3
<1> QED BY <1>2, <1>6, <1>7, GridApart
=============================================================================
