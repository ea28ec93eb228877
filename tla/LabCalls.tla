------------------------------ MODULE LabCalls ------------------------------
(***************************************************************************)
(* One EVE-NG lab and the tool calls that several agents have open against *)
(* it.  This module holds what the tools share: the lab as EVE-NG keeps it *)
(* (external: modelled from what the tools read and send), the life of a   *)
(* call, and the lab's lock.  ConnectInterface, NodeTools and NetworkTools *)
(* add the tools; LabTools composes them.                                  *)
(*                                                                         *)
(* A call is a coroutine that only suspends on an HTTP request.  pc names  *)
(* the request a call is waiting for; the action of that name is EVE-NG's  *)
(* handling of the request together with what the call does with the       *)
(* reply, up to its next request.  The lock is the mutex that LabLock      *)
(* implements.                                                             *)
(***************************************************************************)
EXTENDS Canvas, Sequences

CONSTANTS
  Calls,        \* call slots: how many tool calls are open at once
  NoCall,       \* the holder of a free lock
  Requests,     \* the tool calls with their arguments, as records
  Nodes,        \* the node ids EVE-NG may hand out
  Ifaces,       \* the ethernet interface indices of a node
  NetIds,       \* the network ids EVE-NG may hand out
  Names,        \* names of nodes and networks
  NoName,       \* no name was given, or none was readable
  LineName,     \* the name connect_interface gives the bridge of a line
  NotGiven,     \* a left or top that was not given
  Pro           \* TRUE on EVE-NG PRO, FALSE on Community

ASSUME LabAssumption ==
  /\ NoCall \notin Calls
  /\ Nodes \subseteq Nat /\ Ifaces \subseteq Nat
  /\ NetIds \subseteq Nat \ {0}
  /\ NoName \notin Names /\ LineName \in Names
  /\ NotGiven \notin Int
  /\ Pro \in BOOLEAN

NoNet == 0      \* network_id 0: the interface is not connected

VARIABLES
  \* the lab, in EVE-NG
  nodes,        \* the nodes that exist
  running,      \* the nodes that are not stopped
  nodeName,     \* nodeName[n]
  place,        \* place[n]: where node n is on the canvas
  wire,         \* wire[n][i]: the network interface i of node n is on
  nets,         \* the networks that exist
  hidden,       \* the networks with visibility 0
  netName,      \* netName[k]
  \* the calls, in the MCP server
  holder,       \* the call inside lab_lock's block
  pc,           \* pc[c]: the request call c is waiting for
  arg,          \* arg[c]: its tool and arguments
  loc,          \* loc[c]: what it has read and decided so far
  reply         \* how the call that the last step ended was answered, if it ended one

nodeVars == <<nodes, running, nodeName, place>>
netVars  == <<nets, hidden, netName>>
labVars  == <<nodeVars, wire, netVars>>
vars     == <<labVars, holder, pc, arg, loc, reply>>

NoRequest == [tool |-> "none"]

\* A left and a top as a request gives them: both, one of them, or none.
Given == (Int \cup {NotGiven}) \X (Int \cup {NotGiven})
NoPlace == <<NotGiven, NotGiven>>

\* A given place, with what is not given of it taken from place p.
Completed(given, p) ==
  <<IF given[1] = NotGiven THEN p[1] ELSE given[1], IF given[2] = NotGiven THEN p[2] ELSE given[2]>>

NoNames == [n \in Nodes |-> NoName]

\* The local variables of every tool, in one record.
NoLocals ==
  [ src |-> 0, dst |-> 0,       \* resolved interface indices
    net |-> NoNet,              \* resolved or created network
    polls |-> 0,                \* attempts of _wait_for_network_ready
    slot |-> NoPlace,           \* the place for a new node
    todo |-> <<>>,              \* nodes a bulk edit still has to handle
    targets |-> {},             \* ids a loop still has to handle, or candidates
    some |-> FALSE,             \* the loop succeeded for some node
    seen |-> {},                \* nodes that read as running
    seenName |-> NoNames,       \* node names as read
    seenNetName |-> NoName ]    \* network name as read

Outcomes == {"none", "success", "refused", "raised"}
-----------------------------------------------------------------------------
(***************************************************************************)
(* EVE-NG's side of the requests that change the lab.                      *)
(***************************************************************************)
\* The interfaces attached to network k: what its `count` field counts.
Endpoints(k) == {e \in nodes \X Ifaces : wire[e[1]][e[2]] = k}

Start(n) ==
  /\ n \in nodes
  /\ running' = running \cup {n}
  /\ UNCHANGED <<nodes, nodeName, place, wire, netVars>>

Stop(n) ==
  /\ n \in nodes
  /\ running' = running \ {n}
  /\ UNCHANGED <<nodes, nodeName, place, wire, netVars>>

\* Name and place as sent; a field that was not sent keeps its value.
EditNode(n, name, slot) ==
  /\ n \in nodes
  /\ nodeName' = IF name = NoName THEN nodeName ELSE [nodeName EXCEPT ![n] = name]
  /\ place' = [place EXCEPT ![n] = Completed(slot, @)]
  /\ UNCHANGED <<nodes, running, wire, netVars>>

AddNode(n, name, slot) ==
  /\ n \in Nodes \ nodes
  /\ nodes' = nodes \cup {n}
  /\ nodeName' = [nodeName EXCEPT ![n] = name]
  /\ place' = [place EXCEPT ![n] = slot]
  /\ UNCHANGED <<running, wire, netVars>>

DeleteNode(n) ==
  /\ n \in nodes
  /\ nodes' = nodes \ {n}
  /\ running' = running \ {n}
  /\ wire' = [wire EXCEPT ![n] = [i \in Ifaces |-> NoNet]]
  /\ UNCHANGED <<nodeName, place, netVars>>

\* Anything but an existing network is an invalid network_id.
SetInterface(n, i, k) ==
  /\ n \in nodes /\ k \in nets
  /\ wire' = [wire EXCEPT ![n][i] = k]
  /\ UNCHANGED <<nodeVars, netVars>>

AddNetwork(k, name) ==
  /\ k \in NetIds \ nets
  /\ nets' = nets \cup {k}
  /\ netName' = [netName EXCEPT ![k] = name]
  /\ UNCHANGED <<nodeVars, wire, hidden>>

\* A network that is hidden while nothing is attached to it is deleted.
EditNetwork(k, name, visibility) ==
  LET deleted == visibility = "hide" /\ Endpoints(k) = {} IN
  /\ k \in nets
  /\ nets' = IF deleted THEN nets \ {k} ELSE nets
  /\ hidden' = IF visibility = "show" \/ deleted THEN hidden \ {k}
               ELSE IF visibility = "hide" THEN hidden \cup {k} ELSE hidden
  /\ netName' = IF name = NoName THEN netName ELSE [netName EXCEPT ![k] = name]
  /\ UNCHANGED <<nodeVars, wire>>

DeleteNetwork(k) ==
  /\ k \in nets
  /\ nets' = nets \ {k}
  /\ hidden' = hidden \ {k}
  /\ wire' = [n \in Nodes |->
                [i \in Ifaces |-> IF wire[n][i] = k THEN NoNet ELSE wire[n][i]]]
  /\ UNCHANGED <<nodeVars, netName>>
-----------------------------------------------------------------------------
(***************************************************************************)
(* The life of a call.                                                     *)
(***************************************************************************)
InBlock(c) == pc[c] \notin {"idle", "queued"}

\* The call goes on to its next request, with its locals set to l.
Await(c, request, l) ==
  /\ pc' = [pc EXCEPT ![c] = request]
  /\ loc' = [loc EXCEPT ![c] = l]
  /\ reply' = "none"
  /\ UNCHANGED <<holder, arg>>

\* Mutant of Finish: the lock is not released.
FinishHolding(c, outcome) ==
  /\ pc' = [pc EXCEPT ![c] = "idle"]
  /\ arg' = [arg EXCEPT ![c] = NoRequest]
  /\ loc' = [loc EXCEPT ![c] = NoLocals]
  /\ reply' = outcome
  /\ UNCHANGED holder

\* The coroutine returns or raises, which leaves the block and frees the lock.
Finish(c, outcome) ==
  /\ holder' = NoCall
  /\ pc' = [pc EXCEPT ![c] = "idle"]
  /\ arg' = [arg EXCEPT ![c] = NoRequest]
  /\ loc' = [loc EXCEPT ![c] = NoLocals]
  /\ reply' = outcome

\* The tool answers with an error, "cancelled", or a status that asks for a selection
\* or a confirmation.  The answer itself changes nothing; requests before it may have.
Refuse(c) == Finish(c, "refused") /\ UNCHANGED labVars

\* An agent calls a tool; get_client hands out the client and the call reaches
\* lab_lock.
Begin(c) ==
  /\ pc[c] = "idle"
  /\ \E r \in Requests : arg' = [arg EXCEPT ![c] = r]
  /\ pc' = [pc EXCEPT ![c] = "queued"]
  /\ reply' = "none"
  /\ UNCHANGED <<labVars, holder, loc>>

\* The call ends before it has entered the block: get_client raised, or the
\* task was cancelled while it waited for the lock.
GiveUp(c) ==
  /\ pc[c] = "queued"
  /\ pc' = [pc EXCEPT ![c] = "idle"]
  /\ arg' = [arg EXCEPT ![c] = NoRequest]
  /\ reply' = "raised"
  /\ UNCHANGED <<labVars, holder, loc>>

\* Mutant of LockFree: the tools do not take the lab's lock.
Lockless(c, tools) == pc[c] = "queued" /\ arg[c].tool \in tools

\* async with lab_lock(lab_path): call c of one of these tools is next.
LockFree(c, tools) ==
  /\ pc[c] = "queued"
  /\ arg[c].tool \in tools
  /\ holder = NoCall

\* The block starts, up to its first request.
EnterBlock(c, request) ==
  /\ holder' = c
  /\ pc' = [pc EXCEPT ![c] = request]
  /\ reply' = "none"
  /\ UNCHANGED <<labVars, arg, loc>>

(***************************************************************************)
(* A request fails (an HTTP error, a timeout, an error status from EVE-NG),*)
(* or the task is cancelled while it waits for the reply.  No tool catches *)
(* it, except the loop of start_node and stop_node.  A request that EVE-NG *)
(* carried out although its reply was lost is its step followed by Raise.  *)
(***************************************************************************)
Raise(c) ==
  /\ InBlock(c)
  /\ Finish(c, "raised")
  /\ UNCHANGED labVars

CallsInit ==
  /\ holder = NoCall
  /\ pc = [c \in Calls |-> "idle"]
  /\ arg = [c \in Calls |-> NoRequest]
  /\ loc = [c \in Calls |-> NoLocals]
  /\ reply = "none"
=============================================================================
