-------------------------- MODULE ConnectInterface --------------------------
(***************************************************************************)
(* tools.nodes.connect_interface.  Its arguments:                          *)
(*   node, sel      the source node and how its interface is chosen        *)
(*   target         "node", "netId", "netName", or "bad" (not exactly one) *)
(*   tnode, tsel    target_node_id and the choice of its interface         *)
(*   net, name      network_id, network_name                               *)
(*   confirm                                                               *)
(* An interface is chosen by [by |-> "index", at |-> i], where i may be    *)
(* out of range, or by a search: [by |-> "search", among |-> the indices   *)
(* whose name contains the text, how |-> "none" | "number" | "name",       *)
(* pick |-> the number, or the index of the interface so named].           *)
(***************************************************************************)
EXTENDS LabCalls, Selection

CONSTANT PollAttempts     \* attempts of _wait_for_network_ready
ASSUME PollAssumption == PollAttempts \in Nat \ {0}

InterfaceChoice ==
  [ by : {"index", "search"}, at : Nat, among : SUBSET Ifaces,
    how : {"none", "number", "name"}, pick : Nat ]

ConnectRequest ==
  [ tool : {"connect"}, node : Nodes, sel : InterfaceChoice,
    target : {"node", "netId", "netName", "bad"}, tnode : Nodes, tsel : InterfaceChoice,
    net : Nat, name : Names \cup {NoName}, confirm : BOOLEAN ]

ConnectSteps ==
  {"readSource", "readTarget", "readNetworks", "readStatus", "checkSource",
   "stopSource", "checkTarget", "stopTarget", "createLine", "pollLine",
   "setSource", "setTarget", "hideLine", "setNetwork"}

\* _available_ethernet_interfaces
Free(n) == {i \in Ifaces : wire[n][i] = NoNet}

\* _resolve_interface_selection: the resolved index as a set, {} if there is
\* none.  A search only ever finds free interfaces; an index finds any.
Resolve(n, sel) ==
  LET matches == sel.among \cap Free(n) IN
  IF sel.by = "index" THEN {sel.at} \cap Ifaces
  ELSE IF Cardinality(matches) = 1 THEN matches
  ELSE IF sel.how = "number" THEN Numbered(matches, sel.pick)
  ELSE IF sel.how = "name" THEN {sel.pick} \cap matches
  ELSE {}

\* Mutant of Usable: it is not checked whether the interface is connected.
Unguarded(r, n, sel) == Resolve(n, sel)

\* The resolved index, unless the interface is connected and that is not confirmed.
Usable(r, n, sel) == {i \in Resolve(n, sel) : wire[n][i] = NoNet \/ r.confirm}

\* The first request after the checks, and after each stop.
StopTargetOrWire(r) == IF r.target = "node" THEN "checkTarget" ELSE "setNetwork"
Wire(r) == IF r.target = "node" THEN "createLine" ELSE "setNetwork"

ConnectEnter(c) ==
  /\ LockFree(c, {"connect"})
  /\ arg[c].target # "bad"
  /\ EnterBlock(c, "readSource")

ConnectRefuse(c) ==
  /\ LockFree(c, {"connect"})
  /\ arg[c].target = "bad"
  /\ Refuse(c)

ReadSource(c) ==
  LET r == arg[c]
      usable == Usable(r, r.node, r.sel)
      next == IF r.target = "node" THEN "readTarget"
              ELSE IF r.target = "netName" THEN "readNetworks" ELSE "readStatus"
  IN
  /\ pc[c] = "readSource"
  /\ r.node \in nodes
  /\ \/ \E i \in usable :
          /\ Await(c, next, [loc[c] EXCEPT !.src = i, !.net = r.net])
          /\ UNCHANGED labVars
     \/ usable = {} /\ Refuse(c)

ReadTarget(c) ==
  LET r == arg[c]
      usable == Usable(r, r.tnode, r.tsel)
  IN
  /\ pc[c] = "readTarget"
  /\ r.tnode \in nodes
  /\ \/ \E i \in usable :
          /\ Await(c, "readStatus", [loc[c] EXCEPT !.dst = i])
          /\ UNCHANGED labVars
     \/ usable = {} /\ Refuse(c)

\* network_name has to be the name of exactly one network.
ReadNetworks(c) ==
  LET matches == Named(nets, netName, arg[c].name) IN
  /\ pc[c] = "readNetworks"
  /\ \/ /\ Cardinality(matches) = 1
        /\ \E k \in matches : Await(c, "readStatus", [loc[c] EXCEPT !.net = k])
        /\ UNCHANGED labVars
     \/ Cardinality(matches) # 1 /\ Refuse(c)

\* A status without a version counts as Community.
ReadStatus(c) ==
  /\ pc[c] = "readStatus"
  /\ \E isPro \in {Pro, FALSE} :
       Await(c, IF isPro THEN Wire(arg[c]) ELSE "checkSource", loc[c])
  /\ UNCHANGED labVars

\* Mutant of Check: a status that cannot be read counts as stopped.
CheckOptimistically(c, n, stop, next) ==
  /\ n \in nodes
  /\ \E readable \in BOOLEAN :
       Await(c, IF readable /\ n \in running THEN stop ELSE next, loc[c])
  /\ UNCHANGED labVars

\* _ensure_stopped_for_connection, first request: is node n running?  A status
\* that cannot be read counts as running.
Check(c, n, stop, next) ==
  /\ n \in nodes
  /\ \E readable \in BOOLEAN :
       Await(c, IF readable /\ n \notin running THEN next ELSE stop, loc[c])
  /\ UNCHANGED labVars

CheckSource(c) ==
  /\ pc[c] = "checkSource"
  /\ Check(c, arg[c].node, "stopSource", StopTargetOrWire(arg[c]))

StopSource(c) ==
  /\ pc[c] = "stopSource"
  /\ Stop(arg[c].node)
  /\ Await(c, StopTargetOrWire(arg[c]), loc[c])

CheckTarget(c) ==
  /\ pc[c] = "checkTarget"
  /\ Check(c, arg[c].tnode, "stopTarget", "createLine")

StopTarget(c) ==
  /\ pc[c] = "stopTarget"
  /\ Stop(arg[c].tnode)
  /\ Await(c, "createLine", loc[c])

\* The backing bridge.  EVE-NG may answer with an id and not have persisted the
\* network, and its answer may lack the id.
CreateLine(c) ==
  /\ pc[c] = "createLine"
  /\ \E k \in NetIds \ nets :
       \/ /\ AddNetwork(k, LineName) \/ UNCHANGED labVars
          /\ Await(c, "pollLine", [loc[c] EXCEPT !.net = k, !.polls = 0])
       \/ AddNetwork(k, LineName) /\ Finish(c, "refused")

\* One attempt of _wait_for_network_ready: a network may take a while to show up.
PollLine(c) ==
  LET polls == loc[c].polls + 1 IN
  /\ pc[c] = "pollLine"
  /\ \/ /\ loc[c].net \in nets
        /\ Await(c, "setSource", loc[c])
        /\ UNCHANGED labVars
     \/ /\ polls < PollAttempts
        /\ Await(c, "pollLine", [loc[c] EXCEPT !.polls = polls])
        /\ UNCHANGED labVars
     \/ polls = PollAttempts /\ Refuse(c)

SetSource(c) ==
  /\ pc[c] = "setSource"
  /\ SetInterface(arg[c].node, loc[c].src, loc[c].net)
  /\ Await(c, "setTarget", loc[c])

\* Mutant of SetTarget: the interface is the source's.
SetWrongTarget(c) ==
  /\ pc[c] = "setTarget"
  /\ SetInterface(arg[c].tnode, loc[c].src, loc[c].net)
  /\ Await(c, "hideLine", loc[c])

SetTarget(c) ==
  /\ pc[c] = "setTarget"
  /\ SetInterface(arg[c].tnode, loc[c].dst, loc[c].net)
  /\ Await(c, "hideLine", loc[c])

\* visibility=0, which turns the bridge into a plain line.
HideLine(c) ==
  /\ pc[c] = "hideLine"
  /\ EditNetwork(loc[c].net, NoName, "hide")
  /\ Finish(c, "success")

SetNetwork(c) ==
  /\ pc[c] = "setNetwork"
  /\ SetInterface(arg[c].node, loc[c].src, loc[c].net)
  /\ Finish(c, "success")

ConnectEntry(c) == ConnectEnter(c) \/ ConnectRefuse(c)

ConnectStep(c) ==
  \/ ReadSource(c) \/ ReadTarget(c) \/ ReadNetworks(c) \/ ReadStatus(c)
  \/ CheckSource(c) \/ StopSource(c) \/ CheckTarget(c) \/ StopTarget(c)
  \/ CreateLine(c) \/ PollLine(c) \/ SetSource(c) \/ SetTarget(c) \/ HideLine(c)
  \/ SetNetwork(c)
=============================================================================
