----------------------------- MODULE MCLabTools -----------------------------
(***************************************************************************)
(* Instances of LabTools for TLC: the requests of each run, and the labs   *)
(* it starts from.                                                         *)
(***************************************************************************)
EXTENDS LabTools, TLC

\* The calls are interchangeable.
Symmetry == Permutations(Calls)

\* A state without what deleted nodes and networks were called and where they
\* were: nothing reads it any more.
LabView ==
  <<[n \in nodes |-> <<nodeName[n], place[n]>>], [k \in nets |-> netName[k]],
    running, hidden, wire, holder, pc, arg, reply,
    [c \in Calls |-> [loc[c] EXCEPT !.seenName = [n \in nodes |-> @[n]]]]>>

\* An interface of node 1 or 2 by its index, and by a search.
At(i) == [by |-> "index", at |-> i, among |-> {}, how |-> "none", pick |-> 0]
Search(how, pick) ==
  [by |-> "search", at |-> 0, among |-> Ifaces, how |-> how, pick |-> pick]

Line(n, sel, t, tsel, confirm) ==
  [tool |-> "connect", node |-> n, sel |-> sel, target |-> "node", tnode |-> t,
   tsel |-> tsel, net |-> NoNet, name |-> NoName, confirm |-> confirm]
ToNet(n, sel, target, k, name, confirm) ==
  [tool |-> "connect", node |-> n, sel |-> sel, target |-> target, tnode |-> 1,
   tsel |-> sel, net |-> k, name |-> name, confirm |-> confirm]

Power1(tool, n) == [tool |-> tool, all |-> FALSE, node |-> n]
PowerAll(tool)  == [tool |-> tool, all |-> TRUE, node |-> 1]

Edit(n, fields, name, confirm) ==
  [tool |-> "editNode", node |-> n, fields |-> fields, name |-> name,
   slot |-> IF "place" \in fields THEN <<250, NotGiven>> ELSE NoPlace,
   asks |-> FALSE, confirm |-> confirm]
Delay(n, confirm) == [Edit(n, {"other"}, NoName, confirm) EXCEPT !.asks = TRUE]
EditMany(order, confirm) == [tool |-> "editMany", order |-> order, confirm |-> confirm]

Add(name, slot) == [tool |-> "addNode", name |-> name, slot |-> slot]

NoSel == [how |-> "none", picks |-> {}]
Numbers(S) == [how |-> "numbers", picks |-> S]
ByName(S) == [how |-> "names", picks |-> S]
Delete(tool, among, sel, confirm) ==
  [tool |-> tool, among |-> among, sel |-> sel, confirm |-> confirm]

AddNet(type, name) == [tool |-> "addNetwork", type |-> type, name |-> name]
EditNet(k, fields, name, visibility) ==
  [tool |-> "editNetwork", net |-> k, fields |-> fields, name |-> name,
   visibility |-> visibility]

-----------------------------------------------------------------------------
\* connect_interface against itself and start_node, and the loops that edit and delete nodes.
WiringRequests ==
  {Line(1, At(0), 2, At(0), FALSE), Line(1, At(0), 2, Search("number", 2), TRUE),
   Line(2, Search("none", 0), 1, At(5), FALSE),
   ToNet(1, At(1), "netId", 1, NoName, TRUE),
   ToNet(2, Search("name", 1), "netName", NoNet, "p2p", FALSE),
   ToNet(1, At(0), "bad", NoNet, NoName, FALSE),
   PowerAll("start"), EditMany(<<1, 2>>, TRUE),
   Delete("deleteNode", {"a", "b"}, Numbers({1, 2}), TRUE)}

\* The tools that edit, add, start, stop and delete nodes.
NodeRequests ==
  {Edit(1, {"name"}, "b", FALSE), Edit(2, {"name", "place"}, "a", TRUE),
   Edit(1, {}, NoName, FALSE), Delay(1, TRUE),
   EditMany(<<2, 1, 2>>, TRUE),
   Power1("start", 2), PowerAll("stop"), Add("a", NoPlace), Add("a", <<100, NotGiven>>),
   Delete("deleteNode", {"a"}, NoSel, TRUE),
   Delete("deleteNode", {"a", "b"}, Numbers({1, 2}), TRUE),
   Delete("deleteNode", {}, NoSel, TRUE)}

\* The network tools, with a tool that attaches to networks.
NetworkRequests ==
  {AddNet("name", "a"), AddNet("number", "b"), AddNet("blank", "a"),
   EditNet(1, {"noflag"}, NoName, "hide"), EditNet(1, {"name"}, "b", "show"),
   EditNet(1, {}, NoName, "keep"),
   Delete("deleteNetwork", {"a"}, NoSel, TRUE),
   Delete("deleteNetwork", {"a", "b"}, ByName({"a", "b"}), FALSE),
   Delete("deleteNetwork", {}, NoSel, TRUE),
   ToNet(1, At(0), "netName", NoNet, "a", TRUE)}

EditingRequests == NodeRequests \cup NetworkRequests

-----------------------------------------------------------------------------
\* Two nodes, one network, and at most one interface connected to it.
WiringInit ==
  /\ nodes = {1, 2}
  /\ nodeName = [n \in Nodes |-> IF n = 1 THEN "a" ELSE "b"]
  /\ place = [n \in Nodes |-> IF n = 1 THEN GridAt(0) ELSE <<249, 100>>]
  /\ nets = {1} /\ hidden = {}
  /\ netName \in {[k \in NetIds |-> "p2p"], [k \in NetIds |-> "a"]}
  /\ running \in {{}, {1}, nodes}
  /\ wire \in {[n \in Nodes |-> [i \in Ifaces |-> IF <<n, i>> \in S THEN 1 ELSE NoNet]] :
                 S \in {{}, {<<1, 0>>}}}
  /\ Init

\* Two nodes with any names, no networks.
EditingInit ==
  /\ nodes = {1, 2}
  /\ nodeName \in {[n \in Nodes |-> IF n = 1 THEN "a" ELSE "b"], [n \in Nodes |-> "a"]}
  /\ place = [n \in Nodes |-> IF n = 1 THEN GridAt(0) ELSE <<249, 100>>]
  /\ nets = {} /\ hidden = {} /\ netName = [k \in NetIds |-> "p2p"]
  /\ wire = [n \in Nodes |-> [i \in Ifaces |-> NoNet]]
  /\ running \in SUBSET nodes
  /\ Init

\* One node, up to two networks, the node attached to one of them or to none.
NetworkInit ==
  /\ nodes = {1} /\ running = {}
  /\ nodeName = [n \in Nodes |-> "a"]
  /\ place = [n \in Nodes |-> GridAt(0)]
  /\ nets = {1} /\ hidden = {}
  /\ netName = [k \in NetIds |-> IF k = 1 THEN "a" ELSE "b"]
  /\ wire \in [Nodes -> [Ifaces -> nets \cup {NoNet}]]
  /\ Init

WiringSpec  == WiringInit /\ [][Next]_vars /\ Fairness
EditingSpec == (EditingInit \/ NetworkInit) /\ [][Next]_vars
=============================================================================
