----------------------------- MODULE NodeTools ------------------------------
(***************************************************************************)
(* The tools of tools/nodes.py that change nodes: start_node, stop_node,   *)
(* edit_lab_node, change_node_delay, edit_lab_nodes_by_template,           *)
(* add_lab_node and delete_lab_node.  Their requests:                      *)
(*   tool "start", "stop": all, node                                       *)
(*   tool "editNode": node, fields (those given, out of "name", "place",   *)
(*     "image" and "other" for every other field), name, slot, confirm;    *)
(*     asks is TRUE for change_node_delay with a node_id                   *)
(*   tool "editMany" (change_node_delay bulk, edit_lab_nodes_by_template): *)
(*     order, the numbers of the nodes in the current list, and confirm    *)
(*   tool "addNode": name, slot (the left and top that are given)          *)
(*   tool "deleteNode": among (the names that contain the text; {} for a   *)
(*     blank text), sel, confirm                                           *)
(***************************************************************************)
EXTENDS LabCalls, Selection

PowerRequest == [tool : {"start", "stop"}, all : BOOLEAN, node : Nodes]

EditRequest ==
  { r \in [ tool : {"editNode"}, node : Nodes,
            fields : SUBSET {"name", "place", "image", "other"}, name : Names \cup {NoName},
            slot : Given, asks : BOOLEAN, confirm : BOOLEAN ] :
      /\ "name" \in r.fields => r.name # NoName
      /\ "place" \in r.fields => r.slot # NoPlace }

BulkRequest == [tool : {"editMany"}, order : Seq(Nat), confirm : BOOLEAN]

AddRequest == [tool : {"addNode"}, name : Names, slot : Given]

DeleteRequest ==
  [tool : {"deleteNode"}, among : SUBSET Names, sel : SelectionsOf(Names), confirm : BOOLEAN]

-----------------------------------------------------------------------------
(* start_node, stop_node *)

PowerSteps == {"power", "listPower", "powerEach"}

Power(c, n) == IF arg[c].tool = "start" THEN Start(n) ELSE Stop(n)

PowerEnter(c) ==
  /\ LockFree(c, {"start", "stop"})
  /\ EnterBlock(c, IF arg[c].all THEN "listPower" ELSE "power")

PowerOne(c) ==
  /\ pc[c] = "power"
  /\ Power(c, arg[c].node)
  /\ Finish(c, "success")

\* _all_node_ids_and_names
ListPower(c) ==
  /\ pc[c] = "listPower"
  /\ \/ /\ nodes # {}
        /\ Await(c, "powerEach", [loc[c] EXCEPT !.targets = nodes])
        /\ UNCHANGED labVars
     \/ nodes = {} /\ Refuse(c)

\* One turn of _loop_node_action, in id order.  A failure is noted and skipped,
\* also when EVE-NG did what was asked and only its reply was lost.
PowerEach(c) ==
  /\ pc[c] = "powerEach"
  /\ \E n \in loc[c].targets, done, ok \in BOOLEAN :
       LET rest == loc[c].targets \ {n}
           some == loc[c].some \/ ok
       IN
       /\ \A m \in rest : n < m
       /\ ok => done
       /\ IF done THEN Power(c, n) ELSE UNCHANGED labVars
       /\ IF rest # {}
          THEN Await(c, "powerEach", [loc[c] EXCEPT !.targets = rest, !.some = some])
          ELSE Finish(c, IF some THEN "success" ELSE "refused")

-----------------------------------------------------------------------------
(* edit_lab_node, and change_node_delay for one node *)

EditSteps == {"readNames", "readNode", "stopNode", "putNode"}

\* Mutant of EditEnter: duplicates are looked for when they were confirmed.
EditEnterInverted(c) ==
  LET r == arg[c] IN
  /\ LockFree(c, {"editNode"})
  /\ r.fields # {}
  /\ EnterBlock(c, IF "name" \in r.fields /\ r.confirm THEN "readNames" ELSE "readNode")

EditEnter(c) ==
  LET r == arg[c] IN
  /\ LockFree(c, {"editNode"})
  /\ r.fields # {}
  /\ EnterBlock(c, IF "name" \in r.fields /\ ~r.confirm THEN "readNames" ELSE "readNode")

EditRefuse(c) ==
  /\ LockFree(c, {"editNode"})
  /\ arg[c].fields = {}
  /\ Refuse(c)

\* _find_duplicate_name
Duplicates(n, name) == Named(nodes \ {n}, nodeName, name)

ReadNames(c) ==
  LET duplicates == Duplicates(arg[c].node, arg[c].name) IN
  /\ pc[c] = "readNames"
  /\ \/ duplicates = {} /\ Await(c, "readNode", loc[c]) /\ UNCHANGED labVars
     \/ duplicates # {} /\ Refuse(c)

\* The record may lack its status, which counts as running, or its name.
ReadNode(c) ==
  LET r == arg[c]
      refused == "image" \in r.fields \/ (r.asks /\ ~r.confirm)
  IN
  /\ pc[c] = "readNode"
  /\ r.node \in nodes
  /\ \/ /\ ~refused
        /\ \E readable \in BOOLEAN, name \in {nodeName[r.node], NoName} :
             Await(c, IF readable /\ r.node \notin running THEN "putNode" ELSE "stopNode",
                   [loc[c] EXCEPT !.seenName[r.node] = name])
        /\ UNCHANGED labVars
     \/ refused /\ Refuse(c)

StopNode(c) ==
  /\ pc[c] = "stopNode"
  /\ Stop(arg[c].node)
  /\ Await(c, "putNode", loc[c])

\* _with_modified_flag_padding: the name that goes into the request.
SentName(r, seen) ==
  IF "name" \in r.fields THEN r.name
  ELSE IF "place" \in r.fields THEN NoName ELSE seen

\* EVE-NG rejects an edit that holds neither a name nor a position.
PutNode(c) ==
  LET r == arg[c]
      name == SentName(r, loc[c].seenName[r.node])
      slot == IF "place" \in r.fields THEN r.slot ELSE NoPlace
  IN
  /\ pc[c] = "putNode"
  /\ name # NoName \/ slot # NoPlace
  /\ EditNode(r.node, name, slot)
  /\ Finish(c, "success")

-----------------------------------------------------------------------------
(* change_node_delay in bulk, and edit_lab_nodes_by_template *)

BulkSteps == {"listNodes", "bulkStop", "bulkPut"}

BulkEnter(c) == LockFree(c, {"editMany"}) /\ EnterBlock(c, "listNodes")

\* The nodes that have these numbers in the current list, in this order.
InOrder(order) == [j \in 1..Len(order) |-> CHOOSE n \in Numbered(nodes, order[j]) : TRUE]

\* Mutant of Stopping: the test is inverted.
StoppingInverted(todo, seen) == IF Head(todo) \in seen THEN "bulkPut" ELSE "bulkStop"

Stopping(todo, seen) == IF Head(todo) \in seen THEN "bulkStop" ELSE "bulkPut"

\* One list holds everything the loop will use of every node.
ListNodes(c) ==
  LET order == arg[c].order
      known == \A j \in 1..Len(order) : Numbered(nodes, order[j]) # {}
      todo == InOrder(order)
      go == known /\ order # <<>> /\ arg[c].confirm
  IN
  /\ pc[c] = "listNodes"
  /\ \/ /\ go
        /\ \E unreadable \in SUBSET nodes :
             LET seen == running \cup unreadable IN
             Await(c, Stopping(todo, seen),
                   [loc[c] EXCEPT !.todo = todo, !.seen = seen, !.seenName = nodeName])
        /\ UNCHANGED labVars
     \/ ~go /\ Refuse(c)

BulkStop(c) ==
  /\ pc[c] = "bulkStop"
  /\ Stop(Head(loc[c].todo))
  /\ Await(c, "bulkPut", loc[c])

BulkPut(c) ==
  LET n == Head(loc[c].todo)
      rest == Tail(loc[c].todo)
  IN
  /\ pc[c] = "bulkPut"
  /\ EditNode(n, loc[c].seenName[n], NoPlace)
  /\ IF rest # <<>>
     THEN Await(c, Stopping(rest, loc[c].seen), [loc[c] EXCEPT !.todo = rest])
     ELSE Finish(c, "success")

-----------------------------------------------------------------------------
(* add_lab_node *)

AddSteps == {"readTemplates", "readTemplate", "readPlaces", "postNode"}

AddEnter(c) == LockFree(c, {"addNode"}) /\ EnterBlock(c, "readTemplates")

\* The template, then the image, may have to be selected first.
ReadTemplates(c) ==
  /\ pc[c] = "readTemplates"
  /\ \/ Await(c, "readTemplate", loc[c]) /\ UNCHANGED labVars
     \/ Refuse(c)

ReadTemplate(c) ==
  LET slot == arg[c].slot IN
  /\ pc[c] = "readTemplate"
  /\ \/ /\ Await(c, IF NotGiven \in {slot[1], slot[2]} THEN "readPlaces" ELSE "postNode",
                 [loc[c] EXCEPT !.slot = slot])
        /\ UNCHANGED labVars
     \/ Refuse(c)

\* The walk along the grid ends: a node is near one place of it at most.  What
\* is given of the position is kept, also when only the left or the top is.
ReadPlaces(c) ==
  /\ pc[c] = "readPlaces"
  /\ \E i \in 0..Cardinality(nodes) :
       /\ NextFree(i, {place[n] : n \in nodes})
       /\ Await(c, "postNode", [loc[c] EXCEPT !.slot = Completed(@, GridAt(i))])
  /\ UNCHANGED labVars

PostNode(c) ==
  /\ pc[c] = "postNode"
  /\ \E n \in Nodes \ nodes : AddNode(n, arg[c].name, loc[c].slot)
  /\ Finish(c, "success")

-----------------------------------------------------------------------------
(* delete_lab_node *)

DeleteSteps == {"findNodes", "readVendors", "deleteNodes"}

DeleteEnter(c) ==
  /\ LockFree(c, {"deleteNode"})
  /\ arg[c].among # {}
  /\ EnterBlock(c, "findNodes")

DeleteRefuse(c) ==
  /\ LockFree(c, {"deleteNode"})
  /\ arg[c].among = {}
  /\ Refuse(c)

\* _find_nodes_by_name
FindNodes(c) ==
  /\ pc[c] = "findNodes"
  /\ Await(c, "readVendors",
           [loc[c] EXCEPT !.targets = {n \in nodes : nodeName[n] \in arg[c].among},
                          !.seenName = nodeName])
  /\ UNCHANGED labVars

\* The vendors are read after the candidates; then run_delete_flow runs.
ReadVendors(c) ==
  LET targets == DeleteTargets(loc[c].targets, loc[c].seenName, arg[c].sel)
      go == targets # {} /\ arg[c].confirm
  IN
  /\ pc[c] = "readVendors"
  /\ \/ /\ go
        /\ Await(c, "deleteNodes", [loc[c] EXCEPT !.targets = targets])
        /\ UNCHANGED labVars
     \/ ~go /\ Refuse(c)

DeleteNodes(c) ==
  /\ pc[c] = "deleteNodes"
  /\ \E n \in loc[c].targets :
       LET rest == loc[c].targets \ {n} IN
       /\ DeleteNode(n)
       /\ IF rest # {}
          THEN Await(c, "deleteNodes", [loc[c] EXCEPT !.targets = rest])
          ELSE Finish(c, "success")

-----------------------------------------------------------------------------
NodeEntry(c) ==
  \/ PowerEnter(c) \/ EditEnter(c) \/ EditRefuse(c) \/ BulkEnter(c)
  \/ AddEnter(c) \/ DeleteEnter(c) \/ DeleteRefuse(c)

NodeStep(c) ==
  \/ PowerOne(c) \/ ListPower(c) \/ PowerEach(c)
  \/ ReadNames(c) \/ ReadNode(c) \/ StopNode(c) \/ PutNode(c)
  \/ ListNodes(c) \/ BulkStop(c) \/ BulkPut(c)
  \/ ReadTemplates(c) \/ ReadTemplate(c) \/ ReadPlaces(c) \/ PostNode(c)
  \/ FindNodes(c) \/ ReadVendors(c) \/ DeleteNodes(c)
=============================================================================
