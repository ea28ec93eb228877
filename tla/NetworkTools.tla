---------------------------- MODULE NetworkTools ----------------------------
(***************************************************************************)
(* The tools of tools/networks.py that change networks: add_lab_network,   *)
(* edit_lab_network and delete_lab_network.  Their requests:               *)
(*   tool "addNetwork": type, "name", "number" or "blank"; name            *)
(*   tool "editNetwork": net, fields (those given, out of "name", "place"  *)
(*     and "noflag": icon, style, color, label or hideme), name, and       *)
(*     visibility, "keep", "show" or "hide"                                *)
(*   tool "deleteNetwork": among, sel, confirm, as for "deleteNode"        *)
(* A network's position is not part of the lab's state here.               *)
(***************************************************************************)
EXTENDS LabCalls, Selection

AddNetworkRequest ==
  [tool : {"addNetwork"}, type : {"name", "number", "blank"}, name : Names]

EditNetworkRequest ==
  { r \in [ tool : {"editNetwork"}, net : Nat, fields : SUBSET {"name", "place", "noflag"},
            name : Names \cup {NoName}, visibility : {"keep", "show", "hide"} ] :
      "name" \in r.fields => r.name # NoName }

DeleteNetworkRequest ==
  [tool : {"deleteNetwork"}, among : SUBSET Names, sel : SelectionsOf(Names), confirm : BOOLEAN]

NetworkSteps ==
  {"readTypes", "postNetwork", "readNetwork", "putNetwork", "findNetworks",
   "deleteNetworks"}

AddNetworkEnter(c) ==
  /\ LockFree(c, {"addNetwork"})
  /\ EnterBlock(c, IF arg[c].type = "name" THEN "postNetwork" ELSE "readTypes")

\* Without a type the answer is a list; a number has to be in the current list.
ReadTypes(c) ==
  /\ pc[c] = "readTypes"
  /\ \/ /\ arg[c].type = "number"
        /\ Await(c, "postNetwork", loc[c])
        /\ UNCHANGED labVars
     \/ Refuse(c)

PostNetwork(c) ==
  /\ pc[c] = "postNetwork"
  /\ \E k \in NetIds : AddNetwork(k, arg[c].name)
  /\ Finish(c, "success")

-----------------------------------------------------------------------------
\* _network_edit_needs_padding
NeedsPadding(r) == "noflag" \in r.fields /\ {"name", "place"} \cap r.fields = {}

NothingGiven(r) == r.fields = {} /\ r.visibility = "keep"

EditNetworkEnter(c) ==
  LET r == arg[c] IN
  /\ LockFree(c, {"editNetwork"})
  /\ ~NothingGiven(r)
  /\ EnterBlock(c, IF r.visibility = "hide" \/ NeedsPadding(r) THEN "readNetwork"
                   ELSE "putNetwork")

EditNetworkRefuse(c) ==
  /\ LockFree(c, {"editNetwork"})
  /\ NothingGiven(arg[c])
  /\ Refuse(c)

\* Mutant of ReadNetwork: the count is not looked at.
ReadNetworkUncounted(c) ==
  LET r == arg[c] IN
  /\ pc[c] = "readNetwork"
  /\ \/ /\ r.net \in nets
        /\ Await(c, "putNetwork", [loc[c] EXCEPT !.seenNetName = netName[r.net]])
        /\ UNCHANGED labVars
     \/ Refuse(c)

\* Hiding is refused unless the network's count is known to be at least 1, and
\* padding unless its name is known.
ReadNetwork(c) ==
  LET r == arg[c]
      mayHide == r.visibility = "hide" => Endpoints(r.net) # {}
  IN
  /\ pc[c] = "readNetwork"
  /\ \/ /\ r.net \in nets /\ mayHide
        /\ Await(c, "putNetwork", [loc[c] EXCEPT !.seenNetName = netName[r.net]])
        /\ UNCHANGED labVars
     \/ Refuse(c)     \* also when the record lacks its count or its name

PutNetwork(c) ==
  LET r == arg[c]
      name == IF "name" \in r.fields THEN r.name
              ELSE IF NeedsPadding(r) THEN loc[c].seenNetName ELSE NoName
  IN
  /\ pc[c] = "putNetwork"
  /\ EditNetwork(r.net, name, r.visibility)
  /\ Finish(c, "success")

-----------------------------------------------------------------------------
DeleteNetworkEnter(c) ==
  /\ LockFree(c, {"deleteNetwork"})
  /\ arg[c].among # {}
  /\ EnterBlock(c, "findNetworks")

DeleteNetworkRefuse(c) ==
  /\ LockFree(c, {"deleteNetwork"})
  /\ arg[c].among = {}
  /\ Refuse(c)

\* _find_networks_by_name, then run_delete_flow.
FindNetworks(c) ==
  LET found == {k \in nets : netName[k] \in arg[c].among}
      targets == DeleteTargets(found, netName, arg[c].sel)
      go == targets # {} /\ arg[c].confirm
  IN
  /\ pc[c] = "findNetworks"
  /\ \/ /\ go
        /\ Await(c, "deleteNetworks", [loc[c] EXCEPT !.targets = targets])
        /\ UNCHANGED labVars
     \/ ~go /\ Refuse(c)

DeleteNetworks(c) ==
  /\ pc[c] = "deleteNetworks"
  /\ \E k \in loc[c].targets :
       LET rest == loc[c].targets \ {k} IN
       /\ DeleteNetwork(k)
       /\ IF rest # {}
          THEN Await(c, "deleteNetworks", [loc[c] EXCEPT !.targets = rest])
          ELSE Finish(c, "success")

-----------------------------------------------------------------------------
NetworkEntry(c) ==
  \/ AddNetworkEnter(c) \/ EditNetworkEnter(c) \/ EditNetworkRefuse(c)
  \/ DeleteNetworkEnter(c) \/ DeleteNetworkRefuse(c)

NetworkStep(c) ==
  \/ ReadTypes(c) \/ PostNetwork(c) \/ ReadNetwork(c) \/ PutNetwork(c)
  \/ FindNetworks(c) \/ DeleteNetworks(c)
=============================================================================
