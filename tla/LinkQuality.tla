---------------------------- MODULE LinkQuality -----------------------------
(***************************************************************************)
(* get_link_quality and set_link_quality: delay, jitter, loss and          *)
(* bandwidth of the two sides of a connection on PRO.  EVE-NG has one      *)
(* request that sets both sides at once, so whoever wants to set one side  *)
(* reads the other and sends it back; no lock is taken.                    *)
(*                                                                         *)
(* A quality is a function from Fields to numbers.  Which side of a        *)
(* connection is the near one, the tools find out by its node; of a node   *)
(* that is connected to itself they always take the source, and a set asked*)
(* of the other end then sends, for the source, the label of the one       *)
(* interface and the interfaceId of the other.                             *)
(***************************************************************************)
EXTENDS Naturals

CONSTANTS
  Calls,        \* tasks that call one of the tools
  Ends,         \* the interfaces, records with fields node and iface
  Networks,     \* the networks of the lab
  Links,        \* the connections that may be drawn
  Fields,       \* what there is to set of a side
  Values,       \* the numbers in use
  Requests      \* the calls of the two tools

Sides   == {"src", "dst"}
Quality == [Fields -> Values]
Partial == UNION {[F -> Values] : F \in SUBSET Fields}
Zero    == [f \in Fields |-> 0]

\* far: the fields of the far side that are given; byName: get_link_quality with
\* node_name; persist: save, not only apply.
RequestType ==
  [tool : {"get", "set"}, end : Ends, byName : BOOLEAN, value : Quality,
   far : Partial, persist : BOOLEAN]

ASSUME LinkAssumption ==
  /\ 0 \in Values /\ Values \subseteq Nat
  /\ Links \subseteq [Sides -> Ends \cup Networks] /\ Requests \subseteq RequestType
  /\ \A l \in Links : (l.src \in Ends \/ l.dst \in Ends) /\ l.src # l.dst
  /\ Ends # {} /\ Requests # {} /\ Ends \cap Networks = {}

\* What f says, and for the rest g.
Over(f, g) == [x \in DOMAIN f \cup DOMAIN g |-> IF x \in DOMAIN f THEN f[x] ELSE g[x]]

VARIABLES
  ends,         \* EVE-NG: the interfaces that exist
  links,        \* EVE-NG: the connections that are drawn
  live,         \* EVE-NG: the quality in effect at each interface
  saved,        \* EVE-NG: the one in the lab file
  reports,      \* EVE-NG: which of the two the topology has; nobody has looked
  pc,           \* pc[c]: the request call c waits for
  arg,          \* arg[c]: its arguments
  link,         \* link[c]: the entry of the topology it has found
  read,         \* read[c]: the quality of both sides there
  answer,       \* answer[c]: what it reports for the two sides
  \* history
  want,         \* want[e]: what interface e was last told to have
  stale,        \* calls whose far side does not have what they have read
  crossed,      \* calls asked for the destination of a connection of a node to itself
  spoilt,       \* the interfaces that stale calls have set as their far side, and
                \* those of a connection that a crossed call has set
  truth         \* truth[c]: what the topology said of the interface call c, a get,
                \* was asked for, and of the one at the other end

labVars  == <<ends, links, live, saved>>
callVars == <<pc, arg, link, read, answer>>
history == <<want, stale, crossed, spoilt, truth>>
vars == <<labVars, reports, callVars, history>>

NoLink == [s \in Sides |-> CHOOSE e \in Ends : TRUE]
NoRead == [s \in Sides |-> Zero]
NoArg  == CHOOSE r \in Requests : TRUE

Init ==
  /\ ends = Ends
  /\ links \in {L \in SUBSET Links :
       \A l, k \in L : l # k => {l.src, l.dst} \cap {k.src, k.dst} \cap Ends = {}}
  /\ live = [e \in Ends |-> Zero] /\ saved = live /\ reports \in {"live", "saved"}
  /\ pc = [c \in Calls |-> "idle"] /\ arg = [c \in Calls |-> NoArg]
  /\ link = [c \in Calls |-> NoLink] /\ read = [c \in Calls |-> NoRead]
  /\ answer = [c \in Calls |-> NoRead]
  /\ want = [e \in Ends |-> Zero] /\ stale = {} /\ crossed = {} /\ spoilt = {}
  /\ truth = [c \in Calls |-> NoRead]
-----------------------------------------------------------------------------
Other(s) == IF s = "src" THEN "dst" ELSE "src"

\* Mutant of NearSide: the node is looked for at the other end.
NearSideSwapped(l, e) ==
  IF l.dst \in Ends /\ l.dst.node = e.node THEN "src" ELSE "dst"

\* The side of l that is taken to be interface e: its node decides.
NearSide(l, e) == IF l.src \in Ends /\ l.src.node = e.node THEN "src" ELSE "dst"

Near(c) == NearSide(link[c], arg[c].end)
Far(c)  == link[c][Other(Near(c))]

Await(c, request) == pc' = [pc EXCEPT ![c] = request]

\* The tool answers or raises; the call's variables are gone.
Finish(c) ==
  /\ Await(c, "idle")
  /\ arg' = [arg EXCEPT ![c] = NoArg] /\ link' = [link EXCEPT ![c] = NoLink]
  /\ read' = [read EXCEPT ![c] = NoRead]

Refuse(c) ==
  /\ Finish(c)
  /\ stale' = stale \ {c} /\ crossed' = crossed \ {c}
  /\ truth' = [truth EXCEPT ![c] = NoRead]
  /\ UNCHANGED answer

Ask(c) ==
  /\ pc[c] = "idle"
  /\ \E r \in Requests : arg' = [arg EXCEPT ![c] = r]
  /\ Await(c, "readStatus")
  /\ answer' = [answer EXCEPT ![c] = NoRead] /\ truth' = [truth EXCEPT ![c] = NoRead]
  /\ crossed' = crossed \ {c}
  /\ UNCHANGED <<labVars, reports, link, read, want, stale, spoilt>>

\* A request fails, or the task is cancelled.
Raise(c) ==
  /\ pc[c] # "idle"
  /\ Refuse(c)
  /\ UNCHANGED <<labVars, reports, want, spoilt>>

\* get_status: Community is refused.
ReadStatus(c) ==
  /\ pc[c] = "readStatus"
  /\ \/ /\ Await(c, IF arg[c].byName THEN "findNode" ELSE "readInterfaces")
        /\ UNCHANGED <<arg, link, read, answer, stale, crossed, truth>>
     \/ Refuse(c)
  /\ UNCHANGED <<labVars, reports, want, spoilt>>

\* _search_nodes_by_name: one node matches, or the tool answers with a list or an error.
FindNode(c) ==
  /\ pc[c] = "findNode"
  /\ \/ Await(c, "readInterfaces") /\ UNCHANGED <<arg, link, read, answer, stale, crossed, truth>>
     \/ Refuse(c)
  /\ UNCHANGED <<labVars, reports, want, spoilt>>

\* get_node_interfaces: the interface is looked up by its label or its index.
ReadInterfaces(c) ==
  /\ pc[c] = "readInterfaces"
  /\ \/ /\ arg[c].end \in ends
        /\ Await(c, "readTopology")
        /\ UNCHANGED <<arg, link, read, answer, stale, crossed, truth>>
     \/ arg[c].end \notin ends /\ Refuse(c)
  /\ UNCHANGED <<labVars, reports, want, spoilt>>

\* What the topology says of an end; networks have no quality.
Shown(e) ==
  IF e \in Networks THEN Zero ELSE IF reports = "live" THEN live[e] ELSE saved[e]

\* The end of l that is not e.
Opposite(l, e) == IF l.src = e THEN l.dst ELSE l.src

\* l connects a node to itself, and e is its destination.
Crosses(l, e) == l.src \in Ends /\ l.dst = e /\ l.src.node = e.node

\* get_lab_topology and _find_connection.
ReadTopology(c) ==
  LET end   == arg[c].end
      found == {l \in links : end \in {l.src, l.dst}} IN
  /\ pc[c] = "readTopology"
  /\ \/ \E l \in found :
          LET near == NearSide(l, end)
              far  == l[Other(near)]
              both == [s \in Sides |-> Shown(l[s])] IN
          /\ IF arg[c].tool = "get" /\ far \in Ends
             THEN /\ answer' = [answer EXCEPT ![c] = [src |-> both[near], dst |-> both[Other(near)]]]
                  /\ Finish(c)
                  /\ UNCHANGED stale
             ELSE /\ link' = [link EXCEPT ![c] = l] /\ read' = [read EXCEPT ![c] = both]
                  /\ Await(c, IF arg[c].tool = "get" THEN "readNetwork"
                              ELSE IF far \in Networks THEN "put" ELSE "readFar")
                  /\ stale' = IF far \in Ends /\ Shown(far) # live[far] THEN stale \cup {c} ELSE stale
                  /\ UNCHANGED <<arg, answer>>
          /\ crossed' = IF Crosses(l, end) THEN crossed \cup {c} ELSE crossed
          /\ truth' = IF arg[c].tool = "get"
                      THEN [truth EXCEPT ![c] = [src |-> Shown(end), dst |-> Shown(Opposite(l, end))]]
                      ELSE truth
     \/ found = {} /\ Refuse(c)
  /\ UNCHANGED <<labVars, reports, want, spoilt>>

\* get_link_quality asks for the name of the network, whose side is always 0.
ReadNetwork(c) ==
  /\ pc[c] = "readNetwork"
  /\ answer' = [answer EXCEPT ![c] = [src |-> read[c][Near(c)], dst |-> Zero]]
  /\ Finish(c)
  /\ UNCHANGED <<labVars, reports, history>>

\* get_node_interfaces of the far node, for the index of its interface.
ReadFar(c) ==
  /\ pc[c] = "readFar"
  /\ \/ /\ Far(c) \in ends
        /\ Await(c, "put")
        /\ UNCHANGED <<arg, link, read, answer, stale, crossed, truth>>
     \/ Far(c) \notin ends /\ Refuse(c)
  /\ UNCHANGED <<labVars, reports, want, spoilt>>

\* Mutant of FarValue: what is not given is 0.
FarValueZero(c) == IF Far(c) \in Networks THEN Zero ELSE Over(arg[c].far, Zero)

\* Mutant of FarValue: only what is given is sent.
FarValueGiven(c) == arg[c].far

\* What is sent for the far side: what is given, and for the rest what was read.
FarValue(c) ==
  IF Far(c) \in Networks THEN Zero ELSE Over(arg[c].far, read[c][Other(Near(c))])

\* What a Put of c may write.  EVE-NG goes by the label of the near side, or by its
\* interfaceId, and by the one or by the other side last; it only matters if c is crossed.
Payloads(c) ==
  LET FarPart == [e \in {Far(c)} \cap Ends |-> FarValue(c)]
      NearPart(i) == [e \in {i} |-> arg[c].value] IN
  UNION {{Over(NearPart(i), FarPart), Over(FarPart, NearPart(i))} :
           i \in {link[c][Near(c)], arg[c].end}}

\* EVE-NG sets both sides of the connection, or nothing if it is not there any more.
Put(c) ==
  LET far  == {Far(c)} \cap Ends
      told == [e \in far |-> Over(arg[c].far, want[e])] IN
  /\ pc[c] = "put"
  /\ \/ /\ link[c] \in links
        /\ \E p \in Payloads(c) :
             /\ live' = Over(p, live)
             /\ saved' = IF arg[c].persist THEN Over(p, saved) ELSE saved
             /\ stale' = (stale \cup {d \in Calls : pc[d] \in {"readFar", "put"} /\ Far(d) \in DOMAIN p})
                         \ {c}
        /\ want' = [Over(told, want) EXCEPT ![arg[c].end] = arg[c].value]
        /\ spoilt' = (spoilt \ {arg[c].end})
                     \cup (IF c \in stale THEN far ELSE {})
                     \cup (IF c \in crossed THEN {link[c].src, link[c].dst} ELSE {})
     \/ /\ link[c] \notin links
        /\ stale' = stale \ {c}
        /\ UNCHANGED <<live, saved, want, spoilt>>
  /\ crossed' = crossed \ {c}
  /\ Finish(c)
  /\ UNCHANGED <<ends, links, reports, answer, truth>>

CallStep(c) ==
  \/ Ask(c) \/ Raise(c) \/ ReadStatus(c) \/ FindNode(c) \/ ReadInterfaces(c)
  \/ ReadTopology(c) \/ ReadNetwork(c) \/ ReadFar(c) \/ Put(c)
-----------------------------------------------------------------------------
(* The other users of the lab. *)

\* The interfaces E have no quality any more.
Reset(E) ==
  /\ live' = Over([e \in E |-> Zero], live) /\ saved' = Over([e \in E |-> Zero], saved)
  /\ want' = Over([e \in E |-> Zero], want) /\ spoilt' = spoilt \ E
  /\ stale' = stale \cup {c \in Calls : pc[c] \in {"readFar", "put"} /\ Far(c) \in E}
  /\ UNCHANGED <<crossed, truth>>

\* A connection is removed, and with it what was set for it.
Unplug ==
  /\ \E l \in links : links' = links \ {l} /\ Reset({l.src, l.dst} \cap Ends)
  /\ UNCHANGED <<ends, reports, callVars>>

\* A connection is drawn between free interfaces.
Plug ==
  /\ \E l \in Links :
       /\ {l.src, l.dst} \cap Ends \subseteq ends \ UNION {{k.src, k.dst} : k \in links}
       /\ links' = links \cup {l}
  /\ UNCHANGED <<ends, live, saved, reports, callVars, history>>

\* A node loses a free interface.
Shrink ==
  /\ \E e \in ends \ UNION {{k.src, k.dst} : k \in links} : ends' = ends \ {e}
  /\ UNCHANGED <<links, live, saved, reports, callVars, history>>

Elsewhere == Unplug \/ Plug \/ Shrink

Next == Elsewhere \/ \E c \in Calls : CallStep(c)

Spec == Init /\ [][Next]_vars
-----------------------------------------------------------------------------
TypeOK ==
  /\ ends \subseteq Ends /\ links \subseteq Links
  /\ live \in [Ends -> Quality] /\ saved \in [Ends -> Quality] /\ reports \in {"live", "saved"}
  /\ pc \in [Calls -> {"idle", "readStatus", "findNode", "readInterfaces", "readTopology",
                       "readNetwork", "readFar", "put"}]
  /\ arg \in [Calls -> RequestType] /\ link \in [Calls -> [Sides -> Ends \cup Networks]]
  /\ read \in [Calls -> [Sides -> Quality]] /\ answer \in [Calls -> [Sides -> Quality]]
  /\ want \in [Ends -> Quality] /\ stale \subseteq Calls /\ crossed \subseteq Calls
  /\ spoilt \subseteq Ends /\ truth \in [Calls -> [Sides -> Quality]]

\* A call that is going to set a connection has found its own interface at the near end,
\* unless it is crossed, and then at the far end of a connection of a node to itself.
NearInv ==
  \A c \in Calls : pc[c] \in {"readNetwork", "readFar", "put"} =>
    /\ link[c] \in Links
    /\ link[c][Near(c)] = IF c \in crossed THEN link[c].src ELSE arg[c].end
    /\ c \in crossed => Crosses(link[c], arg[c].end)

\* What it is going to send back of the far end is what that has, unless it is stale.
FarInv ==
  \A c \in Calls \ stale : pc[c] \in {"readFar", "put"} /\ Far(c) \in Ends =>
    read[c][Other(Near(c))] = live[Far(c)]

\* A call that is not over has not answered; only one that is going to, and asks for the
\* name of the network first, knows what, and it is what it has read.  A crossed call is
\* over, or is going to set the connection.
AnswerInv ==
  \A c \in Calls : pc[c] # "idle" =>
    /\ answer[c] = NoRead
    /\ truth[c] = IF pc[c] = "readNetwork" THEN [src |-> read[c][Near(c)], dst |-> Zero] ELSE NoRead
    /\ c \in crossed => pc[c] \in {"readFar", "put"}

\* An interface has the quality it was last told to have, field by field, by calls for
\* either end, unless a call for the other end has read something else (before it was
\* last set, or from the lab file while it is not saved), or the connection is one of a
\* node to itself and was set by a call for its destination.
AsTold == \A e \in Ends \ spoilt : live[e] = want[e]

Swap(q) == [src |-> q.dst, dst |-> q.src]

\* get_link_quality reports, as the near end, what the topology said of the interface it
\* was asked for, and as the far end what it said of the interface or the network at the
\* other end, whichever way the connection was drawn; but asked for the destination of a
\* connection of a node to itself, it reports the two the other way round.
ReportsTheNearEnd ==
  \A c \in Calls : pc[c] = "idle" =>
    answer[c] = IF c \in crossed THEN Swap(truth[c]) ELSE truth[c]

\* The inductive invariant.
IInv == TypeOK /\ NearInv /\ FarInv /\ AnswerInv /\ AsTold /\ ReportsTheNearEnd
=============================================================================
