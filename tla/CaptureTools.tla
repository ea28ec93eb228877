---------------------------- MODULE CaptureTools ----------------------------
(***************************************************************************)
(* list_captures and get_capture (tools/capture.py).  The captures are     *)
(* containers on the EVE-NG host, which users start and end in its GUI;    *)
(* nothing of them is kept between two calls.  An agent lists them and     *)
(* picks one by its position in that list, and get_capture lists them      *)
(* again, resolves the position, and answers with a token for the          *)
(* container.  Requests:                                                   *)
(*   tool "list"                                                           *)
(*   tool "get": by "position", at; by "container", among (the captures    *)
(*     that have this name, or an id that starts so); by "neither": both   *)
(*     arguments were given, or none                                       *)
(* A container stands for its name, which does not come back.              *)
(***************************************************************************)
EXTENDS Integers, SequencesExt

CONSTANTS
  Agents,       \* the conversations
  Containers,   \* the captures there may be
  Requests,     \* the calls agents make
  Ttl,          \* token_ttl_seconds
  MaxTime,      \* bound: the last second of the clock
  NoToken       \* get_capture has not answered yet

RequestType ==
  [tool : {"list"}] \cup [tool : {"get"}, by : {"position"}, at : Nat]
  \cup [tool : {"get"}, by : {"container"}, among : SUBSET Containers]
  \cup [tool : {"get"}, by : {"neither"}]

ASSUME CaptureAssumption ==
  Ttl \in Nat /\ MaxTime \in Nat /\ Requests \subseteq RequestType

\* The payload of issue_token: container, iat and exp.  It is signed, so the
\* tokens that are verified later are those that were issued.
Token == [container : Containers, iat : Nat, exp : Nat]

VARIABLES
  \* the EVE-NG host
  running,      \* the captures that run, the oldest first
  ended,        \* those that have ended
  clock,        \* the time of the MCP server, in seconds
  \* the calls
  pc,           \* pc[a]: the request the call of agent a is waiting for
  arg,          \* arg[a]: its tool and arguments
  answer,       \* answer[a]: the token in the last URL it was given
  \* what happened, for the properties
  shown,        \* shown[a]: the last list it was shown, until it has its URL
  steady        \* steady[a]: no capture has ended since, and no line of a list was lost

hostVars == <<running, ended>>
callVars == <<pc, arg, answer, shown, steady>>
toolVars == <<hostVars, clock, callVars>>

ToolsInit ==
  /\ running = <<>> /\ ended = {}
  /\ clock = 0
  /\ pc = [a \in Agents |-> "idle"]
  /\ arg = [a \in Agents |-> [tool |-> "list"]]
  /\ answer = [a \in Agents |-> NoToken]
  /\ shown = [a \in Agents |-> <<>>]
  /\ steady = [a \in Agents |-> FALSE]
-----------------------------------------------------------------------------
(* The EVE-NG host *)

StartCapture(c) ==
  /\ c \notin ToSet(running) \cup ended
  /\ running' = Append(running, c)
  /\ UNCHANGED <<ended, clock, callVars>>

\* The browser tab of a capture is closed, and its heartbeat stops.
EndCapture(c) ==
  /\ \E i \in DOMAIN running : running[i] = c /\ running' = RemoveAt(running, i)
  /\ ended' = ended \cup {c}
  /\ steady' = [a \in Agents |-> FALSE]
  /\ UNCHANGED <<clock, pc, arg, answer, shown>>

\* docker ps lists the newest first.
DockerPs == Reverse(running)

\* Where the lines that arrive whole stand in an output of n lines.
Picks(n) ==
  {p \in UNION {[1..k -> 1..n] : k \in 0..n} : \A i, j \in DOMAIN p : i < j => p[i] < p[j]}

\* What the SSH session may make of an output: it may garble any of its lines.
Received(output) == {[i \in DOMAIN p |-> output[p[i]]] : p \in Picks(Len(output))}
-----------------------------------------------------------------------------
(* The calls *)

Finish(a) == pc' = [pc EXCEPT ![a] = "idle"] /\ UNCHANGED <<hostVars, clock, arg>>

Refuse(a) == Finish(a) /\ UNCHANGED <<answer, shown, steady>>

\* Bound: an agent that has its URL asks no more.
Ask(a) ==
  /\ pc[a] = "idle" /\ answer[a] = NoToken
  /\ \E r \in Requests : arg' = [arg EXCEPT ![a] = r]
  /\ pc' = [pc EXCEPT ![a] = "readStatus"]
  /\ UNCHANGED <<hostVars, clock, answer, shown, steady>>

\* _require_pro, then _require_asyncssh, and what get_capture checks of its arguments.
ReadStatus(a) ==
  /\ pc[a] = "readStatus"
  /\ \/ /\ arg[a].tool = "get" => arg[a].by # "neither"
        /\ pc' = [pc EXCEPT ![a] = "runPs"]
        /\ UNCHANGED <<hostVars, clock, arg, answer, shown, steady>>
     \/ Refuse(a)

\* Mutant of ParsePs: the newest first, as docker lists them.
ParsePsUnreversed(output) == output

\* parse_docker_ps_output
ParsePs(output) == Reverse(output)

\* list_captures: the answer numbers the captures from 1.
ListCaptures(a) ==
  /\ pc[a] = "runPs" /\ arg[a].tool = "list"
  /\ \E lines \in Received(DockerPs) :
       /\ shown' = [shown EXCEPT ![a] = ParsePs(lines)]
       /\ steady' = [steady EXCEPT ![a] = lines = DockerPs]
  /\ Finish(a) /\ UNCHANGED answer

\* _resolve_capture: the captures that the arguments may mean.
Resolved(r, captures) ==
  IF r.by = "position" THEN {captures[i] : i \in DOMAIN captures \cap {r.at}}
  ELSE ToSet(captures) \cap r.among

\* Mutant of IssueToken: the lifetime is subtracted.
IssueExpired(c) == [container |-> c, iat |-> clock, exp |-> clock - Ttl]

IssueToken(c) == [container |-> c, iat |-> clock, exp |-> clock + Ttl]

\* get_capture: anything but one capture is an error.
GetCapture(a) ==
  /\ pc[a] = "runPs" /\ arg[a].tool = "get"
  /\ \E lines \in Received(DockerPs) :
       LET resolved == Resolved(arg[a], ParsePs(lines)) IN
       \/ \E c \in resolved :
            /\ resolved = {c}
            /\ answer' = [answer EXCEPT ![a] = IssueToken(c)]
            /\ steady' = [steady EXCEPT ![a] = @ /\ lines = DockerPs]
            /\ shown' = [shown EXCEPT ![a] = <<>>]
            /\ Finish(a)
       \/ /\ \A c \in resolved : resolved # {c}
          /\ Refuse(a)

\* A request fails, the SSH command times out, or the call is cancelled.
Raise(a) == pc[a] # "idle" /\ Refuse(a)

CallStep(a) == Ask(a) \/ ReadStatus(a) \/ ListCaptures(a) \/ GetCapture(a) \/ Raise(a)
-----------------------------------------------------------------------------
ToolsOK ==
  /\ running \in Seq(Containers) /\ ended \subseteq Containers
  /\ clock \in 0..MaxTime
  /\ pc \in [Agents -> {"idle", "readStatus", "runPs"}]
  /\ arg \in [Agents -> RequestType]
  /\ answer \in [Agents -> Token \cup {NoToken}]
  /\ shown \in [Agents -> Seq(Containers)]
  /\ steady \in [Agents -> BOOLEAN]
=============================================================================
