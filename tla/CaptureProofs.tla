---------------------------- MODULE CaptureProofs ----------------------------
(***************************************************************************)
(* Proofs about CaptureRelay, for every number of desktops and every       *)
(* setting of the timers that RelayAssumption allows: no dumpcap is left   *)
(* on the host by a stream.  The argument is StopsInTime: streams that are *)
(* still open are cancelled, and have closed their channels, before        *)
(* systemd kills the relay, so that Kill finds none.                       *)
(***************************************************************************)
EXTENDS CaptureRelay, TLAPS, SequenceTheorems

\* What a relay that stops may still have in hand is what it cancelled.
Unwound == {"abandoned", "closing"}

\* The two streams of a desktop are two, and no other desktop's.
LEMMA StreamParts ==
  ASSUME NEW d \in Desktops, NEW e \in Desktops
  PROVE /\ Preflight(d) \in Streams /\ Real(d) \in Streams
        /\ Preflight(d) # Real(e)
        /\ e # d => Preflight(d) # Preflight(e) /\ Real(d) # Real(e)
BY DEF Preflight, Real, Streams

\* Nothing streams before the first URL is opened.
LEMMA InitIInv == Init => IInv
BY CaptureAssumption, StreamParts
   DEF Init, ToolsInit, IInv, RelayOK, NoOrphan, StopsInTime, AskedOnce, Open, Admitted, Held

\* The calls of the agents and the captures that start touch nothing of the relay.
LEMMA ToolsKeep ==
  ASSUME IInv, UNCHANGED <<clock, batVars, relayVars, streamVars>> PROVE IInv'
BY DEF IInv, RelayOK, NoOrphan, StopsInTime, AskedOnce, CancelAt, batVars, relayVars, streamVars

\* dumpcap ends with its container, by itself, or with its connection.
LEMMA ProcsEndKeeps ==
  ASSUME IInv, UNCHANGED <<clock, batVars, relayVars, st, gone>>,
         proc' \in [Streams -> {"none", "running", "ended"}],
         \A s \in Streams : proc'[s] = "running" => proc[s] = "running"
  PROVE  IInv'
BY DEF IInv, RelayOK, NoOrphan, StopsInTime, AskedOnce, CancelAt, batVars, relayVars

\* dumpcap starts for a task that will close its channel.
LEMMA LaunchKeeps ==
  ASSUME IInv, NEW s \in Streams, st[s] \in {"starting", "closing"},
         NEW p \in {"running", "ended"}, proc' = [proc EXCEPT ![s] = p],
         UNCHANGED <<clock, batVars, relayVars, st, gone>>
  PROVE  IInv'
<1>1. relay # "down"
  BY DEF IInv, StopsInTime, Open, Admitted, Held
<1>2. RelayOK' /\ NoOrphan'
  BY <1>1 DEF IInv, RelayOK, NoOrphan, Held, batVars, relayVars
<1> QED BY <1>2 DEF IInv, StopsInTime, AskedOnce, CancelAt, batVars, relayVars

\* A stream's task moves on, and holds dumpcap if it runs.
LEMMA GotoKeeps ==
  ASSUME IInv, NEW s \in Streams, NEW from \in Open, NEW to \in Admitted \cup {"refused"},
         Goto(s, from, to),
         from \in Unwound /\ to \in Open => to \in Unwound,
         proc' \in [Streams -> {"none", "running", "ended"}],
         \A t \in Streams \ {s} : proc'[t] = proc[t],
         proc'[s] = "running" => to \in Held
  PROVE  IInv'
<1> USE DEF Goto, Open, Admitted, Held, Unwound
<1>1. RelayOK' /\ (clock \in 0..MaxTime)'
  BY DEF IInv, RelayOK, toolVars, batVars, relayVars
<1>2. relay # "down"
  BY DEF IInv, StopsInTime
<1>3. NoOrphan'
  BY <1>2 DEF IInv, RelayOK, NoOrphan, relayVars
<1>4. StopsInTime'
  BY <1>2 DEF IInv, RelayOK, StopsInTime, CancelAt, toolVars, relayVars
<1>5. AskedOnce'
  BY StreamParts DEF IInv, RelayOK, AskedOnce, batVars
<1> QED BY <1>1, <1>3, <1>4, <1>5 DEF IInv

\* A script asks for a stream that it has not asked for, of a relay that is up.
LEMMA RequestKeeps ==
  ASSUME IInv, NEW d \in Desktops, NEW s \in {Preflight(d), Real(d)},
         NEW from, NEW to \in {"preflight", "curl"},
         bat[d] = from, bat' = [bat EXCEPT ![d] = to],
         s = Preflight(d) => from = "closed",
         s = Real(d) => from = "preflight" /\ to = "curl",
         Request(s), UNCHANGED <<clock, relayVars, proc>>,
         gone' \in [Streams -> BOOLEAN]
  PROVE  IInv'
<1>1. s \in Streams /\ st[s] = "none"
  BY StreamParts DEF IInv, AskedOnce
<1>2. PICK w \in {"none", "requested"} :
        st' = [st EXCEPT ![s] = w] /\ (w = "requested" => relay = "up")
  BY DEF Request
<1>3. RelayOK' /\ (clock \in 0..MaxTime)'
  BY <1>1, <1>2 DEF IInv, RelayOK, relayVars
<1>4. NoOrphan'
  BY <1>1, <1>2 DEF IInv, RelayOK, NoOrphan, relayVars, Held
<1>5. StopsInTime'
  BY <1>1, <1>2 DEF IInv, RelayOK, StopsInTime, CancelAt, relayVars, Open, Admitted, Held
<1>6. AskedOnce'
  BY <1>1, <1>2, StreamParts DEF IInv, RelayOK, AskedOnce
<1> QED BY <1>3, <1>4, <1>5, <1>6 DEF IInv

\* A script goes on without the relay, or ends.
LEMMA ScriptKeeps ==
  ASSUME IInv, NEW d \in Desktops, NEW to \in {"plink", "exited"},
         bat' = [bat EXCEPT ![d] = to],
         UNCHANGED <<clock, relayVars, st, proc>>, gone' \in [Streams -> BOOLEAN]
  PROVE  IInv'
BY DEF IInv, RelayOK, NoOrphan, StopsInTime, AskedOnce, CancelAt, relayVars

-----------------------------------------------------------------------------
\* Each step of a desktop, of a stream and of the service, by the lemmas above.
LEMMA DesktopKeeps ==
  ASSUME IInv, NEW d \in Desktops, OpenUrl(d) \/ PreflightOver(d) \/ Quit(d) PROVE IInv'
<1>1. gone' \in [Streams -> BOOLEAN] /\ UNCHANGED <<clock, relayVars, proc>>
  BY DEF IInv, RelayOK, OpenUrl, PreflightOver, Quit, toolVars
<1>2. CASE OpenUrl(d)
  <2>1. CASE bat' = [bat EXCEPT ![d] = "preflight"] /\ Request(Preflight(d))
    BY <1>1, <1>2, <2>1, StreamParts, RequestKeeps DEF OpenUrl
  <2>2. CASE FallBack(d) /\ UNCHANGED st
    BY <1>1, <2>2, ScriptKeeps DEF FallBack
  <2> QED BY <1>2, <2>1, <2>2 DEF OpenUrl
<1>3. CASE PreflightOver(d)
  <2>1. CASE bat' = [bat EXCEPT ![d] = "curl"] /\ Request(Real(d))
    BY <1>1, <1>3, <2>1, StreamParts, RequestKeeps DEF PreflightOver
  <2>2. CASE FallBack(d) /\ UNCHANGED st
    BY <1>1, <2>2, ScriptKeeps DEF FallBack
  <2> QED BY <1>3, <2>1, <2>2 DEF PreflightOver
<1>4. CASE Quit(d)
  BY <1>1, <1>4, ScriptKeeps DEF Quit
<1> QED BY <1>2, <1>3, <1>4

LEMMA StreamKeeps ==
  ASSUME IInv, NEW s \in Streams,
         StreamStep(s) \/ Chunk(s) \/ Sent(s) \/ Dropped(s) \/ ProcEnds(s)
  PROVE  IInv'
<1> USE DEF Open, Admitted, Held, Unwound
<1>0. proc \in [Streams -> {"none", "running", "ended"}] /\ (proc[s] = "running" => st[s] \in Held)
  BY DEF IInv, RelayOK, NoOrphan
<1>1. CASE Endpoint(s)
  <2> DEFINE to == IF Expired(url[s[1]]) THEN "refused" ELSE "connecting"
  <2>1. Goto(s, "requested", to) /\ proc' = proc /\ proc[s] # "running"
    BY <1>0, <1>1 DEF Endpoint, Goto
  <2>2. to \in Admitted \cup {"refused"}
    OBVIOUS
  <2> HIDE DEF to
  <2> QED BY <1>0, <2>1, <2>2, GotoKeeps
<1>2. CASE Connect(s)
  <2>1. PICK to \in {"starting", "done"} : Goto(s, "connecting", to) /\ proc' = proc
    BY <1>2 DEF Connect
  <2>2. proc[s] # "running"
    BY <1>0, <2>1 DEF Goto
  <2> QED BY <1>0, <2>1, <2>2, GotoKeeps
<1>11. CASE Launch(s)
  <2>1. PICK p \in {"running", "ended"} : proc' = [proc EXCEPT ![s] = p]
    BY <1>11 DEF Launch
  <2>2. /\ st[s] \in {"starting", "closing"}
        /\ UNCHANGED <<clock, batVars, relayVars, st, gone>>
    BY <1>11 DEF Launch, toolVars
  <2> QED BY <2>1, <2>2, LaunchKeeps
<1>12. CASE Started(s)
  BY <1>0, <1>12, GotoKeeps DEF Started
<1>3. CASE CheckClient(s)
  <2> DEFINE to == IF gone[s] THEN "closing" ELSE "reading"
  <2>1. Goto(s, "checking", to) /\ proc' = proc
    BY <1>3 DEF CheckClient
  <2>2. to \in Held
    OBVIOUS
  <2> HIDE DEF to
  <2> QED BY <1>0, <2>1, <2>2, GotoKeeps
<1>4. CASE Read(s)
  BY <1>0, <1>4, GotoKeeps DEF Read
<1>5. CASE Chunk(s)
  BY <1>0, <1>5, GotoKeeps DEF Chunk
<1>6. CASE Sent(s)
  BY <1>0, <1>6, GotoKeeps DEF Sent
<1>7. CASE Finalize(s)
  BY <1>0, <1>7, GotoKeeps DEF Finalize
<1>8. CASE Close(s)
  BY <1>0, <1>8, GotoKeeps DEF Close
<1>9. CASE Dropped(s)
  <2>1. PICK from \in Open, to \in Admitted :
          /\ Goto(s, from, to) /\ proc' = proc
          /\ from \in Unwound /\ to \in Open => to \in Unwound
          /\ from \in Held => to \in Held
    BY <1>9 DEF Dropped, CancelledAt
  <2>2. proc'[s] = "running" => to \in Held
    BY <1>0, <2>1 DEF Goto
  <2> QED BY <1>0, <2>1, <2>2, GotoKeeps
<1>10. CASE ProcEnds(s)
  BY <1>0, <1>10, ProcsEndKeeps DEF ProcEnds, toolVars
<1> QED BY <1>1, <1>2, <1>3, <1>4, <1>5, <1>6, <1>7, <1>8, <1>9, <1>10, <1>11, <1>12 DEF StreamStep

\* A capture that ends takes the dumpcaps in it along.
LEMMA HostKeeps ==
  ASSUME IInv, NEW c \in Containers, HostStep(c) PROVE IInv'
<1>1. CASE StartCapture(c) /\ UNCHANGED <<batVars, relayVars, streamVars>>
  BY <1>1, ToolsKeep DEF StartCapture
<1>2. CASE EndCapture(c) /\ UNCHANGED <<batVars, relayVars, st, gone>> /\
           proc' = [s \in Streams |->
             IF proc[s] = "running" /\ url[s[1]].container = c THEN "ended" ELSE proc[s]]
  <2>1. proc' \in [Streams -> {"none", "running", "ended"}]
    BY <1>2 DEF IInv, RelayOK
  <2>2. \A s \in Streams : proc'[s] = "running" => proc[s] = "running"
    BY <1>2
  <2>3. UNCHANGED clock
    BY <1>2 DEF EndCapture
  <2> QED BY <1>2, <2>1, <2>2, <2>3, ProcsEndKeeps
<1> QED BY <1>1, <1>2 DEF HostStep

\* The calls of an agent leave the clock alone.
LEMMA CallKeeps ==
  ASSUME IInv, NEW a \in Agents, CallStep(a), UNCHANGED <<batVars, relayVars, streamVars>>
  PROVE  IInv'
<1>1. UNCHANGED clock
  BY DEF CallStep, Ask, ReadStatus, ListCaptures, GetCapture, Raise, Refuse, Finish
<1> QED BY <1>1, ToolsKeep

\* Stopping: the clock stands still at CancelAt until the streams are
\* cancelled, and Cleanup later until they are closed, which is before KillAt.
LEMMA ServiceKeeps ==
  ASSUME IInv, Stop \/ CancelStreams \/ Exit \/ Kill \/ Start \/ Tick PROVE IInv'
<1> USE CaptureAssumption, RelayAssumption
    DEF IInv, RelayOK, NoOrphan, StopsInTime, AskedOnce, CancelAt, Open, Admitted, Held,
        toolVars, batVars, relayVars, streamVars, hostVars, callVars
<1>1. CASE Stop
  BY <1>1 DEF Stop
<1>2. CASE CancelStreams
  <2>1. \A w \in Admitted \cup {"none", "requested", "refused"} :
          /\ CancelledAt(w) \in Admitted \cup {"none", "refused"}
          /\ CancelledAt(w) \in Open => CancelledAt(w) \in {"abandoned", "closing"}
          /\ w \in Held => CancelledAt(w) \in Held
          /\ w = "none" => CancelledAt(w) = "none"
    BY DEF CancelledAt
  <2>2. RelayOK' /\ AskedOnce' /\ clock' = clock
    BY <1>2, <2>1, StreamParts DEF CancelStreams
  <2>3. NoOrphan'
    BY <1>2, <2>1 DEF CancelStreams
  <2>4. StopsInTime'
    BY <1>2, <2>1 DEF CancelStreams
  <2> QED BY <2>2, <2>3, <2>4
<1>3. CASE Exit
  BY <1>3 DEF Exit
<1>4. CASE Kill
  <2>1. \A s \in Streams : st[s] \notin Open
    BY <1>4 DEF Kill, KillAt
  <2>2. st' = st
    BY <1>4, <2>1 DEF Kill
  <2> QED BY <1>4, <2>1, <2>2 DEF Kill
<1>5. CASE Start
  BY <1>5 DEF Start
<1>6. CASE Tick
  BY <1>6 DEF Tick
<1> QED BY <1>1, <1>2, <1>3, <1>4, <1>5, <1>6

LEMMA NextIInv == IInv /\ [Next]_vars => IInv'
<1> SUFFICES ASSUME IInv, [Next]_vars PROVE IInv'
  OBVIOUS
<1>1. CASE \E c \in Containers : HostStep(c)
  BY <1>1, HostKeeps
<1>2. CASE \E a \in Agents : CallStep(a) /\ UNCHANGED <<batVars, relayVars, streamVars>>
  BY <1>2, CallKeeps
<1>3. CASE \E d \in Desktops : OpenUrl(d) \/ PreflightOver(d) \/ Quit(d)
  BY <1>3, DesktopKeeps
<1>4. CASE \E s \in Streams : StreamStep(s) \/ Chunk(s) \/ Sent(s) \/ Dropped(s) \/ ProcEnds(s)
  BY <1>4, StreamKeeps
<1>5. CASE Stop \/ CancelStreams \/ Exit \/ Kill \/ Start \/ Tick
  BY <1>5, ServiceKeeps
<1>6. CASE UNCHANGED vars
  BY <1>6, ToolsKeep DEF vars, toolVars
<1> QED BY <1>1, <1>2, <1>3, <1>4, <1>5, <1>6 DEF Next

\* The inductive invariant holds throughout.
THEOREM Invariance == Spec => []IInv
BY InitIInv, NextIInv, PTL DEF Spec

\* No dumpcap is left on the host without a task of the relay that will end it.
THEOREM NeverOrphans == Spec => []NoOrphan
<1>1. IInv => NoOrphan
  BY DEF IInv
<1> QED BY <1>1, Invariance, PTL

\* When systemd would kill the relay, no stream is open in it any more.
THEOREM KilledEmpty == Spec => [][Kill => \A s \in Streams : st[s] \notin Open]_vars
<1>1. IInv /\ Kill => \A s \in Streams : st[s] \notin Open
  BY CaptureAssumption, RelayAssumption
     DEF IInv, RelayOK, StopsInTime, Kill, KillAt, CancelAt
<1> QED BY <1>1, Invariance, PTL

-----------------------------------------------------------------------------
(***************************************************************************)
(* The lists of captures.  Nothing else touches them, so that what an      *)
(* agent was shown is still how the list begins until a capture ends.      *)
(***************************************************************************)

\* Lines that are lost leave a list of captures.
LEMMA ReceivedType ==
  ASSUME NEW output \in Seq(Containers), NEW lines \in Received(output)
  PROVE  lines \in Seq(Containers)
<1> DEFINE n == Len(output)
<1>1. PICK p \in Picks(n) : lines = [i \in DOMAIN p |-> output[p[i]]]
  BY DEF Received
<1>2. PICK k \in 0..n : p \in [1..k -> 1..n]
  BY DEF Picks
<1>3. n \in Nat /\ \A i \in 1..n : output[i] \in Containers
  OBVIOUS
<1> HIDE DEF n
<1>4. k \in Nat /\ lines \in [1..k -> Containers]
  BY <1>1, <1>2, <1>3
<1> QED BY <1>4

\* parse_docker_ps_output turns the order of docker ps round.
LEMMA ParsePsType ==
  ASSUME NEW lines \in Seq(Containers)
  PROVE  ParsePs(lines) \in Seq(Containers)
<1> DEFINE n == Len(lines)
           r == [i \in 1..n |-> lines[(n - i) + 1]]
<1>1. n \in Nat /\ \A i \in 1..n : lines[i] \in Containers
  OBVIOUS
<1>2. ParsePs(lines) = r
  BY DEF ParsePs, Reverse
<1> HIDE DEF n
<1>3. r \in [1..n -> Containers]
  BY <1>1
<1> HIDE DEF r
<1>4. r \in Seq(Containers)
  BY <1>1, <1>3
<1> QED BY <1>2, <1>4

LEMMA ListsInOrder ==
  ASSUME running \in Seq(Containers)
  PROVE  DockerPs \in Seq(Containers) /\ ParsePs(DockerPs) = running
<1> DEFINE n == Len(running)
           r == [i \in 1..n |-> running[(n - i) + 1]]
<1>1. n \in Nat /\ \A i \in 1..n : running[i] \in Containers
  OBVIOUS
<1>2. DockerPs = r
  BY DEF DockerPs, Reverse
<1> HIDE DEF n
<1>3. r \in [1..n -> Containers] /\ \A i \in 1..n : r[(n - i) + 1] = running[i]
  BY <1>1
<1> HIDE DEF r
<1>4. r \in Seq(Containers) /\ Len(r) = n
  BY <1>1, <1>3
<1>5. ParsePs(r) = [i \in 1..n |-> r[(n - i) + 1]]
  BY <1>4 DEF ParsePs, Reverse
<1>6. ParsePs(r) \in Seq(Containers) /\ Len(ParsePs(r)) = n
  BY <1>1, <1>4, <1>5, ParsePsType
<1>7. \A i \in 1..n : ParsePs(r)[i] = running[i]
  BY <1>3, <1>5
<1>8. ParsePs(r) = running
  BY <1>6, <1>7, SeqEqual DEF n
<1> QED BY <1>2, <1>4, <1>8

\* Every answer is a token for a capture that was listed.
LEMMA AnswerType ==
  ASSUME ToolsOK, NEW r \in RequestType, r.tool = "get", NEW captures \in Seq(Containers),
         NEW c \in Resolved(r, captures)
  PROVE  IssueToken(c) \in Token
<1>1. c \in Containers
  BY DEF Resolved, ToSet
<1>2. clock \in Nat /\ clock + Ttl \in Nat
  BY CaptureAssumption DEF ToolsOK
<1> QED BY <1>1, <1>2 DEF IssueToken, Token

LEMMA HostTools ==
  ASSUME ToolsOK, ShownHolds, NEW c \in Containers, StartCapture(c) \/ EndCapture(c)
  PROVE  ToolsOK' /\ ShownHolds'
<1>1. CASE StartCapture(c)
  <2>0. running \in Seq(Containers) /\ running' = Append(running, c)
    BY <1>1 DEF ToolsOK, StartCapture
  <2>1. running' \in Seq(Containers) /\ Len(running') = Len(running) + 1
        /\ \A i \in 1..Len(running) : running'[i] = running[i]
    BY <2>0
  <2>2. ToolsOK'
    BY <1>1, <2>1 DEF ToolsOK, StartCapture, callVars
  <2>3. \A i \in DOMAIN running : i \in DOMAIN running' /\ running'[i] = running[i]
    BY <2>1, SMTT(30) DEF ToolsOK
  <2>4. ShownHolds'
    BY <1>1, <2>3 DEF ShownHolds, StartCapture, callVars
  <2> QED BY <2>2, <2>4
<1>2. CASE EndCapture(c)
  <2>1. running' \in Seq(Containers)
    <3>1. PICK i \in DOMAIN running : running' = RemoveAt(running, i)
      BY <1>2 DEF EndCapture
    <3> DEFINE x == SubSeq(running, 1, i - 1)
               y == SubSeq(running, i + 1, Len(running))
    <3>2. x \in Seq(Containers) /\ y \in Seq(Containers)
      BY <3>1 DEF ToolsOK
    <3>3. running' = x \o y
      BY <3>1 DEF RemoveAt
    <3> HIDE DEF x, y
    <3> QED BY <3>2, <3>3
  <2>2. steady' = [a \in Agents |-> FALSE]
    BY <1>2 DEF EndCapture
  <2>3. ToolsOK'
    BY <1>2, <2>1, <2>2 DEF ToolsOK, EndCapture
  <2> QED BY <2>2, <2>3 DEF ShownHolds
<1> QED BY <1>1, <1>2

LEMMA CallTools ==
  ASSUME ToolsOK, ShownHolds, NEW a \in Agents, CallStep(a)
  PROVE  ToolsOK' /\ ShownHolds'
<1> USE DEF ToolsOK, Finish, Refuse, hostVars
<1>1. CASE Ask(a)
  BY <1>1, CaptureAssumption DEF Ask, ShownHolds
<1>2. CASE ReadStatus(a)
  BY <1>2 DEF ReadStatus, ShownHolds
<1>3. CASE ListCaptures(a)
  <2>1. PICK lines \in Received(DockerPs) :
          /\ shown' = [shown EXCEPT ![a] = ParsePs(lines)]
          /\ steady' = [steady EXCEPT ![a] = lines = DockerPs]
    BY <1>3 DEF ListCaptures
  <2>2. ParsePs(lines) \in Seq(Containers)
    BY ListsInOrder, ReceivedType, ParsePsType
  <2>3. lines = DockerPs => ParsePs(lines) = running
    BY ListsInOrder
  <2>4. ToolsOK'
    BY <1>3, <2>1, <2>2, SMTT(30) DEF ListCaptures
  <2>5. running' = running /\ \A b \in Agents \ {a} : shown'[b] = shown[b] /\ steady'[b] = steady[b]
    BY <1>3, <2>1 DEF ListCaptures
  <2>6. steady'[a] => shown'[a] = running
    BY <2>1, <2>3
  <2>7. ShownHolds'
    <3> SUFFICES ASSUME NEW b \in Agents, steady'[b], NEW i \in DOMAIN shown'[b]
                 PROVE  i \in DOMAIN running' /\ running'[i] = shown'[b][i]
      BY DEF ShownHolds
    <3>1. CASE b = a
      BY <2>5, <2>6, <3>1
    <3>2. CASE b # a
      BY <2>5, <3>2 DEF ShownHolds
    <3> QED BY <3>1, <3>2
  <2> QED BY <2>4, <2>7
<1>4. CASE GetCapture(a)
  <2>1. CASE Refuse(a)
    BY <2>1 DEF ShownHolds
  <2>2. CASE ~Refuse(a)
    <3>0. PICK lines \in Received(DockerPs) : \E c \in Resolved(arg[a], ParsePs(lines)) :
            /\ answer' = [answer EXCEPT ![a] = IssueToken(c)]
            /\ steady' = [steady EXCEPT ![a] = @ /\ lines = DockerPs]
            /\ shown' = [shown EXCEPT ![a] = <<>>]
            /\ Finish(a)
      BY <1>4, <2>2 DEF GetCapture
    <3>1. PICK c \in Resolved(arg[a], ParsePs(lines)) :
            /\ answer' = [answer EXCEPT ![a] = IssueToken(c)]
            /\ steady' = [steady EXCEPT ![a] = @ /\ lines = DockerPs]
            /\ shown' = [shown EXCEPT ![a] = <<>>]
            /\ Finish(a)
      BY <3>0
    <3>2. ParsePs(lines) \in Seq(Containers)
      BY ListsInOrder, ReceivedType, ParsePsType
    <3>3. arg[a] \in RequestType /\ arg[a].tool = "get"
      BY <1>4 DEF GetCapture
    <3>4. IssueToken(c) \in Token
      BY <3>1, <3>2, <3>3, AnswerType
    <3>5. ToolsOK'
      BY <3>1, <3>4
    <3>6. ShownHolds'
      BY <3>1 DEF ShownHolds
    <3> QED BY <3>5, <3>6
  <2> QED BY <2>1, <2>2
<1>5. CASE Raise(a)
  BY <1>5 DEF Raise, ShownHolds
<1> QED BY <1>1, <1>2, <1>3, <1>4, <1>5 DEF CallStep

LEMMA NextTools ==
  ASSUME TypeOK, ShownHolds, [Next]_vars PROVE ToolsOK' /\ ShownHolds' /\ (url \in [Desktops -> Token \cup {NoToken}])'
<1> DEFINE UrlOK == url \in [Desktops -> Token \cup {NoToken}]
<1> USE DEF TypeOK
<1>1. CASE \E c \in Containers : HostStep(c)
  BY <1>1, HostTools DEF HostStep, batVars
<1>2. CASE \E a \in Agents : CallStep(a) /\ UNCHANGED <<batVars, relayVars, streamVars>>
  BY <1>2, CallTools DEF batVars
<1>3. ASSUME UNCHANGED toolVars PROVE ToolsOK' /\ ShownHolds'
  BY <1>3 DEF toolVars, hostVars, callVars, ToolsOK, ShownHolds
<1>4. CASE \E d \in Desktops : OpenUrl(d) \/ PreflightOver(d) \/ Quit(d)
  <2>1. UNCHANGED toolVars
    BY <1>4 DEF OpenUrl, PreflightOver, Quit
  <2>2. UrlOK'
    BY <1>4 DEF OpenUrl, PreflightOver, Quit, ToolsOK
  <2> QED BY <1>3, <2>1, <2>2
<1>5. CASE \E s \in Streams : StreamStep(s) \/ Chunk(s) \/ Sent(s) \/ Dropped(s) \/ ProcEnds(s)
  <2>1. UNCHANGED <<toolVars, batVars>>
    BY <1>5 DEF StreamStep, Endpoint, Connect, Launch, Started, CheckClient, Read, Finalize, Close, Chunk,
       Sent, Dropped, ProcEnds, Goto
  <2> QED BY <1>3, <2>1 DEF batVars
<1>6. CASE Stop \/ CancelStreams \/ Exit \/ Kill \/ Start
  <2>1. UNCHANGED <<toolVars, batVars>>
    BY <1>6 DEF Stop, CancelStreams, Exit, Kill, Start
  <2> QED BY <1>3, <2>1 DEF batVars
<1>7. CASE Tick
  BY <1>7, CaptureAssumption DEF Tick, hostVars, callVars, batVars, ToolsOK, ShownHolds
<1>8. CASE UNCHANGED vars
  BY <1>3, <1>8 DEF vars, batVars
<1> QED BY <1>1, <1>2, <1>4, <1>5, <1>6, <1>7, <1>8 DEF Next

LEMMA InitTools == Init => TypeOK /\ ShownHolds
<1> SUFFICES ASSUME Init PROVE TypeOK /\ ShownHolds
  OBVIOUS
<1>1. RelayOK
  BY InitIInv DEF IInv
<1>2. ToolsOK
  BY CaptureAssumption DEF Init, ToolsInit, ToolsOK, RequestType
<1> QED BY <1>1, <1>2 DEF Init, ToolsInit, TypeOK, ShownHolds

\* Every variable keeps its type, and every position that an agent may name
\* still means what it was shown, unless a capture ended or a line was lost.
THEOREM Lists == Spec => [](TypeOK /\ ShownHolds)
<1>1. Init => TypeOK /\ ShownHolds
  BY InitTools
<1>2. IInv' /\ TypeOK /\ ShownHolds /\ [Next]_vars => TypeOK' /\ ShownHolds'
  BY NextTools DEF TypeOK, IInv
<1> QED BY <1>1, <1>2, Invariance, PTL DEF Spec

\* Every list only has captures, and every URL a token for one.
THEOREM TypeCorrect == Spec => []TypeOK
BY Lists, PTL

\* get_capture answers a position with the capture that stood there.
LEMMA AnswersAsShown ==
  ASSUME ToolsOK, ShownHolds, [Next]_vars, NEW a \in Agents,
         answer'[a] # answer[a], arg[a].by = "position", steady'[a], arg[a].at \in DOMAIN shown[a]
  PROVE  answer'[a].container = shown[a][arg[a].at]
<1> USE DEF ToolsOK
<1>1. PICK b \in Agents : GetCapture(b)
  <2>1. answer' # answer
    OBVIOUS
  <2>2. ASSUME NEW c \in Containers, HostStep(c) PROVE UNCHANGED answer
    BY <2>2 DEF HostStep, StartCapture, EndCapture, callVars
  <2>3. ASSUME NEW b \in Agents, Ask(b) \/ ReadStatus(b) \/ ListCaptures(b) \/ Raise(b)
        PROVE  UNCHANGED answer
    BY <2>3 DEF Ask, ReadStatus, ListCaptures, Raise, Refuse
  <2>4. ASSUME \/ \E d \in Desktops : OpenUrl(d) \/ PreflightOver(d) \/ Quit(d)
               \/ \E s \in Streams : StreamStep(s) \/ Chunk(s) \/ Sent(s) \/ Dropped(s) \/ ProcEnds(s)
               \/ Stop \/ CancelStreams \/ Exit \/ Kill \/ Start \/ Tick \/ UNCHANGED vars
        PROVE  UNCHANGED answer
    BY <2>4 DEF OpenUrl, PreflightOver, Quit, StreamStep, Endpoint, Connect, Launch, Started, CheckClient,
       Read, Finalize, Close, Chunk, Sent, Dropped, ProcEnds, Goto, Stop, CancelStreams,
       Exit, Kill, Start, Tick, vars, toolVars, callVars
  <2> QED BY <2>1, <2>2, <2>3, <2>4 DEF Next, CallStep
<1>2. PICK lines \in Received(DockerPs) : \E c \in Resolved(arg[b], ParsePs(lines)) :
        /\ Resolved(arg[b], ParsePs(lines)) = {c}
        /\ answer' = [answer EXCEPT ![b] = IssueToken(c)]
        /\ steady' = [steady EXCEPT ![b] = @ /\ lines = DockerPs]
  BY <1>1 DEF GetCapture, Refuse
<1>3. b = a
  BY <1>2
<1>4. ParsePs(lines) = running /\ steady[a]
  BY <1>2, <1>3, ListsInOrder
<1> DEFINE at == arg[a].at
<1>5. at \in DOMAIN running /\ running[at] = shown[a][at]
  BY <1>4 DEF ShownHolds
<1>6. PICK c \in Resolved(arg[a], running) : answer'[a] = IssueToken(c)
  BY <1>2, <1>3, <1>4
<1>7. Resolved(arg[a], running) = {running[at]}
  BY <1>5 DEF Resolved
<1> QED BY <1>5, <1>6, <1>7 DEF IssueToken

\* A position that an agent names means the capture that it was shown there,
\* though get_capture lists the captures anew, unless one has ended since.
THEOREM PositionsKept == Spec => PositionsHold
<1>1. TypeOK /\ ShownHolds /\ [Next]_vars =>
        [\A a \in Agents :
           /\ answer'[a] # answer[a]
           /\ arg[a].by = "position" /\ steady'[a] /\ arg[a].at \in DOMAIN shown[a]
           => answer'[a].container = shown[a][arg[a].at]]_vars
  BY AnswersAsShown DEF TypeOK
<1> QED BY <1>1, Lists, PTL DEF Spec, PositionsHold
=============================================================================
