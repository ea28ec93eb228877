---------------------------- MODULE CaptureRelay ----------------------------
(***************************************************************************)
(* The capture relay (capture_relay/), a service of its own, composed with *)
(* the captures and the tools that hand out its URLs (CaptureTools), and   *)
(* with the desktops that open them (scripts/eve-capture.bat).             *)
(*                                                                         *)
(* A desktop asks for the stream twice with one token: a preflight, cut    *)
(* off after some seconds, and the real stream, which lasts until its      *)
(* client leaves or the capture ends.  Each stream is a task of the relay  *)
(* that runs dumpcap over SSH, and what ends dumpcap is that the task      *)
(* closes its SSH channel; a relay that is killed leaves dumpcap running.  *)
(***************************************************************************)
EXTENDS CaptureTools

CONSTANTS
  Desktops,       \* the runs of eve-capture.bat
  Skew,           \* the relay's clock minus that of the MCP server
  TokenRequired,  \* CAPTURE_RELAY_TOKEN_REQUIRED
  Grace,          \* _SHUTDOWN_TIMEOUT_SECONDS: how long uvicorn waits for streams
  Cleanup,        \* how long a cancelled stream takes to close its channel
  StopTimeout     \* TimeoutStopSec: when systemd kills the relay

ASSUME RelayAssumption ==
  /\ Skew \in Int /\ TokenRequired \in BOOLEAN
  /\ Grace \in Nat /\ Cleanup \in Nat /\ StopTimeout \in Nat
  /\ Grace + Cleanup < StopTimeout

Streams == Desktops \X {"preflight", "real"}
Preflight(d) == <<d, "preflight">>
Real(d) == <<d, "real">>

\* The places of a stream's task while dumpcap may run: in create_process, about
\* to ask whether the client is gone, in read, handing on a chunk, left at its
\* yield by a response that was cancelled, and in the exit of its context.
Held == {"starting", "checking", "reading", "sending", "abandoned", "closing"}
Admitted == Held \cup {"connecting", "done"}
Open == (Admitted \ {"done"}) \cup {"requested"}

VARIABLES
  bat,      \* bat[d]: where the script of desktop d is
  url,      \* url[d]: the token in the URL it was opened with
  relay,    \* "up", "stopping", "cancelled" (its streams were), or "down"
  stopAt,   \* when the last stop began, by the clock of the MCP server
  st,       \* st[s]: where the task of stream s is; "none": there is none
  gone,     \* gone[s]: the client of s has closed its connection
  proc      \* proc[s]: the dumpcap of s

batVars == <<bat, url>>
relayVars == <<relay, stopAt>>
streamVars == <<st, gone, proc>>
vars == <<toolVars, batVars, relayVars, streamVars>>

Init ==
  /\ ToolsInit
  /\ bat = [d \in Desktops |-> "closed"]
  /\ url = [d \in Desktops |-> NoToken]
  /\ relay = "up" /\ stopAt = 0
  /\ st = [s \in Streams |-> "none"]
  /\ gone = [s \in Streams |-> FALSE]
  /\ proc = [s \in Streams |-> "none"]
-----------------------------------------------------------------------------
(* The desktops *)

\* curl connects to the relay, or cannot.
Request(s) ==
  \E where \in {"none"} \cup {w \in {"requested"} : relay = "up"} :
    st' = [st EXCEPT ![s] = where]

\* plink streams from the host itself, if it is installed.
FallBack(d) == \E b \in {"plink", "exited"} : bat' = [bat EXCEPT ![d] = b]

OpenUrl(d) ==
  /\ bat[d] = "closed"
  /\ \E a \in Agents : answer[a] # NoToken /\ url' = [url EXCEPT ![d] = answer[a]]
  /\ \/ bat' = [bat EXCEPT ![d] = "preflight"] /\ Request(Preflight(d))
     \/ FallBack(d) /\ UNCHANGED st
  /\ UNCHANGED <<toolVars, relayVars, gone, proc>>

\* curl ends, at --max-time at the latest.  The relay sends the 200 before the
\* stream's task connects anywhere.
PreflightOver(d) ==
  /\ bat[d] = "preflight"
  /\ gone' = [gone EXCEPT ![Preflight(d)] = TRUE]
  /\ \/ /\ st[Preflight(d)] \in Admitted
        /\ bat' = [bat EXCEPT ![d] = "curl"] /\ Request(Real(d))
     \/ FallBack(d) /\ UNCHANGED st
  /\ UNCHANGED <<toolVars, url, relayVars, proc>>

\* Wireshark is closed, or its input ended.
Quit(d) ==
  /\ bat[d] \in {"curl", "plink"}
  /\ bat' = [bat EXCEPT ![d] = "exited"]
  /\ gone' = [gone EXCEPT ![Real(d)] = TRUE]
  /\ UNCHANGED <<toolVars, url, relayVars, st, proc>>
-----------------------------------------------------------------------------
(* A stream *)

Goto(s, from, to) ==
  /\ st[s] = from
  /\ st' = [st EXCEPT ![s] = to]
  /\ UNCHANGED <<toolVars, batVars, relayVars, gone>>

Expired(token) == TokenRequired /\ clock + Skew >= token.exp

Endpoint(s) ==
  /\ Goto(s, "requested", IF Expired(url[s[1]]) THEN "refused" ELSE "connecting")
  /\ UNCHANGED proc

\* asyncssh.connect succeeds, or raises.
Connect(s) ==
  /\ \E to \in {"starting", "done"} : Goto(s, "connecting", to)
  /\ UNCHANGED proc

\* The host starts dumpcap, though its task may have been cancelled by now; in a
\* container that has ended the command fails.
Launch(s) ==
  /\ st[s] \in {"starting", "closing"} /\ proc[s] = "none"
  /\ proc' = [proc EXCEPT ![s] =
       IF url[s[1]].container \in ToSet(running) THEN "running" ELSE "ended"]
  /\ UNCHANGED <<toolVars, batVars, relayVars, st, gone>>

\* create_process succeeds, or raises.
Started(s) ==
  /\ \/ Goto(s, "starting", "checking") /\ proc[s] # "none"
     \/ Goto(s, "starting", "closing")
  /\ UNCHANGED proc

CheckClient(s) ==
  /\ Goto(s, "checking", IF gone[s] THEN "closing" ELSE "reading")
  /\ UNCHANGED proc

\* dumpcap has captured something.
Chunk(s) == Goto(s, "reading", "sending") /\ UNCHANGED proc

\* Mutant of Read: the read waits for a chunk or the end of the output.
ReadUntimed(s) == Goto(s, "reading", "closing") /\ proc[s] = "ended" /\ UNCHANGED proc

\* read times out, or returns nothing at the end of the output.
Read(s) ==
  /\ \/ Goto(s, "reading", "checking")
     \/ Goto(s, "reading", "closing") /\ proc[s] = "ended"
  /\ UNCHANGED proc

\* The chunk is written; a client that is gone no longer holds it up.
Sent(s) == Goto(s, "sending", "checking") /\ UNCHANGED proc

\* The event loop finalizes a generator that was left at its yield.
Finalize(s) == Goto(s, "abandoned", "closing") /\ UNCHANGED proc

\* The exit of streaming_process closes the channel, which ends dumpcap.
Close(s) ==
  /\ Goto(s, "closing", "done")
  /\ proc' = [proc EXCEPT ![s] = "ended"]

\* Where a task goes that is cancelled at place w.
CancelledAt(w) ==
  CASE w \in {"requested", "connecting"} -> "done"
    [] w \in {"starting", "checking", "reading"} -> "closing"
    [] w = "sending" -> "abandoned"
    [] OTHER -> w

\* Starlette may cancel the response of a client that is gone.
Dropped(s) ==
  /\ gone[s] /\ st[s] \in Open \ {"requested"}
  /\ Goto(s, st[s], CancelledAt(st[s])) /\ UNCHANGED proc

\* dumpcap fails, or the SSH connection is lost.
ProcEnds(s) ==
  /\ proc[s] = "running"
  /\ proc' = [proc EXCEPT ![s] = "ended"]
  /\ UNCHANGED <<toolVars, batVars, relayVars, st, gone>>

StreamStep(s) ==
  \/ Endpoint(s) \/ Connect(s) \/ Launch(s) \/ Started(s)
  \/ CheckClient(s) \/ Read(s) \/ Finalize(s) \/ Close(s)
-----------------------------------------------------------------------------
(* The service *)

\* Mutant of CancelAt: uvicorn's default, which is to wait for ever.
NoCancel == MaxTime + 1

CancelAt == stopAt + Grace
KillAt == stopAt + StopTimeout

\* systemctl stop.  Bound: the stop is over by MaxTime.
Stop ==
  /\ relay = "up" /\ clock + StopTimeout <= MaxTime
  /\ relay' = "stopping" /\ stopAt' = clock
  /\ UNCHANGED <<toolVars, batVars, streamVars>>

Exit ==
  /\ relay \in {"stopping", "cancelled"}
  /\ \A s \in Streams : st[s] \notin Open
  /\ relay' = "down"
  /\ UNCHANGED <<toolVars, batVars, stopAt, streamVars>>

CancelStreams ==
  /\ relay = "stopping" /\ clock >= CancelAt
  /\ relay' = "cancelled"
  /\ st' = [s \in Streams |-> CancelledAt(st[s])]
  /\ UNCHANGED <<toolVars, batVars, stopAt, gone, proc>>

Kill ==
  /\ relay \in {"stopping", "cancelled"} /\ clock >= KillAt
  /\ relay' = "down"
  /\ st' = [s \in Streams |-> IF st[s] \in Open THEN "done" ELSE st[s]]
  /\ UNCHANGED <<toolVars, batVars, stopAt, gone, proc>>

Start ==
  /\ relay = "down"
  /\ relay' = "up"
  /\ UNCHANGED <<toolVars, batVars, stopAt, streamVars>>

\* Timers are served when they are due: uvicorn cancels at CancelAt, and the
\* streams it cancels are closed Cleanup later.
Tick ==
  /\ clock < MaxTime
  /\ relay = "stopping" => clock < CancelAt
  /\ (relay = "cancelled" /\ \E s \in Streams : st[s] \in Open) => clock < CancelAt + Cleanup
  /\ clock' = clock + 1
  /\ UNCHANGED <<hostVars, callVars, batVars, relayVars, streamVars>>

\* dumpcap ends with the container it runs in.
HostStep(c) ==
  \/ StartCapture(c) /\ UNCHANGED <<batVars, relayVars, streamVars>>
  \/ /\ EndCapture(c)
     /\ proc' = [s \in Streams |->
          IF proc[s] = "running" /\ url[s[1]].container = c THEN "ended" ELSE proc[s]]
     /\ UNCHANGED <<batVars, relayVars, st, gone>>
-----------------------------------------------------------------------------
Next ==
  \/ \E c \in Containers : HostStep(c)
  \/ \E a \in Agents : CallStep(a) /\ UNCHANGED <<batVars, relayVars, streamVars>>
  \/ \E d \in Desktops : OpenUrl(d) \/ PreflightOver(d) \/ Quit(d)
  \/ \E s \in Streams : StreamStep(s) \/ Chunk(s) \/ Sent(s) \/ Dropped(s) \/ ProcEnds(s)
  \/ Stop \/ CancelStreams \/ Exit \/ Kill \/ Start \/ Tick

Spec == Init /\ [][Next]_vars

\* The relay's event loop runs every task that can go on; a chunk need not come,
\* nor a client take it.
FairSpec ==
  /\ Spec
  /\ \A s \in Streams : WF_vars(StreamStep(s)) /\ WF_vars(gone[s] /\ Sent(s))
-----------------------------------------------------------------------------
RelayOK ==
  /\ bat \in [Desktops -> {"closed", "preflight", "curl", "plink", "exited"}]
  /\ relay \in {"up", "stopping", "cancelled", "down"} /\ stopAt \in 0..MaxTime
  /\ st \in [Streams -> Admitted \cup {"none", "requested", "refused"}]
  /\ gone \in [Streams -> BOOLEAN]
  /\ proc \in [Streams -> {"none", "running", "ended"}]

\* Every variable has its type; in particular a list only has captures, and
\* every URL a token for one.
TypeOK == ToolsOK /\ RelayOK /\ url \in [Desktops -> Token \cup {NoToken}]

\* A dumpcap that runs on the host belongs to a task of the relay that will
\* still close its channel: however the desktops leave, and whenever the relay
\* is stopped, no dumpcap is left behind.
NoOrphan ==
  \A s \in Streams : proc[s] = "running" => st[s] \in Held /\ relay # "down"

\* What NoOrphan rests on: streams are cancelled, and closed, before systemd
\* loses patience.
StopsInTime ==
  /\ relay = "stopping" => clock \in stopAt..CancelAt
  /\ relay = "cancelled" =>
       /\ CancelAt <= clock
       /\ \A s \in Streams : st[s] \in Open =>
            st[s] \in {"abandoned", "closing"} /\ clock <= CancelAt + Cleanup
  /\ relay = "down" => \A s \in Streams : st[s] \notin Open

\* A stream is only asked for once, by a script that got this far.
AskedOnce ==
  \A d \in Desktops :
    /\ bat[d] = "closed" => st[Preflight(d)] = "none"
    /\ bat[d] \in {"closed", "preflight"} => st[Real(d)] = "none"

\* What PositionsHold rests on: while no capture ends, what an agent was shown
\* is how the list of the captures still begins.
ShownHolds ==
  \A a \in Agents : steady[a] =>
    \A i \in DOMAIN shown[a] : i \in DOMAIN running /\ running[i] = shown[a][i]

\* The inductive invariant.
IInv == RelayOK /\ clock \in 0..MaxTime /\ NoOrphan /\ StopsInTime /\ AskedOnce

\* An agent that picks a position of the list it was shown gets the capture
\* that stood there, though get_capture resolves the position against a fresh
\* list, unless a capture has ended since: captures that start come last.
PositionsHold ==
  [][\A a \in Agents :
       /\ answer'[a] # answer[a]
       /\ arg[a].by = "position" /\ steady'[a] /\ arg[a].at \in DOMAIN shown[a]
       => answer'[a].container = shown[a][arg[a].at]]_vars

\* Once the client of a stream is gone, the stream's task ends, and with it
\* its dumpcap, though the capture is quiet and nothing is left to write to
\* the client.
StreamsEnd == \A s \in Streams : gone[s] ~> st[s] \notin Open /\ proc[s] # "running"
=============================================================================
