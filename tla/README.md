# Verification of mcp_eveng

`mcp_eveng` is an MCP server through which AI agents operate EVE-NG, a network
emulator: they create labs, add nodes and networks, wire interfaces, edit, start
and delete what is there. An agent sends several tool calls at once, each tool
is a sequence of HTTP requests that reads the lab, decides and writes, and
EVE-NG offers no transactions. This project states in TLA+ what the server does
between two requests, what it promises about the lab, and checks and proves that
it keeps the promise.

Source paths below are relative to `src/src/mcp_eveng/`.

## 1. Inventory

### Components

| component | state it keeps | operations | depends on |
|---|---|---|---|
| **per-lab lock** (`dependencies.py` 49-104) | `_lab_locks`: lab path -> `asyncio.Lock` (flag, deque of futures) | enter and leave `lab_lock(path)`, cancellation while waiting | the event loop |
| **EVE-NG client** (`client.py`, `dependencies.py` 26-46) | one `httpx` client, its cookie, `_authenticated`; the process-wide singleton and its lock | `login`, `_request` with one relogin and retry on 400/401/412, `get_client`, `close_client`, one method per REST endpoint, breadth-first `list_all_labs` and `list_all_folders` | EVE-NG, which allows one session per user |
| **connect_interface** (`tools/nodes.py` 1360-1854) | none between calls | choose interfaces, check, stop, create a bridge, poll, wire, hide | lab lock, client |
| **node tools** (`tools/nodes.py`) | none between calls | add, edit, bulk edit, delay, start, stop, wipe, export, delete | lab lock, client, confirmation, placement |
| **network tools** (`tools/networks.py`) | none between calls | list, add, edit, delete | lab lock, client, confirmation |
| **selection and confirmation** (`confirmation.py`) | none: every call searches again | `resolve_selection`, `run_delete_flow` | - |
| **canvas placement** (`tools/nodes.py` 205-270) | none | `_next_free_position` | client |
| **lab tools** (`tools/labs.py`) | none | create, edit (locked), move, delete, share (not locked) | client, confirmation |
| **link quality** (`tools/quality.py`) | none | get and set, not locked | client |
| **folder tools** (`tools/folders.py`) | none | list, add, move, delete if empty | client, confirmation |
| **user tools** (`tools/users.py`) | none | list, get, add, edit, delete (a dialogue) | client, confirmation |
| **system, meta tools** | none | single read-only requests | client |
| **node console** (`tools/console.py`, `telnet.py`) | one telnet connection per call: transcript, pending tail | connect with retries, send commands, read until idle | EVE-NG's console ports |
| **capture tools** (`tools/capture.py`, `capture_relay/tokens.py`) | none; the token carries what the relay must know | list captures, pick one by position or container and mint its token | client (edition), SSH to the EVE-NG host |
| **capture relay** (`capture_relay/`) | one SSH process per stream | verify a token, stream until disconnect or end, shut down | uvicorn, systemd, SSH |
| **desktop capture client** (`scripts/eve-capture.bat`) | none | preflight, stream, fall back to plink | the relay |
| **tool visibility, logging, configuration, transports** | settings read at start | registration, formatting, process life cycle | the `mcp` SDK |

### How they interact

All tools run as asyncio tasks on one thread and share one client. A tool
suspends only at a request, a sleep or a lock, so the unit of interleaving is
the request. Tools on one lab share the lab itself, which lives in EVE-NG; most
of those that change nodes or networks wrap their whole body in
`lab_lock(lab_path)`. Nothing is remembered from call to call: a numbered list
that an agent answers is computed again, and a confirmation is just an argument.
The capture relay is a service of its own: it shares a secret with the MCP server and
nothing else, and what it is told reaches it through the agent and a desktop, in a token.

### What is hard

* *Interleaving*: what a tool has read may be false when it acts on it. The lock
  is the only defence, and it is held across a dozen requests.
* *Cancellation*: a client that disconnects cancels the task at any await, also
  between the wake-up of a waiting call and its first step.
* *Failure*: any request can fail after earlier ones took effect, and a reply can
  be lost although EVE-NG did what was asked.
* *Processes on another host*: a stream of the relay runs a `dumpcap` over SSH, which only
  ends if the relay's task gets to close its channel, whoever leaves first: the client, the
  capture, or the relay itself, under two timeouts that race each other.
* *EVE-NG's own behaviour*, which the tools work around: a node edit without
  name or position is rejected, so other edits resend the name that was read; a
  network that is hidden while nothing is attached is deleted; a created network
  may show up late or never; Community cannot wire the interfaces of a running
  node; no edition can edit a running node.

### What makes each component correct

* lock: one call per lab inside, in order of arrival, nobody left waiting by a
  cancellation, labs independent of each other.
* connect_interface: no interface is disconnected without confirmation; nothing is
  wired on a running node on Community; a reported line is exactly the two
  interfaces that were asked for.
* node tools: no running node is edited; the padding never undoes a rename; no
  unconfirmed duplicate name; automatic places do not pile up; deletion deletes
  what was matched.
* network tools: hiding never deletes; padding never renames.
* all tools: every call ends and gives the lab back.
* client: a request is retried in a valid session; nothing is sent twice if it was
  carried out. Confirmation: what is deleted is what was shown under that number.
  share_lab and set_link_quality: no update is lost. Folder walks: every folder
  below the start, once, also under concurrent moves. Placement: never within the
  overlap radius of an existing node. Telnet: the transcript does not depend on
  how the stream is cut into reads. Capture tools: a position means the capture that was
  shown there. Relay: each stream ends after its client, and no `dumpcap` outlives its task.

`PROJECT.json` lists the hazards one by one, each at its line.

## 2. Modules

| module | models | state |
|---|---|---|
| `LabMutex` | abstract: a first-come first-served mutex per lab | `owner`, `queue` |
| `LabLock` | `lab_lock` and `asyncio.Lock`: every step a task takes between two suspensions, with cancellation | `pc`, `lab`, `fut`, `locks`, `locked`, `waiters` |
| `LabLockProofs` | theorems about `LabLock` | - |
| `LabCalls` | what the tools share: the lab in EVE-NG, the effect of each request on it, and the life of a call (called, waits for the lock, inside, answered) | the lab: `nodes`, `running`, `nodeName`, `place`, `wire`, `nets`, `hidden`, `netName`; the calls: `holder`, `pc`, `arg`, `loc`, `reply` |
| `Selection` | `resolve_selection` and the choice of targets in `run_delete_flow`, as operators | - |
| `Canvas` | the grid of automatic places and `_next_free_position`, as operators on coordinates | - |
| `ConnectInterface` | `connect_interface` | (of `LabCalls`) |
| `NodeTools` | start, stop, edit, bulk edits, add, delete | (of `LabCalls`) |
| `NetworkTools` | add, edit, delete | (of `LabCalls`) |
| `LabTools` | the composition: any number of calls of all these tools on one lab; the properties and the inductive invariant | (of `LabCalls`) |
| `LabToolsProofs` | theorems about `LabTools` | - |
| `Session` | `get_client`, `login` and `_request` of the one client, with relogin and retry, over an EVE-NG that keeps one session per account | EVE-NG: `valid`; the client: `jar`, `authenticated`, `lock`; the calls: `pc`, `cookie`, `answer`, `outcome`; history: `rival`, `carried` |
| `SessionProofs` | theorems about `Session` | - |
| `UserTools` | the dialogues of `share_lab` and `delete_user`, and `add_user` | EVE-NG: `users`, `shared`; the calls: `pc`, `arg`, `targets`, `existing`; history: `shown`, `accepted`, `since` |
| `UserToolsProofs` | theorems about `UserTools` | - |
| `Telnet` | `telnet_node`, `telnet_session` and the byte processing of `telnet.py` | the session: `pc`, `attempt`, `left`, `pending`, `transcript`, `replied`; the connection: `arrived`, `closed`; history: `ideal`, `risky`, `sent` |
| `TelnetProofs` | theorems about `Telnet` | - |
| `CaptureTools` | `list_captures`, `get_capture`, and the captures that come and go on the host | the host: `running`, `ended`; `clock`; the calls: `pc`, `arg`, `answer`; history: `shown`, `steady` |
| `CaptureRelay` | the relay's endpoint, streaming loop and shutdown, composed with `CaptureTools` and with the desktops that open the URLs | the desktops: `bat`, `url`; the service: `relay`, `stopAt`; the streams: `st`, `gone`, `proc` |
| `CaptureProofs` | theorems about `CaptureTools` and `CaptureRelay` | - |
| `LinkQuality` | `get_link_quality`, `set_link_quality` | EVE-NG: `ends`, `links`, `live`, `saved`, `reports`; the calls: `pc`, `arg`, `link`, `read`, `answer`; history: `want`, `stale`, `crossed`, `spoilt`, `truth` |
| `LinkQualityProofs` | theorems about `LinkQuality` | - |
| `Folders` | `list_all_labs`, `list_all_folders`, and the tools that walk with them: `list_labs`, `delete_lab`, `delete_folder`; `create_lab`, `move_lab`, `add_folder`, `move_folder` as what others do meanwhile | EVE-NG: `folders`, `labs`; the call: `pc`, `arg`, `visited`, `queue`, `found`, `target`; history: `stays`, `inTime`, `changes` |
| `FoldersProofs` | theorems about `Folders` | - |
| `MCLabLock`, `MCLabTools`, `MCSession`, `MCUserTools`, `MCTelnet`, `MCLinkQuality`, `MCFolders`, `MCCapture` | instances for TLC: requests, initial states, symmetry | - |

**How actions correspond to code.** In the tool modules `pc[c]` is the request
call `c` is waiting for, and the action named after that request is EVE-NG's
handling of it *and* everything the tool does with the reply up to its next
request. So `ReadSource` is the reply to `get_node_interfaces`, the resolution of the
source interface, the check that it is free, and the choice of the next request.
Every early return is `Refuse`, the end of the function is `Finish`, an exception
(or a cancellation) at any request is `Raise`, and each of the three leaves the
`async with lab_lock` block and frees the lock. A request that EVE-NG carries out
although its reply is lost is its action followed by `Raise`.

In `Session` a request is three steps: `Send` (the cookie is taken from the jar), EVE-NG's
handling (`Serve`, `ServeLogin`), and the reply with all that `_request` does with it
(`Answered`, `ReloginAnswered`, `RetryAnswered`, `LoginAnswered`), because here the
order of the handling and of the reply matters. A login has a step between: `StoreCookie`, when the headers are
there and httpx puts the cookie into the jar; the body is read after that, and until then another login may replace the
cookie. A status of 400 may mean a lost
session or a request that is not valid; `NeedsRelogin` cannot tell them apart, as the
code cannot. `close_client` (after the last call) and `logout` (no tool calls it) are left
out.

In `UserTools` and `Folders` a conversation is several calls. When a call would
answer with a list to choose from or with a request to confirm, it goes to `"asked"`;
`Accept` is the agent calling again with the choice or with `confirm`. That call starts
from its first request, as in the code, and nothing but its arguments survives. `shown` and
`accepted` remember what the agent has agreed to, so that it can be compared with what is done.

`Telnet` has the two loops of `telnet_session`, the attempts and the reading until a
read times out, with the console's `ConsoleSends` and `ConsoleCloses` at any time. `_process_telnet_bytes`
is a function of one piece, `Process`: `Turn` is one turn of its loop, given what the loop makes of the later positions.
`ideal` is what the same bytes give when they are read one by one, as they arrive, with the state that RFC 854 asks for;
the two are compared whenever all that arrived is processed. Bytes are the roles they can play, not their values.

In `LinkQuality` one `PUT` carries both sides, so a call for one side reads the other and
sends it back. Whether EVE-NG's topology shows what is in effect or what is saved cannot
be told from the code, so `reports` is either. `AsTold` compares each interface with what
its own calls were told (`want`), except where it is known what spoils it; `ReportsTheNearEnd`
compares each answer with what the topology said (`truth`). `connect_interface` lets a node be connected to itself, and
there the comparison of nodes goes wrong (see what the properties leave open, below): a call asked for the destination is `crossed`. What it
sends names the source by one interface's label and the other's id, so `Payloads` has what EVE-NG makes of either.

In `Folders` one `Visit` is one `GET /folders` of the walk; `Decide` has what a tool does
with the finished walk; everything that other calls and other users do to the tree is
`Elsewhere`, between any two requests, at most `MaxChanges` times. EVE-NG's own answer to the
deletion of a folder with contents is not known from the code, so it may delete it.
A request about what is gone by then ends the call (`Gone`), as any other failure does (`Raise`).

In `CaptureTools` both tools ask for the edition (`ReadStatus`) and run `docker ps` on the host; what
is parsed of it is the list of captures, the oldest first, less the lines that were garbled (`Received`). `ListCaptures`
remembers what the agent was shown (`shown`) and whether the list still numbers the captures as it did
(`steady`), to compare them with the capture that `GetCapture` resolves against a list of its own.

In `CaptureRelay` `st[s]` is the await at which the task of stream `s` is, from the endpoint
through the loop of `_stream_capture` to the exit of `streaming_process`'s context, which is what ends the
`dumpcap` on the host (`Close`). Between the connection and the loop it is `"starting"`: the host may have started the
`dumpcap` (`Launch`) before the task hears of it (`Started`), and also if the task is cancelled in that moment, so that the
exit of the connection has a `dumpcap` to end. `CancelledAt` says where a cancellation leaves a task: at an await inside the
context it runs the exit; at the `yield` the response is cancelled and not the generator, which
the event loop finalizes later (`Finalize`). `Stop` is systemd's SIGTERM: uvicorn lets streams go on for `Grace`
seconds (`_SHUTDOWN_TIMEOUT_SECONDS`), cancels them (`CancelStreams`), and leaves when they have ended (`Exit`); `Kill`
comes `StopTimeout` seconds after `Stop` (`TimeoutStopSec`). A desktop is one run of the script: a preflight and,
if it was answered with 200, the stream.

**How data is abstracted.** Names are members of a small set; a search is the set
of names (or of interfaces) that contain its text; a place on the canvas is a pair
of integers; a node's other fields are one field, `"other"`; a network's position and
decoration are left out. A node that runs is in `running`; a status or a name that
is missing from a record is a nondeterministic choice at the point where it is
read. A selection is a set of list numbers or a set of exact names; a digit token
beyond the end of a list is tried as a name by the code, hence is a name here.
`change_node_delay` with names searches once per name, under the lock; the result
is an order over one list, which is what `order` of a bulk request is. Users are numbers,
in the order of a list. A quality has as many fields as the run gives it. A path is its place in a list of all paths, sorted as the code sorts. A token is
the record of its payload: it is signed, so those that are accepted are those that were issued. A chunk of a
capture has no contents.

**Assumptions.** In the modules composed by `LabTools`, only this server changes the lab while its
calls are open: the lock cannot say anything about a human in EVE-NG's own GUI. The other modules let others
change what the tools read. A request takes effect
before its call goes on, or not at all: when `httpx` gives up on a request that EVE-NG is still working on, the
call ends and frees the lab, and the request may take effect while the next call is inside. Nothing in
`src/` could hold the lock for a request it has given up, so in that case the code promises
none of the properties of `LabTools`. EVE-NG lists nodes by ascending id. EVE-NG's handlers are modelled from what
the code sends and expects and from what its comments report of live servers; they
are marked external where no client method stands for them.

## 3. What TLC checks

| run | question | instance |
|---|---|---|
| `lock` | does the registry of asyncio locks implement a FIFO mutex per lab, is any wake-up lost, does every waiting call stop waiting, does the invariant of the proofs hold? | 4 tasks, 2 labs, any task cancelled at any time while it waits |
| `wiring` | connect_interface (by index, by search, by number, to a node, to a network by id and by name, confirmed or not) against itself and the loops that start, edit and delete nodes; does every call end, loops and polls included? | 2 calls, 2 nodes with 2 interfaces, 2 network ids, Community |
| `editing` | the tools that edit, add, start, stop and delete nodes, and the network tools with those that attach and detach; does the invariant of the proofs hold? | 2 calls, up to 3 nodes with an interface, 1 network id, 3 names, Community |
| `session` | do lost sessions heal, is anything carried out twice, does anything go out before a login, does every wait end? | 2 calls with any number of requests each, 5 cookies, others log in too |
| `dedicated_account` | *violation*: nobody else on the account, and yet a request fails as unauthorized | 2 calls, 5 cookies |
| `user_tools` | what do the dialogues of share_lab and delete_user guarantee while users come and go? | 2 conversations, 3 users, lists of at most 2 |
| `delete_drift` | *violation*: a confirmed deletion by number deletes a user who was not shown | as `user_tools` |
| `telnet` | does the transcript depend on where the stream is cut, and does a session end, through retries, reads and closes? | every legal stream of up to 8 bytes, up to 3 pieces, 2 attempts |
| `telnet_cut` | *violation*: a subnegotiation that is cut becomes text | as `telnet`, 1 attempt |
| `link_quality` | does each interface have the quality it was told to have, is the right end reported, does the invariant of the proofs hold? | 2 calls, 3 interfaces and a network, 4 connections (one of a node to itself), 2 fields |
| `folders` | does a walk find what is there all the time, only below its start, does it end, is a folder that is deleted empty, does the invariant of the proofs hold? | 6 paths, depth 2, ceiling at 4 folders, 3 changes by others |
| `capture` | does a position mean what was shown, is a `dumpcap` left behind, does every stream end after its client? | 2 captures, 1 agent, 1 desktop with its two streams, 5 instants of the clock, clocks 1 apart |

**Properties.** `MutualExclusion`, `NoLostWakeup` and `ImplementsMutex` (the
refinement of `LabMutex`) are about the lock; `NoStarvation` its liveness.
`WiredWhileStopped` and `EditedWhileStopped` say that when a request is on its way
that EVE-NG only carries out on a stopped node, the node is stopped *now*, not
just when it was looked at. `NoSilentRewire`, `LineDrawn`, `PaddingNeverRenames`,
`NoSilentDuplicate`, `HideNeverDeletes`, `DeletesWhatMatched` and `NoPileUp` are action
properties: what a step of any call may never do to the lab. `CallsFinish` is the
liveness of the tools. `HealsUnlessRival`, `NeverTwice` and `LoggedInFirst` say what the
transparent relogin is for: it heals what was lost before, does nothing twice, and is
not needed for the first request. `HealsUnlessRival` is all that a single retry can
give; the stronger `DedicatedAccountSuffices` is what the guide says. `EveryWaitEnds` is the
liveness of the client. `IInv` in `LabLock`, `LabTools`, `Session`, `UserTools`, `LinkQuality` and `Folders` is the
inductive invariant; where a run checks it, the type invariant is one of its conjuncts.

`LosesOnlyInRace` and `NamedDeletesAsShown` are what the code keeps of two wider promises (see
the findings): a share is only lost if it was added after the loser's reading, and
a deletion by exact name deletes whom it showed. `CutsDoNotShow` says the same of the
telnet stream: as long as no piece ends inside a subnegotiation and none has an escaped 255 in one,
transcript and replies are those of the uncut stream. `AsTold` bounds what the far side of
`set_link_quality` can do wrong: only a call that had read something older, or something
not saved, changes what an interface was told, or one for the destination of a connection of its node to itself.
`ReportsTheNearEnd` is about which side is which: both are reported as the topology has them, networks included, and
swapped only for such a destination. `FindsLabsThatStay` and `FindsFoldersThatStay` say that a walk below its ceilings finds
everything that is there from its start to its end, `StaysBelowStart` that it finds nothing else than
what is below its start, and `EmptyUnlessInTime` that a folder is only deleted with contents if
these came after the look into it. `SessionEnds` and `WalksEnd` are liveness.
`PositionsHold` says that a position of the list an agent was shown still means the same capture in
`get_capture`'s own list, unless a capture ended or a line was lost: captures that start come last, which is why
`docker ps` is turned round. `NoOrphan` says that whenever a `dumpcap` runs, a task of a relay that has not gone
will still close its channel; `StreamsEnd` that once a client has left, its stream and its `dumpcap` end, even if the
capture is silent. `NoPileUp` is about nodes for which neither coordinate was given.

**Bounds, and why they are enough.** The lock's code distinguishes the first waiter,
the others and a newcomer, so four tasks give it one inside, two waiting (one of
them cancelled) and one arriving. The tools only meet through the lab and the lock;
a third call would wait while the first two take turns, and two calls already let
every tool run before, between the calls of, and after every other tool, on labs
the other one has changed. Two nodes are a line's two ends, a third appears by
`add_lab_node`; ids are reused after a deletion. `PollAttempts` is 2 instead of 5: the
poll distinguishes the last attempt from the others. The request sets name every branch
of each tool at least once. Of a cookie only matters whether it is the one that is
valid, so there are as many as can be in use at once and one more; two calls can log in
over each other, or one waits for `get_client` while the other sends, and a third party can end
any session. (`SessionProofs` is for any number of calls.) Three users give
lists below, at and above the limit of 2, and a number that shifts when one is deleted.
Eight bytes in three pieces hold a whole subnegotiation with text and a command around it,
cut at two places; a session keeps nothing else from one piece to the next than `pending`. Three
interfaces are the two ends of a connection and one that shares a node with an end, the network
is an end without quality; the two of one node can be connected to each other. The walk only looks at a folder once, so that the interesting changes are
those before, between and after two visits; three changes move a folder out of the part
that is still to be walked, and back. The deepest path is 3 levels down and up to 5 folders are within depth 2,
so both ceilings are reached, by some trees and not by others. A desktop's two streams are one that ends
and one that begins while it does; streams share the service and nothing else. The seconds are as few as order the
timers: `Grace` and `Cleanup` are 1, `StopTimeout` is 3, one more than their sum, where the code has 5 and 20. The clock
stops at `MaxTime`, and `Stop` only comes while there is time for `Kill`; an agent asks until it has
its URL, and a desktop opens one.

**Fairness.** In `LabLock` the event loop runs every task that is scheduled, and every
block ends. In `LabTools` a call inside the block goes on (weak fairness), since each
request is answered, fails or runs into httpx's timeout; that a call waiting for the
lock gets it (strong fairness of `Enter`) is what `NoStarvation` and `ImplementsMutex`
show of the lock. `Session` assumes the same of its requests (`Progress`) and of
`get_client`'s lock, which is an `asyncio.Lock` as well. Nothing obliges an agent to call
a tool, and `Raise` is never forced. In `Telnet` the session goes on (`WF` of its own steps, each with a timeout); the
console falls silent after `MaxBytes` bytes: a console that never pauses for
`idle_timeout` does keep the session of the code for ever. In `Folders` each request of a walk is
answered or fails. In `CaptureRelay` the task of a stream goes on wherever it waits for something with a timeout
or for nothing (`StreamStep`); it is not assumed that a chunk ever comes, nor that a client
takes one, only that a write to a client that has left returns. Deadlock is an error in every run but those of `Telnet`, whose
one session really ends, and of `capture`, where it all may end: the captures, the clock and the scripts.

**Findings.** Three runs state what a text of the repository says and find it refuted.

* `dedicated_account`: the guide says that a dedicated account "rules this class of issue
  out entirely" (`docs/tools-reference.md` 112-114). It does not: this client's own calls can
  log in over each other. One call's request is rejected for its parameters (a 400), so
  it sets `_authenticated` to false and logs in again, outside of `get_client`'s lock; a
  second call in `get_client` sees the flag and logs in as well; the first call's retry then
  goes out in a session that has been ended, and its error is "unauthorized" and not
  the "identical" one of `client.py` 154-156.
* `delete_drift`: the call with `confirm=true` searches again, and a number means another
  user when somebody was added or deleted since (`confirmation.py` 81); the docstring
  promises that the items reported back are those that the next call deletes (15-18).
* `telnet_cut`: a subnegotiation that is not finished in its piece is forgotten
  (`telnet.py` 59), and its rest is taken for text, or for a command. The docstring says that
  what is cut off is kept (39-42).

**What the properties leave open.** The other properties hold because they name the exception
that the code allows. A reader who takes the texts literally should know these:

* `LosesOnlyInRace`: `share_lab` sends the whole list it has read and merged (`tools/labs.py`
  210), without `lab_lock`, so of two calls at once one takes away the other's new
  share ("Existing shares are always preserved", `docs/tools-reference.md` 638-640).
  Its confirmed call also takes a single match whatever the selection says (line 158), and it
  numbers an "all" item (180-182) that it does not accept by number (line 164).
* `HealsUnlessRival` excepts a request whose session was ended again by another login, and one during which another login's
  cookie came into the jar: EVE-NG may have handled that login first, and its reply may still come last, so that
  the retry goes out with a cookie that has already been replaced (`rival`).
* `AsTold`: `set_link_quality` sends the far side's values back as it has read them, with one
  `save` for both sides (`tools/quality.py` 499, 551). "Leaving all four unset preserves the far
  side exactly as it was" (388-389) fails for two calls at once, and for two calls in turn of
  which the first does not save; these are `stale` and `spoilt`.
* `AsTold` and `ReportsTheNearEnd` except the destination of a connection of a node to itself, which
  `connect_interface` permits (`tools/nodes.py` 1615-1616). The near side is found by the node alone
  (`tools/quality.py` 270, 454), though the connection was found by node and label (`_find_connection`), and is then always
  the source. So `get_link_quality` reports the two ends the other way round (`Swap`), and `set_link_quality` sends the
  near side's values with the source's label and the destination's `interfaceId`, and reads the far side's from the
  very interface it was asked to set (`crossed`, `spoilt`).
* `LineDrawn` allows for one interface as both ends: `connect_interface` does not compare
  them, and reports a line whose bridge has one endpoint (`tools/nodes.py` 1615-1616, 1825).
* `WiredWhileStopped` says nothing of the network: a `network_id` is taken as given (line
  1743), so on Community the node is stopped before EVE-NG rejects the wiring to a
  network that does not exist (the docstring, 1670-1671, says that this never happens).
* `NoSilentRewire` takes `confirm=true` for an answer about either interface, as the code does: given for the
  source interface, it also covers a connected target interface that no answer has mentioned
  (`tools/nodes.py` 1729).
* `NoPileUp`: with one coordinate given, the other is that of the first free place of the grid, and the
  pair may lie on another node (`tools/nodes.py` 417). Giving either "skips auto-placement (and the extra
  `list_lab_nodes` call ...) entirely" (`docs/tools-reference.md` 235-237) is only so when both are given.
* `PositionsHold` excepts a capture that ended, and a line that was garbled: every later position then means
  the next capture, and nothing tells the agent (`tools/capture.py` 167). Comments there (109-112, 163-164) warn
  that a capture that starts may shift positions as well; they are too cautious: it comes last, as `docker_ps.py` says.
* The relay answers 200 before the stream connects to the host, so that the preflight only vouches for
  the token. A token is called "one-time" (`tools/capture.py` 2, 189) and is used twice by every script, and can be
  used until it expires.
* `NoOrphan` is about a relay that is stopped; one that crashes, or whose host does, leaves to the SSH server
  of the other host what becomes of its channels.
* `EmptyUnlessInTime`: the contents are listed in one request and the folder is deleted in
  the next (`tools/folders.py` 93); what is put into it in between (`inTime`) may go with it.

Each property has a mutant in the module it is about: an operator, defined right
before the original, that changes it as a plausible bug would.

## 4. What is proved

`LabLockProofs` proves, for any sets of tasks and labs and whatever is cancelled:

* `Invariance`: `Spec => []IInv`. Mutual exclusion is not inductive by itself. The
  invariant adds that the flag says whether a task is inside (`FlagInv`), that the
  deque holds exactly the waiting tasks, each once (`QueueInv`), that a future is only
  set for the head of the deque of a free lab (`WokenInv`, so that two woken tasks
  cannot both get in), and that only a registered lab has a lock in use
  (`RegistryInv`).
* `LabLockMutualExclusion` and `LabLockNoLostWakeup`, from it.
* `Refinement`: `Spec => ImplementsMutex`. The initial states map to those of `LabMutex`, and every step to one of its
  steps or to none (`StepMutex`, with a lemma for each action of the lock). The queue of `LabMutex` is the deque
  less the cancelled tasks, which stay in it until they run (`QueueBar`): a task that is cancelled leaves the abstract
  queue at once, and its removal from the deque later changes nothing there. What has to be shown is that a woken
  task is the first of that queue, which is where `WokenInv` is used. The lemmas before it are about filtered lists in
  general: `OnlyConcat`, `OnlyWithout`, `CutOut`.

The only assumption is that `NoTask` is no task.

`LabToolsProofs` proves, for any number of calls, any requests of the tools' types, any
sets of nodes, interfaces, networks, names and places, and both editions:

* `Invariance`: `Spec => []IInv`. None of the properties is inductive: each says that
  something a tool looked at requests earlier still holds when it acts. `IInv` says it
  for every request in between: who is inside (`HolderInv`), that a call only waits for
  requests of its own tool (`ToolInv`), and one conjunct per tool for what it knows at
  each request (`ConnectInv`, `StopInv`, `EditInv`, `BulkInv`, `LoopInv`, `PlaceInv`,
  `NetworkInv`). `WireInv` (only nodes that exist are connected) is needed for the
  deletion of a network that is hidden: nobody is left on it.
* `TypeCorrect`, `WiresStoppedNodes`, `EditsStoppedNodes`: invariants, from it.
* `NeverRewiresSilently`, `DrawsTheLine`, `PaddingKeepsNames`,
  `NeverDuplicatesSilently`, `HidingKeepsNetworks`, `DeletesOnlyMatches`,
  `NeverPilesUp`: the action properties. `LabChanges` lists the requests that change
  more than what runs, so that each proof looks only at those that could do harm.

* `FreePlaceFound`: on a canvas with n nodes one of the first n + 1 places of the grid is free, so that
  the search of `_next_free_position`, an unbounded loop, ends. Two places of the grid are never near one
  node at once, and more places than nodes would need one that is.

The proof that a step keeps `IInv` has one lemma per request. A step of one call cannot
disturb the others, because they are outside the block and know nothing of the lab
(`OthersOutside`, `OutsideCall`): this is where the lock is used, and the only place.
The assumptions are those on the constants: `LabAssumption` (the markers `NoCall`,
`NoName`, `NotGiven` are none of the values they stand beside, ids are numbers and a
network's is not 0), `PollAssumption` (at least one attempt), and `RequestAssumption`
(each request has the arguments of its tool).

`SessionProofs` proves, for any sets of calls and cookies and whoever else uses the
account:

* `Invariance`: `Spec => []IInv`. `HealsUnlessRival` is about how a request ends; `RetryInv`
  says it for each moment from the relogin's handling on (the session is the account's, or
  there is a rival), `CarriedInv` ties what EVE-NG did to the answer on its way, `JarInv`
  gives whoever has the client a cookie, `LockInv` says that the lock is held for a login of
  `get_client` and nothing else.
* `RetryHeals`, `RetryRepeatsNothing`, `LoginComesFirst`: the three properties, from it.

The assumption is `SessionAssumption`: `NoTask` and `NoCookie` are no task and no cookie.

`UserToolsProofs` proves, for any sets of conversations and users and any limit of lists:

* `Invariance`: `Spec => []IInv`. `RaceInv` says of a call that is about to send its list that
  all current shares are in what it has read or came since; `NamedInv` ties what was shown, and
  what is about to be deleted, to the name in the selection; `ToolInv` keeps the tools apart.
* `SharesLostInRacesOnly`, `NamesAreSafe`: the two action properties, from it. Both rest
  on lemmas about `Selection`: what is resolved is in the list, and a name resolves to
  itself (`ResolvedAreListed`, `ResolvedByName`).

The assumptions are `UserAssumption` (users are numbers, the limit is positive) and
`RequestAssumption`.

`CaptureProofs` proves, for any sets of agents, containers and desktops, any difference of the clocks, and
with tokens required or not:

* `Invariance`: `Spec => []IInv`. That a killed relay leaves nothing running rests on the order of its
  timers: `StopsInTime` says what is still open at each moment of a stop, up to nothing at all when
  systemd would kill it. `AskedOnce` says that no task is started twice for one stream.
* `NeverOrphans`, `KilledEmpty`: `NoOrphan`, and that `Kill` finds no stream open.
* `TypeCorrect`: the types of all variables, the lists of captures included, together with `ShownHolds`: as long as no capture
  has ended, what an agent was shown is how the list of the captures begins, since later ones are put behind it.
* `PositionsKept`: `PositionsHold`, from these and from `ListsInOrder`: if no line was lost, `docker ps` turned round twice
  is the list of the captures.

The assumptions are `CaptureAssumption` and `RelayAssumption`; that `Grace + Cleanup < StopTimeout` is what
the unit file provides for (5 seconds, the time to close a channel, 20 seconds).

`LinkQualityProofs` proves, for any sets of calls, interfaces, networks, values and connections:

* `Invariance`: `Spec => []IInv`. `NearInv` ties the connection that a call has chosen to the interface it was
  asked for, or, if the call is `crossed`, to the source of its node's connection to itself (`NearIsOwn` is the fact about
  connections behind it). `FarInv` says that what a call is about to send back for the far end is what that end has
  (unless the call is `stale`), `AnswerInv` that a call which has still to ask for the name of a network will
  answer what it has read; with these `AsTold` and `ReportsTheNearEnd` are inductive.
* `HasWhatItWasTold`, `ReportsOwnEnd`: `AsTold` and `ReportsTheNearEnd`, from it.

The assumption is `LinkAssumption`: 0 is a value; a connection has two different ends, one of them an interface. Nodes
connected to themselves are allowed.

`TelnetProofs` proves, for any stream of the console, of any length, cut into pieces anywhere, and any numbers of commands
and attempts:

* `ProcessAppend`: for every piece `d` and byte `b`, `Process(Append(d, b))` is `CodeStep(Process(d), b)`. The code scans with a
  look-ahead of two bytes and keeps no state; this says that it is nevertheless an automaton, whose state is the tail
  and whether it was inside a subnegotiation. Two scans, of `d` and of `d` with one more byte, are compared from their ends
  backwards (`AppendTurn`, one case for each branch of the loop). `ProcessTail` says that what is kept gives nothing when it is
  processed again, and is kept again.
* `Invariant`: `Spec => []IInv`. Unless `risky`, what was already put into the transcript, followed by what `Process` would
  give for all that waits, is the transcript of `ideal`, and so are the replies; the states go with each other (`Goes`). In
  one case they are not the same: after a cut right behind the IAC of a subnegotiation the code takes it for a command. An
  `SE` ends both (`StepGoes`), and the other byte that may come, a second IAC, is what makes it `risky`.
* `TypeCorrect`, `CutsHidden`: `TypeOK` and `CutsDoNotShow`, from it.
* `CutAnywhere`: the same of the bytes alone, without the session and without RFC 854: if `d` does not end inside a subnegotiation, then
  `Process(d \o e)` is `Process(d)` followed by what is left of `d` processed with `e`, for all `d` and `e`.

The assumption is `TelnetAssumption`: at least one attempt and one command.

`FoldersProofs` proves, for any tree of paths, any ceilings, and any number of changes by others:

* `Invariance`: `Spec => []IInv`. Its heart is `WalkInv`: for each folder a walk has listed and each folder below that one
  that stays, the walk has listed the latter as well, or some folder on the way from the one to the other waits in
  the queue. Moves do not disturb it, because what stays has all its ancestors staying (`StayInv`).
  `ParentVisited` makes the listings come from above, which bounds the walk by its start and
  gives `depth` its meaning; `LateInv` says that what is in a folder that is about to be deleted came after the
  look into it.
* `FindsLabs`, `FindsFolders`, `StaysBelow`, `EmptyFolders`: the four properties of the run, from it.

It begins with lemmas about paths (a folder has one ancestor at each level, and what is below a moved folder is
moved with it), after which nothing looks into a path. The assumptions are `FolderAssumption` (paths
are different, and the folders on the way to a path are paths) and `PathAssumption` (EVE-NG may list folders
in any order).

**How induction is done.** The library's induction theorems take the statement as an operator, which the provers here
cannot instantiate. Where a list or a stream of any length is concerned, the proofs argue by the least counterexample
instead (`DequeInduction`, `StreamInduction`): `NatMin`, from the well-foundedness of `<`, gives a set of numbers its least
member. A recursive function has
a value only if there is a function that satisfies its equation, so this is proved first (`KeepsExists` in
`LabLockProofs`, `ScanExists` in `TelnetProofs`), and the statement about its values after that.

**Model-checked only** is liveness under fairness (`NoStarvation`, `CallsFinish`, `EveryWaitEnds`, `SessionEnds`, `WalksEnd`,
`StreamsEnd`), which is out of the prover's reach: it needs `ENABLED`. Every invariant and every action property of the
passing runs, and the refinement, is proved as well. The three properties that are violated are, of course, only checked.

## 5. Plan

What is left, in this order:

1. `DeleteFlow`: the dialogues of `delete_lab_node` and `delete_lab_network` with several items, over lists that
   other calls change between the calls of one dialogue (`UserTools` and `Folders` have them for one item, and
   `delete_drift` shows what goes wrong), and those of `connect_interface`, with what the agent has been shown.
2. Several desktops and relays that share one host, and a relay that crashes, if the behaviour of the
   host's SSH server is to be assumed.
3. `wipe_node`, `export_node`, `edit_lab` and `edit_user`, as soon as a tool decides by what they change.

## 6. Not modelled

* `wipe_node` and `export_node` end in one request on saved configurations, which no tool reads (the one inside the
  lock, the other outside); `edit_lab` and `edit_user` are one request on fields no tool decides by.
* Single read-only requests: system and meta tools, `list_users`, `get_user`, `open_lab`, `list_folder`.
* Tool registration, logging, configuration, text helpers (search, vendor, coordinates) and transports: they have
  no state and no interleaving of their own.
* Of the relay, the signature and encoding of tokens, the settings and the check of the TLS files; of the
  desktop script, the parsing of the URL, the mode for Community, and what plink does past the relay.
* Of the modelled tools, the texts of answers.
