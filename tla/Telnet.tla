------------------------------- MODULE Telnet -------------------------------
(***************************************************************************)
(* telnet_node: a session with a node's console.  The console sends a      *)
(* stream of bytes; telnet_session reads it in pieces that end wherever    *)
(* the console pauses, strips the telnet commands from each piece, and     *)
(* keeps a command that is cut off for the next one.                       *)
(*                                                                         *)
(* Of a byte only matters which part it can play: "x" is any byte that is  *)
(* none of the others, and "WONT" stands for DONT, too.                    *)
(***************************************************************************)
EXTENDS Naturals, Sequences

CONSTANTS
  Attempts,     \* connect_attempts
  Commands,     \* how many commands are to be sent
  MaxBytes      \* bound: what the console sends before it falls silent

ASSUME TelnetAssumption ==
  /\ Attempts \in Nat \ {0} /\ Commands \in Nat \ {0} /\ MaxBytes \in Nat

VARIABLES
  pc,           \* what the session does next
  attempt,      \* attempts to connect that have failed
  left,         \* commands not yet sent
  arrived,      \* bytes of the console that are not processed yet
  closed,       \* the console has closed the connection
  pending,      \* the tail of the last piece
  transcript,   \* what the agent is going to see
  replied,      \* the replies sent to the console's offers
  \* history
  ideal,        \* the same for all that the console sent, but read one by one
  risky,        \* a piece has ended inside a subnegotiation, or one had an escape
  sent          \* how many bytes the console has sent

vars == <<pc, attempt, left, arrived, closed, pending, transcript, replied, ideal, risky, sent>>
-----------------------------------------------------------------------------
(***************************************************************************)
(* _process_telnet_bytes: from position i on, sub if inside a              *)
(* subnegotiation, which at the start of a piece it never is.              *)
(***************************************************************************)
Options == {"WILL", "DO", "WONT"}

\* A byte of text, or a reply, put before what the rest of the piece gives.
Text(b, out) == [out EXCEPT !.clean = <<b>> \o @]
Reply(cmd, out) ==
  IF cmd = "WONT" THEN out
  ELSE [out EXCEPT !.replies = <<IF cmd = "WILL" THEN "DONT" ELSE "WONT">> \o @]

\* The piece ends; what it gives beside the tail is whether this was inside a
\* subnegotiation, which the code does not return.
Ends(tail, sub) == [clean |-> <<>>, replies |-> <<>>, tail |-> tail, sub |-> sub]

\* Mutant of Process: a command that is cut off is dropped.
ProcessTailless(data) ==
  LET n == Len(data)
      scan[i \in 1 .. n + 2, sub \in BOOLEAN] ==
        IF i >= n /\ (i > n \/ data[i] = "IAC") THEN Ends(<<>>, sub)
        ELSE IF data[i] # "IAC"
        THEN IF sub THEN scan[i + 1, TRUE] ELSE Text(data[i], scan[i + 1, FALSE])
        ELSE scan[i + 2, data[i + 1] = "SB"]
  IN scan[1, FALSE]

\* One turn of the loop, rest being what it gives from the later positions on.
Turn(data, rest, i, sub) ==
  LET n == Len(data) IN
  IF i > n \/ (data[i] = "IAC" /\ i = n) THEN Ends(SubSeq(data, i, n), sub)
  ELSE IF sub THEN
    IF data[i] = "IAC" /\ data[i + 1] = "SE" THEN rest[i + 2][FALSE] ELSE rest[i + 1][TRUE]
  ELSE IF data[i] # "IAC" THEN Text(data[i], rest[i + 1][FALSE])
  ELSE IF data[i + 1] = "IAC" THEN Text("IAC", rest[i + 2][FALSE])
  ELSE IF data[i + 1] \in Options THEN
    IF i + 1 = n THEN Ends(SubSeq(data, i, n), FALSE)
    ELSE Reply(data[i + 1], rest[i + 3][FALSE])
  ELSE rest[i + 2][data[i + 1] = "SB"]

Process(data) ==
  LET scan[i \in 1 .. Len(data) + 1] == [sub \in BOOLEAN |-> Turn(data, scan, i, sub)]
  IN scan[1][FALSE]

(***************************************************************************)
(* The same read byte by byte, with the state RFC 854 gives it: what the   *)
(* pieces should add up to, and what a console may send next.              *)
(***************************************************************************)
Ideal(mode, clean, replies) == [mode |-> mode, clean |-> clean, replies |-> replies]

RefStep(s, b) ==
  LET m == s.mode
      c == s.clean
      r == s.replies
  IN CASE m = "data" /\ b = "IAC"               -> Ideal("IAC", c, r)
       [] m = "data" /\ b # "IAC"               -> Ideal("data", Append(c, b), r)
       [] m = "IAC" /\ b = "IAC"                -> Ideal("data", Append(c, "IAC"), r)
       [] m = "IAC" /\ b \in Options \cup {"SB"} -> Ideal(b, c, r)
       [] m = "IAC" /\ b = "x"                  -> Ideal("data", c, r)
       [] m = "WILL"                            -> Ideal("data", c, Append(r, "DONT"))
       [] m = "DO"                              -> Ideal("data", c, Append(r, "WONT"))
       [] m = "WONT"                            -> Ideal("data", c, r)
       [] m = "SB"                              -> Ideal(IF b = "IAC" THEN "SB IAC" ELSE "SB", c, r)
       [] m = "SB IAC"                          -> Ideal(IF b = "SE" THEN "data" ELSE "SB", c, r)

\* Telnet has no rule for what text and subnegotiations contain, except for IAC.
Legal ==
  CASE ideal.mode \in {"data", "SB"} -> {"x", "SE", "IAC"}
    [] ideal.mode = "IAC"            -> Options \cup {"x", "SB", "IAC"}
    [] ideal.mode \in Options        -> {"x"}
    [] ideal.mode = "SB IAC"         -> {"SE", "IAC"}
-----------------------------------------------------------------------------
Init ==
  /\ pc = "readNode" /\ attempt = 0 /\ left = Commands
  /\ arrived = <<>> /\ closed = FALSE /\ pending = <<>>
  /\ transcript = <<>> /\ replied = <<>>
  /\ ideal = Ideal("data", <<>>, <<>>) /\ risky = FALSE /\ sent = 0

streamVars == <<arrived, closed, pending, transcript, replied, ideal, risky, sent>>

\* telnet_node reads the node: it runs and has a telnet console, or the tool refuses.
ReadNode ==
  /\ pc = "readNode"
  /\ pc' \in {"connect", "failed"}
  /\ UNCHANGED <<attempt, left, streamVars>>

Connected ==
  /\ pc = "connect"
  /\ pc' = "read"
  /\ UNCHANGED <<attempt, left, streamVars>>

\* Mutant of NotConnected: after the last attempt the count starts again.
NotConnectedAgain ==
  /\ pc = "connect"
  /\ attempt' = (attempt + 1) % Attempts
  /\ UNCHANGED <<pc, left, streamVars>>

\* An attempt is refused or times out; after a pause there may be another.
NotConnected ==
  /\ pc = "connect"
  /\ attempt' = attempt + 1
  /\ pc' = IF attempt + 1 < Attempts THEN "connect" ELSE "failed"
  /\ UNCHANGED <<left, streamVars>>

\* The console sends a byte, whatever the session is doing, or closes.
ConsoleSends ==
  /\ pc \in {"read", "write"} /\ ~closed
  /\ sent < MaxBytes
  /\ sent' = sent + 1
  /\ \E b \in Legal :
       /\ arrived' = Append(arrived, b)
       /\ ideal' = RefStep(ideal, b)
       /\ risky' = (risky \/ (ideal.mode = "SB IAC" /\ b = "IAC"))
  /\ UNCHANGED <<pc, attempt, left, closed, pending, transcript, replied>>

ConsoleCloses ==
  /\ pc \in {"read", "write"} /\ ~closed
  /\ closed' = TRUE
  /\ UNCHANGED <<pc, attempt, left, arrived, pending, transcript, replied, ideal, risky, sent>>

\* Mutant of Kept: pending is not cleared.
KeptAll(out) == pending \o out.tail

\* What is put before the next piece.
Kept(out) == out.tail

\* _drain_available: nothing has come for idle_timeout, or the console has closed.
Drain ==
  /\ pc = "read"
  /\ \E out \in {Process(pending \o arrived)} :
       /\ transcript' = transcript \o out.clean
       /\ replied' = replied \o out.replies
       /\ pending' = Kept(out)
  /\ arrived' = <<>>
  /\ pc' = IF left = 0 THEN "done" ELSE "write"
  /\ risky' = (risky \/ ideal.mode = "SB")
  /\ UNCHANGED <<attempt, left, closed, ideal, sent>>

SendCommand ==
  /\ pc = "write"
  /\ left' = left - 1
  /\ pc' = "read"
  /\ UNCHANGED <<attempt, streamVars>>

\* Writing to, or reading from, a connection that is gone raises.
ConnectionLost ==
  /\ pc \in {"read", "write"}
  /\ pc' = "failed"
  /\ UNCHANGED <<attempt, left, streamVars>>

Session == ReadNode \/ Connected \/ NotConnected \/ ConnectionLost \/ SendCommand \/ Drain

Next == Session \/ ConsoleSends \/ ConsoleCloses

Spec == Init /\ [][Next]_vars

\* Every await of the session comes back; the reading, once the console pauses.
FairSpec == Spec /\ WF_vars(Session)
-----------------------------------------------------------------------------
Bytes == Options \cup {"x", "IAC", "SB", "SE"}

\* Only an unfinished command is ever kept.
TypeOK ==
  /\ pc \in {"readNode", "connect", "read", "write", "done", "failed"}
  /\ attempt \in 0 .. Attempts /\ left \in 0 .. Commands
  /\ arrived \in Seq(Bytes) /\ closed \in BOOLEAN
  /\ pending \in {<< >>, <<"IAC">>} \cup {<<"IAC", b>> : b \in Options}
  /\ transcript \in Seq(Bytes) /\ replied \in Seq({"DONT", "WONT"})
  /\ ideal.clean \in Seq(Bytes) /\ risky \in BOOLEAN /\ sent \in 0 .. MaxBytes

\* Wherever the stream is cut into pieces, once all that came is processed the
\* transcript and the replies are those of the uncut stream, unless a piece ended inside a
\* subnegotiation or one has an escape.
CutsDoNotShow ==
  arrived = <<>> /\ ~risky => transcript = ideal.clean /\ replied = ideal.replies

\* "the caller should prepend it to the next chunk before processing again, rather than
\* losing or misinterpreting the partial sequence" (_process_telnet_bytes): cutting the
\* stream never puts a part of a telnet sequence into the transcript.
NothingMisread == arrived = <<>> => transcript = ideal.clean

\* However the connection fails, and whenever the console closes, the tool answers.
SessionEnds == <>(pc \in {"done", "failed"})
=============================================================================
