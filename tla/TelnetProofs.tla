---------------------------- MODULE TelnetProofs ----------------------------
(***************************************************************************)
(* Proofs about Telnet, for streams of any length, cut anywhere.  The code *)
(* scans a piece with a look-ahead of two bytes; the argument is that what *)
(* it gives for a piece with one more byte is what CodeStep, an automaton  *)
(* like the one of RFC 854, makes of that byte (ProcessAppend), that a     *)
(* tail processed again is kept again (ProcessTail), and that the code and *)
(* the reference only part where risky says so (StepGoes).                 *)
(***************************************************************************)
EXTENDS Telnet, TLAPS, SequenceTheorems, WellFoundedInduction

Tails == {<<>>, <<"IAC">>} \cup {<<"IAC", b>> : b \in Options}
Answers == {"DONT", "WONT"}

\* What the scan of a piece may give.
Outs ==
  [clean : Seq(Bytes), replies : Seq(Answers), tail : Tails, sub : {FALSE}]
  \cup [clean : Seq(Bytes), replies : Seq(Answers), tail : {<<>>, <<"IAC">>}, sub : {TRUE}]

\* f is the scan of the piece d.
Scans(d, f) == f = [i \in 1 .. Len(d) + 1 |-> [sub \in BOOLEAN |-> Turn(d, f, i, sub)]]

-----------------------------------------------------------------------------
(***************************************************************************)
(* Every piece has a scan: one from position m + 1 on is continued to m.   *)
(***************************************************************************)

LEMMA NatMin ==
  ASSUME NEW T \in SUBSET Nat, T # {}
  PROVE  \E n \in T : \A m \in T : n <= m
<1> DEFINE R == OpToRel(<, Nat)
<1>1. IsWellFoundedOn(R, Nat)
  BY NatLessThanWellFounded
<1>2. \A m, n \in Nat : <<m, n>> \in R <=> m < n
  BY DEF OpToRel
<1> HIDE DEF R
<1>3. PICK n \in T : \A m \in T : ~(<<m, n>> \in R)
  BY <1>1, WFMin, Zenon
<1>4. \A m \in T : ~(m < n)
  BY <1>2, <1>3
<1> QED BY <1>4

LEMMA ScanAt ==
  ASSUME NEW d, NEW f, Scans(d, f), NEW i \in 1 .. Len(d) + 1, NEW sub \in BOOLEAN
  PROVE  f[i][sub] = Turn(d, f, i, sub)
<1> DEFINE h == [j \in 1 .. Len(d) + 1 |-> [s \in BOOLEAN |-> Turn(d, f, j, s)]]
<1>1. f = h
  BY DEF Scans
<1>2. h[i][sub] = Turn(d, f, i, sub)
  OBVIOUS
<1> HIDE DEF h
<1> QED BY <1>1, <1>2

\* A turn only looks at what comes after it.
LEMMA TurnAgrees ==
  ASSUME NEW d \in Seq(Bytes), NEW i \in 1 .. Len(d) + 1, NEW sub \in BOOLEAN, NEW f, NEW h,
         \A j \in i + 1 .. Len(d) + 1 : f[j] = h[j]
  PROVE  Turn(d, f, i, sub) = Turn(d, h, i, sub)
<1>1. Len(d) \in Nat
  OBVIOUS
<1>2. i <= Len(d) /\ i # Len(d) => f[i + 1] = h[i + 1] /\ f[i + 2] = h[i + 2]
  BY <1>1
<1>3. i <= Len(d) => f[i + 1] = h[i + 1]
  BY <1>1
<1>4. i <= Len(d) /\ i # Len(d) /\ i + 1 # Len(d) => f[i + 3] = h[i + 3]
  BY <1>1
<1> DEFINE n == Len(d)
<1>5. CASE i > n
  BY <1>5 DEF Turn
<1>6. CASE i <= n /\ i = n
  <2>1. CASE d[i] = "IAC"
    BY <1>6, <2>1 DEF Turn
  <2>2. CASE d[i] # "IAC"
    BY <1>1, <1>3, <1>6, <2>2 DEF Turn
  <2> QED BY <2>1, <2>2
<1>7. CASE i <= n /\ i # n
  <2>1. ~(i > n) /\ f[i + 1] = h[i + 1] /\ f[i + 2] = h[i + 2]
    BY <1>1, <1>2, <1>7
  <2>2. i + 1 # n => f[i + 3] = h[i + 3]
    BY <1>4, <1>7
  <2> QED BY <1>7, <2>1, <2>2 DEF Turn
<1> QED BY <1>1, <1>5, <1>6, <1>7

LEMMA ScanExists == ASSUME NEW d \in Seq(Bytes) PROVE \E f : Scans(d, f)
<1> DEFINE n == Len(d)
           From(k, f) == f = [i \in (n + 1) - k .. n + 1 |-> [sub \in BOOLEAN |-> Turn(d, f, i, sub)]]
           T == {k \in 0 .. n : ~ \E f : From(k, f)}
<1>0. n \in Nat
  OBVIOUS
<1>1. T = {}
  <2> SUFFICES ASSUME T # {} PROVE FALSE
    OBVIOUS
  <2>1. PICK k \in T : \A j \in T : k <= j
    <3>1. T \in SUBSET Nat
      BY <1>0
    <3> HIDE DEF T
    <3> QED BY <3>1, NatMin
  <2>2. CASE k = 0
    <3> DEFINE e == [sub \in BOOLEAN |-> Ends(SubSeq(d, n + 1, n), sub)]
               f == [i \in {n + 1} |-> e]
    <3>0. n + 1 > n
      BY <1>0
    <3> HIDE DEF f
    <3>1. \A sub \in BOOLEAN : Turn(d, f, n + 1, sub) = Ends(SubSeq(d, n + 1, n), sub)
      BY <3>0 DEF Turn
    <3> USE DEF f
    <3>2. (n + 1) - 0 .. n + 1 = {n + 1}
      BY <1>0
    <3>3. e = [sub \in BOOLEAN |-> Turn(d, f, n + 1, sub)]
      BY <3>1
    <3> HIDE DEF e, n
    <3>4. f = [i \in {n + 1} |-> [sub \in BOOLEAN |-> Turn(d, f, i, sub)]]
      BY <3>3
    <3>5. From(k, f)
      BY <2>2, <3>2, <3>4
    <3> QED BY <3>5
  <2>3. CASE k # 0
    <3> DEFINE m == (n + 1) - k
    <3>1. k \in 1 .. n /\ k - 1 \in 0 .. n /\ k - 1 \notin T /\ (n + 1) - (k - 1) = m + 1
          /\ m \in 1 .. n
      <4>1. k \in 0 .. n
        OBVIOUS
      <4> HIDE DEF T
      <4>2. k - 1 \notin T
        BY <1>0, <2>1, <4>1
      <4> HIDE DEF n
      <4> QED BY <1>0, <2>3, <4>1, <4>2
    <3>2. PICK f : From(k - 1, f)
      BY <3>1
    <3>3. f = [i \in m + 1 .. n + 1 |-> [sub \in BOOLEAN |-> Turn(d, f, i, sub)]]
      BY <3>1, <3>2
    <3> HIDE DEF T, m, n
    <3> DEFINE h == [i \in m .. n + 1 |-> [sub \in BOOLEAN |-> Turn(d, f, i, sub)]]
    <3>4. \A i \in m + 1 .. n + 1 : f[i] = h[i]
      <4>1. \A i \in m + 1 .. n + 1 : i \in m .. n + 1
        BY <1>0, <3>1
      <4> QED BY <3>3, <4>1
    <3>5. ASSUME NEW i \in m .. n + 1, NEW sub \in BOOLEAN PROVE Turn(d, f, i, sub) = Turn(d, h, i, sub)
      <4>1. i \in 1 .. Len(d) + 1 /\ \A j \in i + 1 .. Len(d) + 1 : j \in m + 1 .. n + 1
        BY <1>0, <3>1 DEF n
      <4> HIDE DEF h
      <4> QED BY <3>4, <4>1, TurnAgrees
    <3>6. h = [i \in m .. n + 1 |-> [sub \in BOOLEAN |-> Turn(d, h, i, sub)]]
      <4> DEFINE g == [i \in m .. n + 1 |-> [sub \in BOOLEAN |-> Turn(d, h, i, sub)]]
      <4>1. \A i \in m .. n + 1 : h[i] = g[i]
        BY <3>5
      <4> QED BY <4>1
    <3>7. From(k, h)
      BY <3>6 DEF m
    <3> HIDE DEF h
    <3>8. k \notin T
      BY <3>7 DEF T
    <3> QED BY <3>8
  <2> QED BY <2>2, <2>3
<1>2. PICK f : From(n, f)
  BY <1>0, <1>1
<1>3. (n + 1) - n = 1
  BY <1>0
<1> QED BY <1>2, <1>3 DEF Scans

LEMMA ProcessScans ==
  ASSUME NEW d \in Seq(Bytes)
  PROVE  \E f : Scans(d, f) /\ Process(d) = f[1][FALSE]
<1> DEFINE f == CHOOSE f : Scans(d, f)
<1>1. Scans(d, f)
  BY ScanExists, Zenon
<1>2. Process(d) = f[1][FALSE]
  BY DEF Process, Scans
<1> QED BY <1>1, <1>2

-----------------------------------------------------------------------------
(***************************************************************************)
(* What a scan gives, and what one more byte adds to it: the code as an    *)
(* automaton, whose state is the tail t and sub s.  It stays in the escape *)
(* of a subnegotiation when IAC follows IAC.                               *)
(***************************************************************************)

\* What is sent in reply to an offer.
Answer(cmd) == IF cmd = "WONT" THEN <<>> ELSE <<IF cmd = "WILL" THEN "DONT" ELSE "WONT">>

Adds(t, s, b) ==
  IF s = FALSE /\ t = <<>> /\ b # "IAC" THEN <<b>>
  ELSE IF s = FALSE /\ t = <<"IAC">> /\ b = "IAC" THEN <<"IAC">>
  ELSE <<>>

Sends(t, s) == IF s = TRUE \/ t = <<>> \/ t = <<"IAC">> THEN <<>> ELSE Answer(t[2])

NextTail(t, s, b) ==
  IF s = TRUE \/ t = <<>> THEN IF b = "IAC" THEN <<"IAC">> ELSE <<>>
  ELSE IF t = <<"IAC">> /\ b \in Options THEN <<"IAC", b>>
  ELSE <<>>

NextSub(t, s, b) ==
  IF s = TRUE THEN ~(t = <<"IAC">> /\ b = "SE") ELSE t = <<"IAC">> /\ b = "SB"

Out(c, r, t, s) == [clean |-> c, replies |-> r, tail |-> t, sub |-> s]

CodeStep(out, b) ==
  Out(out.clean \o Adds(out.tail, out.sub, b), out.replies \o Sends(out.tail, out.sub),
      NextTail(out.tail, out.sub, b), NextSub(out.tail, out.sub, b))

\* Text and Reply: what is put before the rest.
Put(x, y, out) == Out(x \o out.clean, y \o out.replies, out.tail, out.sub)

LEMMA OutsFields ==
  ASSUME NEW out \in Outs
  PROVE  /\ out = Out(out.clean, out.replies, out.tail, out.sub)
         /\ out.clean \in Seq(Bytes) /\ out.replies \in Seq(Answers) /\ out.tail \in Tails
         /\ out.sub \in BOOLEAN /\ (out.sub = TRUE => out.tail \in {<<>>, <<"IAC">>})
<1>1. CASE out \in [clean : Seq(Bytes), replies : Seq(Answers), tail : Tails, sub : {FALSE}]
  BY <1>1 DEF Out
<1>2. CASE out \in [clean : Seq(Bytes), replies : Seq(Answers), tail : {<<>>, <<"IAC">>}, sub : {TRUE}]
  BY <1>2 DEF Out, Tails
<1> QED BY <1>1, <1>2 DEF Outs

LEMMA InOuts ==
  ASSUME NEW c \in Seq(Bytes), NEW r \in Seq(Answers), NEW t \in Tails, NEW s \in BOOLEAN,
         s = TRUE => t \in {<<>>, <<"IAC">>}
  PROVE  Out(c, r, t, s) \in Outs
<1>1. CASE s = TRUE
  BY <1>1 DEF Out, Outs
<1>2. CASE s = FALSE
  BY <1>2 DEF Out, Outs
<1> QED BY <1>1, <1>2

LEMMA TailFacts ==
  /\ <<>> # <<"IAC">>
  /\ \A b : <<"IAC", b>> # <<>> /\ <<"IAC", b>> # <<"IAC">> /\ <<"IAC", b>>[2] = b
<1>1. Len(<<>>) = 0 /\ Len(<<"IAC">>) = 1
  OBVIOUS
<1>2. ASSUME NEW b PROVE Len(<<"IAC", b>>) = 2 /\ <<"IAC", b>>[2] = b
  OBVIOUS
<1> QED BY <1>1, <1>2

LEMMA AnswerType == ASSUME NEW cmd PROVE Answer(cmd) \in Seq(Answers)
<1>1. <<>> \in Seq(Answers) /\ <<"DONT">> \in Seq(Answers) /\ <<"WONT">> \in Seq(Answers)
  BY DEF Answers
<1> QED BY <1>1 DEF Answer

LEMMA TextPut ==
  ASSUME NEW out \in Outs, NEW b \in Bytes
  PROVE  Text(b, out) = Put(<<b>>, <<>>, out)
<1> DEFINE c == out.clean
           r == out.replies
           t == out.tail
           s == out.sub
           x == <<b>>
<1>1. out = Out(c, r, t, s) /\ r \in Seq(Answers)
  BY OutsFields
<1>2. Text(b, out) = [out EXCEPT !.clean = x \o c]
  BY DEF Text
<1>3. <<>> \o r = r
  BY <1>1, ConcatEmptySeq
<1>4. Put(x, <<>>, out) = Out(x \o c, r, t, s)
  BY <1>3 DEF Put
<1> HIDE DEF c, r, t, s, x
<1>5. \A v : [Out(c, r, t, s) EXCEPT !.clean = v] = Out(v, r, t, s)
  BY DEF Out
<1>6. Text(b, out) = Out(x \o c, r, t, s)
  BY <1>1, <1>2, <1>5
<1> QED BY <1>4, <1>6 DEF x

LEMMA ReplyPut ==
  ASSUME NEW out \in Outs, NEW cmd
  PROVE  Reply(cmd, out) = Put(<<>>, Answer(cmd), out)
<1> DEFINE c == out.clean
           r == out.replies
           t == out.tail
           s == out.sub
           x == Answer(cmd)
<1>1. out = Out(c, r, t, s) /\ c \in Seq(Bytes) /\ r \in Seq(Answers)
  BY OutsFields
<1>2. <<>> \o c = c /\ <<>> \o r = r
  BY <1>1, ConcatEmptySeq
<1>3. Put(<<>>, x, out) = Out(c, x \o r, t, s)
  BY <1>2 DEF Put
<1>4. CASE cmd = "WONT"
  <2>1. x = <<>> /\ Reply(cmd, out) = out
    BY <1>4 DEF Answer, Reply
  <2> QED BY <1>1, <1>2, <1>3, <2>1
<1>5. CASE cmd # "WONT"
  <2>1. Reply(cmd, out) = [out EXCEPT !.replies = x \o r]
    BY <1>5 DEF Answer, Reply
  <2> HIDE DEF c, r, t, s, x
  <2>2. \A v : [Out(c, r, t, s) EXCEPT !.replies = v] = Out(c, v, t, s)
    BY DEF Out
  <2>3. Reply(cmd, out) = Out(c, x \o r, t, s)
    BY <1>1, <2>1, <2>2
  <2> QED BY <1>3, <2>3 DEF x
<1> QED BY <1>4, <1>5

LEMMA PutType ==
  ASSUME NEW out \in Outs, NEW x \in Seq(Bytes), NEW y \in Seq(Answers)
  PROVE  Put(x, y, out) \in Outs
<1> DEFINE c == out.clean
           r == out.replies
<1>1. c \in Seq(Bytes) /\ r \in Seq(Answers)
  BY OutsFields
<1>2. x \o c \in Seq(Bytes) /\ y \o r \in Seq(Answers)
  <2> HIDE DEF c, r
  <2> QED BY <1>1
<1> QED BY <1>2, OutsFields, InOuts DEF Put

LEMMA StepParts ==
  ASSUME NEW t \in Tails, NEW s \in BOOLEAN, NEW b \in Bytes, s = TRUE => t \in {<<>>, <<"IAC">>}
  PROVE  /\ Adds(t, s, b) \in Seq(Bytes) /\ Sends(t, s) \in Seq(Answers)
         /\ NextTail(t, s, b) \in Tails /\ NextSub(t, s, b) \in BOOLEAN
         /\ NextSub(t, s, b) = TRUE => NextTail(t, s, b) \in {<<>>, <<"IAC">>}
<1>1. Adds(t, s, b) \in Seq(Bytes)
  <2>1. <<b>> \in Seq(Bytes) /\ <<>> \in Seq(Bytes) /\ <<"IAC">> \in Seq(Bytes)
    BY DEF Bytes
  <2> QED BY <2>1 DEF Adds
<1>2. Sends(t, s) \in Seq(Answers)
  <2>1. <<>> \in Seq(Answers)
    OBVIOUS
  <2> QED BY <2>1, AnswerType DEF Sends
<1>3. NextTail(t, s, b) \in Tails
  BY DEF NextTail, Tails
<1>4. NextSub(t, s, b) \in BOOLEAN
  BY DEF NextSub
<1>5. ASSUME NextSub(t, s, b) = TRUE PROVE NextTail(t, s, b) \in {<<>>, <<"IAC">>}
  <2>1. CASE s = TRUE
    BY <2>1 DEF NextTail
  <2>2. CASE s = FALSE
    <3>1. b = "SB" /\ b \notin Options
      BY <1>5, <2>2 DEF NextSub, Options
    <3> QED BY <3>1 DEF NextTail
  <2> QED BY <2>1, <2>2
<1> QED BY <1>1, <1>2, <1>3, <1>4, <1>5

LEMMA StepType ==
  ASSUME NEW out \in Outs, NEW b \in Bytes
  PROVE  CodeStep(out, b) \in Outs
<1> DEFINE t == out.tail
           s == out.sub
<1>1. /\ out.clean \in Seq(Bytes) /\ out.replies \in Seq(Answers) /\ t \in Tails
      /\ s \in BOOLEAN /\ (s = TRUE => t \in {<<>>, <<"IAC">>})
  BY OutsFields
<1>2. /\ Adds(t, s, b) \in Seq(Bytes) /\ Sends(t, s) \in Seq(Answers)
      /\ NextTail(t, s, b) \in Tails /\ NextSub(t, s, b) \in BOOLEAN
      /\ NextSub(t, s, b) = TRUE => NextTail(t, s, b) \in {<<>>, <<"IAC">>}
  BY <1>1, StepParts
<1>3. out.clean \o Adds(t, s, b) \in Seq(Bytes) /\ out.replies \o Sends(t, s) \in Seq(Answers)
  BY <1>1, <1>2
<1> QED BY <1>2, <1>3, InOuts DEF CodeStep

\* What is put before and what a byte adds do not touch.
LEMMA PutStep ==
  ASSUME NEW out \in Outs, NEW x \in Seq(Bytes), NEW y \in Seq(Answers), NEW b \in Bytes
  PROVE  CodeStep(Put(x, y, out), b) = Put(x, y, CodeStep(out, b))
<1> DEFINE c == out.clean
           r == out.replies
           t == out.tail
           s == out.sub
           a == Adds(t, s, b)
           z == Sends(t, s)
<1>1. /\ c \in Seq(Bytes) /\ r \in Seq(Answers) /\ t \in Tails
      /\ s \in BOOLEAN /\ (s = TRUE => t \in {<<>>, <<"IAC">>})
  BY OutsFields
<1>2. a \in Seq(Bytes) /\ z \in Seq(Answers)
  BY <1>1, StepParts
<1> DEFINE u == NextTail(t, s, b)
           v == NextSub(t, s, b)
           p == Put(x, y, out)
           q == CodeStep(out, b)
<1>3. p.clean = x \o c /\ p.replies = y \o r /\ p.tail = t /\ p.sub = s
  BY DEF Put, Out
<1>4. q.clean = c \o a /\ q.replies = r \o z /\ q.tail = u /\ q.sub = v
  <2> HIDE DEF c, r, a, z, u, v
  <2>1. q = Out(c \o a, r \o z, u, v)
    BY DEF CodeStep, c, r, a, z, u, v
  <2> HIDE DEF q
  <2> QED BY <2>1 DEF Out
<1>5. CodeStep(p, b) = Out((x \o c) \o a, (y \o r) \o z, u, v)
  <2> HIDE DEF p
  <2> QED BY <1>3 DEF CodeStep
<1>6. Put(x, y, q) = Out(x \o (c \o a), y \o (r \o z), u, v)
  <2> HIDE DEF q
  <2> QED BY <1>4 DEF Put
<1>7. (x \o c) \o a = x \o (c \o a) /\ (y \o r) \o z = y \o (r \o z)
  <2> HIDE DEF c, r, a, z
  <2>1. \A j, k, l \in Seq(Bytes) : (j \o k) \o l = j \o (k \o l)
    BY ConcatAssociative
  <2>2. \A j, k, l \in Seq(Answers) : (j \o k) \o l = j \o (k \o l)
    BY ConcatAssociative, SMTT(30)
  <2>3. (x \o c) \o a = x \o (c \o a)
    BY <1>1, <1>2, <2>1
  <2>4. (y \o r) \o z = y \o (r \o z)
    BY <1>1, <1>2, <2>2
  <2> QED BY <2>3, <2>4
<1> QED BY <1>5, <1>6, <1>7

LEMMA TextStep ==
  ASSUME NEW out \in Outs, NEW e \in Bytes, NEW b \in Bytes
  PROVE  Text(e, out) \in Outs /\ CodeStep(Text(e, out), b) = Text(e, CodeStep(out, b))
<1> DEFINE x == <<e>>
<1>1. x \in Seq(Bytes) /\ <<>> \in Seq(Answers)
  OBVIOUS
<1>2. Text(e, out) = Put(x, <<>>, out)
  BY TextPut
<1>3. CodeStep(out, b) \in Outs
  BY StepType
<1>4. Text(e, CodeStep(out, b)) = Put(x, <<>>, CodeStep(out, b))
  BY <1>3, TextPut
<1> HIDE DEF x
<1> QED BY <1>1, <1>2, <1>4, PutType, PutStep, ZenonT(30)

LEMMA ReplyStep ==
  ASSUME NEW out \in Outs, NEW cmd, NEW b \in Bytes
  PROVE  Reply(cmd, out) \in Outs /\ CodeStep(Reply(cmd, out), b) = Reply(cmd, CodeStep(out, b))
<1>1. Answer(cmd) \in Seq(Answers) /\ <<>> \in Seq(Bytes)
  BY AnswerType
<1>2. Reply(cmd, out) = Put(<<>>, Answer(cmd), out)
  BY ReplyPut
<1>3. CodeStep(out, b) \in Outs
  BY StepType
<1>4. Reply(cmd, CodeStep(out, b)) = Put(<<>>, Answer(cmd), CodeStep(out, b))
  BY <1>3, ReplyPut
<1> QED BY <1>1, <1>2, <1>4, PutType, PutStep

\* The end of a piece of n bytes from its last positions on.
LEMMA Endings ==
  ASSUME NEW d \in Seq(Bytes)
  PROVE  /\ SubSeq(d, Len(d) + 1, Len(d)) = <<>>
         /\ Len(d) > 0 => SubSeq(d, Len(d), Len(d)) = <<d[Len(d)]>>
         /\ Len(d) > 1 => SubSeq(d, Len(d) - 1, Len(d)) = <<d[Len(d) - 1], d[Len(d)]>>
<1> DEFINE n == Len(d)
<1>0. n \in Nat
  OBVIOUS
<1>1. SubSeq(d, n + 1, n) = <<>>
  OBVIOUS
<1>2. ASSUME n > 0 PROVE SubSeq(d, n, n) = <<d[n]>>
  <2> DEFINE x == SubSeq(d, n, n)
             y == <<d[n]>>
  <2>1. x \in Seq(Bytes) /\ Len(x) = 1 /\ x[1] = d[n]
    BY <1>2
  <2>2. y \in Seq(Bytes) /\ Len(y) = 1 /\ y[1] = d[n]
    BY <1>2
  <2> HIDE DEF x, y
  <2>3. x = y
    BY <2>1, <2>2, SeqEqual
  <2> QED BY <2>3 DEF x, y
<1>3. ASSUME n > 1 PROVE SubSeq(d, n - 1, n) = <<d[n - 1], d[n]>>
  <2> DEFINE x == SubSeq(d, n - 1, n)
             y == <<d[n - 1], d[n]>>
  <2>1. x \in Seq(Bytes) /\ Len(x) = 2 /\ x[1] = d[n - 1] /\ x[2] = d[n]
    BY <1>3
  <2>2. y \in Seq(Bytes) /\ Len(y) = 2 /\ y[1] = d[n - 1] /\ y[2] = d[n]
    BY <1>3
  <2> HIDE DEF x, y
  <2>3. x = y
    BY <2>1, <2>2, SeqEqual
  <2> QED BY <2>3 DEF x, y
<1> QED BY <1>1, <1>2, <1>3

-----------------------------------------------------------------------------
(***************************************************************************)
(* The scan of a piece with one more byte.                                 *)
(***************************************************************************)

LEMMA EndTypes ==
  /\ \A s \in BOOLEAN : Ends(<<>>, s) \in Outs /\ Ends(<<"IAC">>, s) \in Outs
  /\ \A o \in Options : Ends(<<"IAC", o>>, FALSE) \in Outs
<1>1. \A t, s : Ends(t, s) = Out(<<>>, <<>>, t, s)
  BY DEF Ends, Out
<1>2. <<>> \in Seq(Bytes) /\ <<>> \in Seq(Answers)
  OBVIOUS
<1>3. <<>> \in Tails /\ <<"IAC">> \in Tails /\ \A o \in Options : <<"IAC", o>> \in Tails
  BY DEF Tails
<1>4. ASSUME NEW s \in BOOLEAN PROVE Ends(<<>>, s) \in Outs /\ Ends(<<"IAC">>, s) \in Outs
  BY <1>1, <1>2, <1>3, InOuts
<1>5. ASSUME NEW o \in Options PROVE Ends(<<"IAC", o>>, FALSE) \in Outs
  BY <1>1, <1>2, <1>3, InOuts
<1> QED BY <1>4, <1>5

LEMMA EndStep ==
  ASSUME NEW t, NEW s, NEW b
  PROVE  CodeStep(Ends(t, s), b) = Out(Adds(t, s, b), Sends(t, s), NextTail(t, s, b), NextSub(t, s, b))
<1>2. Adds(t, s, b) = <<b>> \/ Adds(t, s, b) = <<"IAC">> \/ Adds(t, s, b) = <<>>
  BY DEF Adds
<1>4. <<b>> \in Seq({b}) /\ <<"IAC">> \in Seq({"IAC"}) /\ <<>> \in Seq({b})
  OBVIOUS
<1>5. <<>> \o Adds(t, s, b) = Adds(t, s, b)
  BY <1>2, <1>4, ConcatEmptySeq
<1>6. Sends(t, s) \in Seq(Answers)
  BY AnswerType DEF Sends
<1>7. <<>> \o Sends(t, s) = Sends(t, s)
  BY <1>6, ConcatEmptySeq
<1>8. /\ Ends(t, s).clean = <<>> /\ Ends(t, s).replies = <<>>
      /\ Ends(t, s).tail = t /\ Ends(t, s).sub = s
  BY DEF Ends
<1> QED BY <1>5, <1>7, <1>8 DEF CodeStep

\* What a byte does when the piece had ended.
LEMMA EndCases ==
  ASSUME NEW b \in Bytes
  PROVE  /\ \A s \in BOOLEAN : b = "IAC" => CodeStep(Ends(<<>>, s), b) = Ends(<<"IAC">>, s)
         /\ b # "IAC" => CodeStep(Ends(<<>>, FALSE), b) = Text(b, Ends(<<>>, FALSE))
         /\ b # "IAC" => CodeStep(Ends(<<>>, TRUE), b) = Ends(<<>>, TRUE)
         /\ b = "SE" => CodeStep(Ends(<<"IAC">>, TRUE), b) = Ends(<<>>, FALSE)
         /\ b = "IAC" => CodeStep(Ends(<<"IAC">>, TRUE), b) = Ends(<<"IAC">>, TRUE)
         /\ b \notin {"SE", "IAC"} => CodeStep(Ends(<<"IAC">>, TRUE), b) = Ends(<<>>, TRUE)
         /\ b = "IAC" => CodeStep(Ends(<<"IAC">>, FALSE), b) = Text("IAC", Ends(<<>>, FALSE))
         /\ b \in Options => CodeStep(Ends(<<"IAC">>, FALSE), b) = Ends(<<"IAC", b>>, FALSE)
         /\ b \notin Options \cup {"IAC"} =>
              CodeStep(Ends(<<"IAC">>, FALSE), b) = Ends(<<>>, b = "SB")
         /\ \A o \in Options :
              CodeStep(Ends(<<"IAC", o>>, FALSE), b) = Reply(o, Ends(<<>>, FALSE))
<1>1. \A t, s : Ends(t, s) = Out(<<>>, <<>>, t, s)
  BY DEF Ends, Out
<1>2. "IAC" \notin Options /\ "SB" \notin Options /\ "SE" \notin Options
  BY DEF Options
<1>3. \A s \in BOOLEAN : b = "IAC" => CodeStep(Ends(<<>>, s), b) = Ends(<<"IAC">>, s)
  <2>1. \A s \in BOOLEAN : b = "IAC" => /\ Adds(<<>>, s, b) = <<>> /\ Sends(<<>>, s) = <<>>
                                       /\ NextTail(<<>>, s, b) = <<"IAC">> /\ NextSub(<<>>, s, b) = s
    BY TailFacts DEF Adds, Sends, NextTail, NextSub
  <2> QED BY <1>1, <2>1, EndStep
<1>4. ASSUME NEW x, x \in Bytes
      PROVE  Text(x, Ends(<<>>, FALSE)) = Out(<<x>>, <<>>, <<>>, FALSE)
  <2>1. Text(x, Ends(<<>>, FALSE)) = Put(<<x>>, <<>>, Ends(<<>>, FALSE))
    BY <1>4, EndTypes, TextPut
  <2>2. <<x>> \o <<>> = <<x>> /\ <<>> \o <<>> = <<>>
    OBVIOUS
  <2>3. /\ Ends(<<>>, FALSE).clean = <<>> /\ Ends(<<>>, FALSE).replies = <<>>
        /\ Ends(<<>>, FALSE).tail = <<>> /\ Ends(<<>>, FALSE).sub = FALSE
    BY DEF Ends
  <2> QED BY <2>1, <2>2, <2>3 DEF Put
<1>5. b # "IAC" => CodeStep(Ends(<<>>, FALSE), b) = Text(b, Ends(<<>>, FALSE))
  <2>1. b # "IAC" => /\ Adds(<<>>, FALSE, b) = <<b>> /\ Sends(<<>>, FALSE) = <<>>
                     /\ NextTail(<<>>, FALSE, b) = <<>> /\ NextSub(<<>>, FALSE, b) = FALSE
    BY TailFacts DEF Adds, Sends, NextTail, NextSub
  <2>2. b # "IAC" => CodeStep(Ends(<<>>, FALSE), b) = Out(<<b>>, <<>>, <<>>, FALSE)
    BY <2>1, EndStep
  <2> QED BY <1>4, <2>2
<1>6. b # "IAC" => CodeStep(Ends(<<>>, TRUE), b) = Ends(<<>>, TRUE)
  <2>1. b # "IAC" => /\ Adds(<<>>, TRUE, b) = <<>> /\ Sends(<<>>, TRUE) = <<>>
                     /\ NextTail(<<>>, TRUE, b) = <<>> /\ NextSub(<<>>, TRUE, b) = TRUE
    BY TailFacts DEF Adds, Sends, NextTail, NextSub
  <2> QED BY <1>1, <2>1, EndStep
<1>7. Adds(<<"IAC">>, TRUE, b) = <<>> /\ Sends(<<"IAC">>, TRUE) = <<>>
  BY DEF Adds, Sends
<1>8. b = "SE" => CodeStep(Ends(<<"IAC">>, TRUE), b) = Ends(<<>>, FALSE)
  <2>1. b = "SE" => NextTail(<<"IAC">>, TRUE, b) = <<>> /\ NextSub(<<"IAC">>, TRUE, b) = FALSE
    BY DEF NextTail, NextSub
  <2> QED BY <1>1, <1>7, <2>1, EndStep
<1>9. b = "IAC" => CodeStep(Ends(<<"IAC">>, TRUE), b) = Ends(<<"IAC">>, TRUE)
  <2>1. b = "IAC" => NextTail(<<"IAC">>, TRUE, b) = <<"IAC">> /\ NextSub(<<"IAC">>, TRUE, b) = TRUE
    BY DEF NextTail, NextSub
  <2> QED BY <1>1, <1>7, <2>1, EndStep
<1>10. b \notin {"SE", "IAC"} => CodeStep(Ends(<<"IAC">>, TRUE), b) = Ends(<<>>, TRUE)
  <2>1. b \notin {"SE", "IAC"} =>
          NextTail(<<"IAC">>, TRUE, b) = <<>> /\ NextSub(<<"IAC">>, TRUE, b) = TRUE
    BY DEF NextTail, NextSub
  <2>2. b \notin {"SE", "IAC"} =>
          CodeStep(Ends(<<"IAC">>, TRUE), b) = Out(<<>>, <<>>, <<>>, TRUE)
    BY <1>7, <2>1, EndStep
  <2> QED BY <1>1, <2>2
<1>11. Sends(<<"IAC">>, FALSE) = <<>>
  BY DEF Sends
<1>12. b = "IAC" => CodeStep(Ends(<<"IAC">>, FALSE), b) = Text("IAC", Ends(<<>>, FALSE))
  <2>1. b = "IAC" => /\ Adds(<<"IAC">>, FALSE, b) = <<"IAC">>
                     /\ NextTail(<<"IAC">>, FALSE, b) = <<>> /\ NextSub(<<"IAC">>, FALSE, b) = FALSE
    BY <1>2, TailFacts DEF Adds, NextTail, NextSub
  <2>2. b = "IAC" => CodeStep(Ends(<<"IAC">>, FALSE), b) = Out(<<"IAC">>, <<>>, <<>>, FALSE)
    BY <1>11, <2>1, EndStep, ZenonT(30)
  <2>3. "IAC" \in Bytes
    BY DEF Bytes
  <2> QED BY <1>4, <2>2, <2>3
<1>13. b \in Options => CodeStep(Ends(<<"IAC">>, FALSE), b) = Ends(<<"IAC", b>>, FALSE)
  <2>1. b \in Options => /\ Adds(<<"IAC">>, FALSE, b) = <<>>
                         /\ NextTail(<<"IAC">>, FALSE, b) = <<"IAC", b>>
                         /\ NextSub(<<"IAC">>, FALSE, b) = FALSE
    BY <1>2, TailFacts DEF Adds, NextTail, NextSub
  <2> QED BY <1>1, <1>11, <2>1, EndStep
<1>14. b \notin Options \cup {"IAC"} =>
         CodeStep(Ends(<<"IAC">>, FALSE), b) = Ends(<<>>, b = "SB")
  <2> DEFINE v == b = "SB"
  <2>1. b \notin Options \cup {"IAC"} => /\ Adds(<<"IAC">>, FALSE, b) = <<>>
                                         /\ NextTail(<<"IAC">>, FALSE, b) = <<>>
                                         /\ NextSub(<<"IAC">>, FALSE, b) = v
    BY <1>2, TailFacts DEF Adds, NextTail, NextSub
  <2> HIDE DEF v
  <2>2. b \notin Options \cup {"IAC"} => CodeStep(Ends(<<"IAC">>, FALSE), b) = Ends(<<>>, v)
    BY <1>1, <1>11, <2>1, EndStep
  <2> QED BY <2>2 DEF v
<1>15. ASSUME NEW o \in Options
       PROVE  CodeStep(Ends(<<"IAC", o>>, FALSE), b) = Reply(o, Ends(<<>>, FALSE))
  <2> DEFINE t == <<"IAC", o>>
  <2>1. t # <<>> /\ t # <<"IAC">> /\ t[2] = o
    BY TailFacts
  <2> HIDE DEF t
  <2>2. /\ Adds(t, FALSE, b) = <<>> /\ Sends(t, FALSE) = Answer(o)
        /\ NextTail(t, FALSE, b) = <<>> /\ NextSub(t, FALSE, b) = FALSE
    BY <2>1 DEF Adds, Sends, NextTail, NextSub
  <2>3. CodeStep(Ends(t, FALSE), b) = Out(<<>>, Answer(o), <<>>, FALSE)
    BY <2>2, EndStep
  <2>4. Reply(o, Ends(<<>>, FALSE)) = Put(<<>>, Answer(o), Ends(<<>>, FALSE))
    BY EndTypes, ReplyPut
  <2>5. Answer(o) \o <<>> = Answer(o)
    BY AnswerType, ConcatEmptySeq
  <2>6. <<>> \o <<>> = <<>>
    OBVIOUS
  <2>7. /\ Ends(<<>>, FALSE).clean = <<>> /\ Ends(<<>>, FALSE).replies = <<>>
        /\ Ends(<<>>, FALSE).tail = <<>> /\ Ends(<<>>, FALSE).sub = FALSE
    BY DEF Ends
  <2>8. Put(<<>>, Answer(o), Ends(<<>>, FALSE)) = Out(<<>>, Answer(o), <<>>, FALSE)
    BY <2>5, <2>6, <2>7 DEF Put
  <2> QED BY <2>3, <2>4, <2>8 DEF t
<1> QED BY <1>3, <1>5, <1>6, <1>8, <1>9, <1>10, <1>12, <1>13, <1>14, <1>15

\* A turn over n bytes, case by case.
TurnIs(data, n, rest, i, sub, turn) ==
  LET c == data[i]
      o == data[i + 1]
  IN /\ i > n => turn = Ends(SubSeq(data, i, n), sub)
     /\ i = n /\ c = "IAC" => turn = Ends(SubSeq(data, i, n), sub)
     /\ i <= n /\ c # "IAC" /\ sub = TRUE => turn = rest[i + 1][TRUE]
     /\ i <= n /\ c # "IAC" /\ sub = FALSE => turn = Text(c, rest[i + 1][FALSE])
     /\ i < n /\ c = "IAC" /\ sub = TRUE /\ o = "SE" => turn = rest[i + 2][FALSE]
     /\ i < n /\ c = "IAC" /\ sub = TRUE /\ o # "SE" => turn = rest[i + 1][TRUE]
     /\ i < n /\ c = "IAC" /\ sub = FALSE /\ o = "IAC" => turn = Text("IAC", rest[i + 2][FALSE])
     /\ i < n /\ c = "IAC" /\ sub = FALSE /\ o \in Options /\ i + 1 = n =>
          turn = Ends(SubSeq(data, i, n), FALSE)
     /\ i < n /\ c = "IAC" /\ sub = FALSE /\ o \in Options /\ i + 1 # n =>
          turn = Reply(o, rest[i + 3][FALSE])
     /\ i < n /\ c = "IAC" /\ sub = FALSE /\ o \notin Options \cup {"IAC"} =>
          turn = rest[i + 2][o = "SB"]

LEMMA TurnCases ==
  ASSUME NEW data \in Seq(Bytes), NEW rest, NEW i \in 1 .. Len(data) + 1, NEW sub \in BOOLEAN
  PROVE  TurnIs(data, Len(data), rest, i, sub, Turn(data, rest, i, sub))
<1> DEFINE n == Len(data)
           turn == Turn(data, rest, i, sub)
           c == data[i]
           o == data[i + 1]
<1>1. n \in Nat /\ i \in Nat
  OBVIOUS
<1>2. "IAC" \notin Options
  BY DEF Options
<1>3. i > n => turn = Ends(SubSeq(data, i, n), sub)
  BY DEF Turn
<1>4. i = n /\ c = "IAC" => turn = Ends(SubSeq(data, i, n), sub)
  BY <1>1 DEF Turn
<1>5. ASSUME i <= n, c # "IAC"
      PROVE  turn = IF sub THEN rest[i + 1][TRUE] ELSE Text(c, rest[i + 1][FALSE])
  <2>1. ~(i > n)
    BY <1>1, <1>5
  <2> QED BY <1>5, <2>1, Zenon DEF Turn
<1>6. i <= n /\ c # "IAC" /\ sub = TRUE => turn = rest[i + 1][TRUE]
  BY <1>5
<1>7. i <= n /\ c # "IAC" /\ sub = FALSE => turn = Text(c, rest[i + 1][FALSE])
  BY <1>5
<1>8. i < n => ~(i > n) /\ i # n
  BY <1>1
<1>9. ASSUME i < n, c = "IAC", sub = TRUE
      PROVE  turn = IF o = "SE" THEN rest[i + 2][FALSE] ELSE rest[i + 1][TRUE]
  BY <1>8, <1>9 DEF Turn
<1>10. ASSUME i < n, c = "IAC", sub = FALSE
       PROVE  turn = IF o = "IAC" THEN Text("IAC", rest[i + 2][FALSE])
                     ELSE IF o \in Options THEN
                       IF i + 1 = n THEN Ends(SubSeq(data, i, n), FALSE)
                       ELSE Reply(o, rest[i + 3][FALSE])
                     ELSE rest[i + 2][o = "SB"]
  BY <1>8, <1>10 DEF Turn
<1>11. i < n /\ c = "IAC" /\ sub = TRUE /\ o = "SE" => turn = rest[i + 2][FALSE]
  BY <1>9
<1>12. i < n /\ c = "IAC" /\ sub = TRUE /\ o # "SE" => turn = rest[i + 1][TRUE]
  BY <1>9
<1>13. i < n /\ c = "IAC" /\ sub = FALSE /\ o = "IAC" => turn = Text("IAC", rest[i + 2][FALSE])
  BY <1>10
<1>14. i < n /\ c = "IAC" /\ sub = FALSE /\ o \in Options /\ i + 1 = n =>
         turn = Ends(SubSeq(data, i, n), FALSE)
  BY <1>2, <1>10
<1>15. i < n /\ c = "IAC" /\ sub = FALSE /\ o \in Options /\ i + 1 # n =>
         turn = Reply(o, rest[i + 3][FALSE])
  BY <1>2, <1>10
<1>16. i < n /\ c = "IAC" /\ sub = FALSE /\ o \notin Options \cup {"IAC"} =>
         turn = rest[i + 2][o = "SB"]
  BY <1>10
<1> HIDE DEF turn
<1> QED BY <1>3, <1>4, <1>6, <1>7, <1>11, <1>12, <1>13, <1>14, <1>15, <1>16 DEF turn, TurnIs

\* If the scans are in step from the next position on, they are so from this one on.
LEMMA AppendTurn ==
  ASSUME NEW d \in Seq(Bytes), NEW b \in Bytes, NEW f, NEW g, Scans(d, f), Scans(Append(d, b), g),
         NEW i \in 1 .. Len(d) + 1, NEW sub \in BOOLEAN,
         \A j \in i + 1 .. Len(d) + 1 : \A s \in BOOLEAN :
           f[j][s] \in Outs /\ g[j][s] = CodeStep(f[j][s], b)
  PROVE  f[i][sub] \in Outs /\ g[i][sub] = CodeStep(f[i][sub], b)
<1> DEFINE n == Len(d)
           e == Append(d, b)
           S(out) == CodeStep(out, b)
<1>1. /\ n \in Nat /\ e \in Seq(Bytes) /\ Len(e) = n + 1 /\ e[n + 1] = b
      /\ \A j \in 1 .. n : e[j] = d[j] /\ d[j] \in Bytes
  OBVIOUS
<1>2. /\ SubSeq(d, n + 1, n) = <<>>
      /\ n > 0 => SubSeq(d, n, n) = <<d[n]>>
      /\ n > 1 => SubSeq(d, n - 1, n) = <<d[n - 1], d[n]>>
  BY Endings
<1>3. /\ SubSeq(e, n + 2, n + 1) = <<>> /\ SubSeq(e, n + 1, n + 1) = <<b>>
      /\ n > 0 => SubSeq(e, n, n + 1) = <<d[n], b>>
  <2> HIDE DEF e
  <2>1. /\ SubSeq(e, Len(e) + 1, Len(e)) = <<>>
        /\ Len(e) > 0 => SubSeq(e, Len(e), Len(e)) = <<e[Len(e)]>>
        /\ Len(e) > 1 => SubSeq(e, Len(e) - 1, Len(e)) = <<e[Len(e) - 1], e[Len(e)]>>
    BY <1>1, Endings
  <2>2. (n + 1) + 1 = n + 2 /\ (n + 1) - 1 = n /\ (n > 0 => n \in 1 .. n)
    BY <1>1
  <2> QED BY <1>1, <2>1, <2>2
<1> HIDE DEF n, e
<1>4. f[i][sub] = Turn(d, f, i, sub) /\ g[i][sub] = Turn(e, g, i, sub)
  <2>1. i \in 1 .. Len(e) + 1
    BY <1>1 DEF n
  <2> QED BY <2>1, ScanAt DEF e
<1>5. \A s \in BOOLEAN : g[n + 2][s] = Ends(<<>>, s)
  <2>1. n + 2 \in 1 .. Len(e) + 1 /\ n + 2 > Len(e)
    BY <1>1
  <2> SUFFICES ASSUME NEW s \in BOOLEAN PROVE g[n + 2][s] = Ends(<<>>, s)
    OBVIOUS
  <2>2. g[n + 2][s] = Turn(e, g, n + 2, s)
    BY <2>1, ScanAt DEF e
  <2>3. Turn(e, g, n + 2, s) = Ends(SubSeq(e, n + 2, Len(e)), s)
    BY <1>1, <2>1, TurnCases DEF TurnIs
  <2> QED BY <1>1, <1>3, <2>2, <2>3
<1>6. \A j \in i + 1 .. n + 1 : \A s \in BOOLEAN : f[j][s] \in Outs /\ g[j][s] = S(f[j][s])
  BY DEF n
<1>7. i \in Nat /\ i >= 1 /\ i <= n + 1
  BY <1>1 DEF n
<1> DEFINE F == Turn(d, f, i, sub)
           G == Turn(e, g, i, sub)
           c == d[i]
           o == d[i + 1]
<1> HIDE DEF S
<1>8. TurnIs(d, n, f, i, sub, F)
  BY TurnCases DEF n
<1>9. TurnIs(e, n + 1, g, i, sub, G)
  <2>1. i \in 1 .. Len(e) + 1 /\ Len(e) = n + 1
    BY <1>1 DEF n
  <2> QED BY <1>1, <2>1, TurnCases
<1>10. "IAC" \in Bytes
  BY DEF Bytes
<1> SUFFICES F \in Outs /\ G = S(F)
  BY <1>4 DEF S
<1> HIDE DEF F, G
<1>11. CASE i = n + 1
  <2>0. i > n /\ e[i] = b /\ i <= n + 1 /\ i + 1 = n + 2
    BY <1>1, <1>7, <1>11
  <2>1. F = Ends(<<>>, sub) /\ F \in Outs /\ e[i] = b /\ i > n
    <3>1. F = Ends(SubSeq(d, i, n), sub)
      BY <1>8, <2>0 DEF TurnIs
    <3>2. F = Ends(<<>>, sub)
      BY <1>2, <1>11, <3>1
    <3> QED BY <2>0, <3>2, EndTypes
  <2>2. CASE b = "IAC"
    <3>1. G = Ends(<<"IAC">>, sub)
      BY <1>1, <1>3, <1>9, <1>11, <2>1, <2>2 DEF TurnIs
    <3> QED BY <2>1, <2>2, <3>1, EndCases DEF S
  <2>3. CASE b # "IAC" /\ sub = TRUE
    <3>1. G = Ends(<<>>, TRUE)
      <4>1. G = g[i + 1][TRUE]
        BY <1>9, <2>0, <2>3 DEF TurnIs
      <4> QED BY <1>5, <2>0, <4>1
    <3> QED BY <2>1, <2>3, <3>1, EndCases DEF S
  <2>4. CASE b # "IAC" /\ sub = FALSE
    <3>1. G = Text(b, Ends(<<>>, FALSE))
      <4>1. G = Text(b, g[i + 1][FALSE])
        BY <1>9, <2>0, <2>4 DEF TurnIs
      <4> QED BY <1>5, <2>0, <4>1
    <3> QED BY <2>1, <2>4, <3>1, EndCases DEF S
  <2> QED BY <2>2, <2>3, <2>4
<1>12. CASE i = n /\ c = "IAC"
  <2>1. /\ F = Ends(<<"IAC">>, sub) /\ F \in Outs /\ e[i] = "IAC" /\ e[i + 1] = b
        /\ i < n + 1 /\ i + 1 = n + 1 /\ n > 0 /\ i + 2 = n + 2
    <3>1. n > 0 /\ i \in 1 .. n
      BY <1>1, <1>7, <1>12
    <3>2. F = Ends(SubSeq(d, i, n), sub)
      BY <1>8, <1>12 DEF TurnIs
    <3>3. SubSeq(d, i, n) = <<"IAC">>
      BY <1>2, <1>12, <3>1
    <3>4. F = Ends(<<"IAC">>, sub) /\ F \in Outs
      BY <3>2, <3>3, EndTypes
    <3>5. e[i] = "IAC" /\ e[i + 1] = b /\ i < n + 1 /\ i + 1 = n + 1 /\ i + 2 = n + 2
      BY <1>1, <1>12, <3>1
    <3> QED BY <3>1, <3>4, <3>5
  <2>2. \A s \in BOOLEAN : g[n + 1][s] = S(Ends(<<>>, s))
    <3>1. f[n + 1] = f[n + 1] /\ n + 1 \in i + 1 .. n + 1
      BY <1>1, <1>12
    <3>2. \A s \in BOOLEAN : f[n + 1][s] = Ends(<<>>, s)
      <4>1. n + 1 \in 1 .. Len(d) + 1 /\ n + 1 > Len(d)
        BY <1>1 DEF n
      <4>2. \A s \in BOOLEAN : f[n + 1][s] = Turn(d, f, n + 1, s)
        BY <4>1, ScanAt
      <4>3. \A s \in BOOLEAN : Turn(d, f, n + 1, s) = Ends(SubSeq(d, n + 1, n), s)
        BY <4>1, TurnCases DEF n, TurnIs
      <4> QED BY <1>2, <4>2, <4>3
    <3> QED BY <1>6, <3>1, <3>2
  <2>3. CASE sub = TRUE /\ b = "SE"
    <3>1. G = Ends(<<>>, FALSE)
      BY <1>5, <1>9, <2>1, <2>3 DEF TurnIs
    <3> QED BY <2>1, <2>3, <3>1, EndCases DEF S
  <2>4. CASE sub = TRUE /\ b = "IAC"
    <3>1. G = S(Ends(<<>>, TRUE))
      BY <1>9, <2>1, <2>2, <2>4 DEF TurnIs
    <3>2. S(Ends(<<>>, TRUE)) = Ends(<<"IAC">>, TRUE)
      BY <2>4, EndCases DEF S
    <3>3. S(Ends(<<"IAC">>, TRUE)) = Ends(<<"IAC">>, TRUE)
      BY <2>4, EndCases DEF S
    <3> QED BY <2>1, <2>4, <3>1, <3>2, <3>3
  <2>5. CASE sub = TRUE /\ b \notin {"SE", "IAC"}
    <3>1. G = S(Ends(<<>>, TRUE))
      BY <1>9, <2>1, <2>2, <2>5 DEF TurnIs
    <3>2. S(Ends(<<>>, TRUE)) = Ends(<<>>, TRUE)
      BY <2>5, EndCases DEF S
    <3>3. S(Ends(<<"IAC">>, TRUE)) = Ends(<<>>, TRUE)
      BY <2>5, EndCases DEF S
    <3> QED BY <2>1, <2>5, <3>1, <3>2, <3>3
  <2>6. CASE sub = FALSE /\ b = "IAC"
    <3>1. G = Text("IAC", Ends(<<>>, FALSE))
      BY <1>5, <1>9, <2>1, <2>6 DEF TurnIs
    <3> QED BY <2>1, <2>6, <3>1, EndCases DEF S
  <2>7. CASE sub = FALSE /\ b \in Options
    <3>1. G = Ends(<<"IAC", b>>, FALSE)
      BY <1>3, <1>9, <1>12, <2>1, <2>7 DEF TurnIs
    <3> QED BY <2>1, <2>7, <3>1, EndCases DEF S
  <2>8. CASE sub = FALSE /\ b \notin Options \cup {"IAC"}
    <3>1. G = Ends(<<>>, b = "SB")
      BY <1>5, <1>9, <2>1, <2>8 DEF TurnIs
    <3>2. S(Ends(<<"IAC">>, FALSE)) = Ends(<<>>, b = "SB")
      BY <2>8, EndCases DEF S
    <3> QED BY <2>1, <2>8, <3>1, <3>2
  <2> QED BY <2>3, <2>4, <2>5, <2>6, <2>7, <2>8
<1>13. CASE i <= n /\ c # "IAC"
  <2>1. e[i] = c /\ c \in Bytes /\ i <= n + 1 /\ i + 1 \in i + 1 .. n + 1
    BY <1>1, <1>7, <1>13
  <2>2. \A s \in BOOLEAN : f[i + 1][s] \in Outs /\ g[i + 1][s] = S(f[i + 1][s])
    BY <1>6, <2>1
  <2>3. CASE sub = TRUE
    BY <1>8, <1>9, <1>13, <2>1, <2>2, <2>3 DEF TurnIs
  <2>4. CASE sub = FALSE
    <3>1. F = Text(c, f[i + 1][FALSE]) /\ G = Text(c, S(f[i + 1][FALSE]))
      BY <1>8, <1>9, <1>13, <2>1, <2>2, <2>4 DEF TurnIs
    <3> QED BY <2>1, <2>2, <3>1, TextStep DEF S
  <2> QED BY <2>3, <2>4
<1>14. CASE i < n /\ c = "IAC"
  <2>1. /\ e[i] = "IAC" /\ e[i + 1] = o /\ o \in Bytes /\ i <= n /\ i < n + 1 /\ i + 1 # n + 1
        /\ i + 1 \in i + 1 .. n + 1 /\ i + 2 \in i + 1 .. n + 1
        /\ i + 1 # n => i + 3 \in i + 1 .. n + 1
    <3>1. i \in 1 .. n /\ i + 1 \in 1 .. n
      BY <1>1, <1>7, <1>14
    <3> QED BY <1>1, <1>7, <1>14, <3>1
  <2>2. \A s \in BOOLEAN : /\ f[i + 1][s] \in Outs /\ g[i + 1][s] = S(f[i + 1][s])
                          /\ f[i + 2][s] \in Outs /\ g[i + 2][s] = S(f[i + 2][s])
    BY <1>6, <2>1
  <2>3. CASE sub = TRUE
    BY <1>8, <1>9, <1>14, <2>1, <2>2, <2>3 DEF TurnIs
  <2>4. CASE sub = FALSE /\ o = "IAC"
    <3>1. F = Text("IAC", f[i + 2][FALSE]) /\ G = Text("IAC", S(f[i + 2][FALSE]))
      BY <1>8, <1>9, <1>14, <2>1, <2>2, <2>4 DEF TurnIs
    <3> QED BY <1>10, <2>2, <3>1, TextStep DEF S
  <2>5. CASE sub = FALSE /\ o \in Options /\ i + 1 # n
    <3>1. f[i + 3][FALSE] \in Outs /\ g[i + 3][FALSE] = S(f[i + 3][FALSE])
      BY <1>6, <2>1, <2>5
    <3>2. F = Reply(o, f[i + 3][FALSE]) /\ G = Reply(o, S(f[i + 3][FALSE]))
      BY <1>8, <1>9, <1>14, <2>1, <2>5, <3>1 DEF TurnIs
    <3> QED BY <2>5, <3>1, <3>2, ReplyStep DEF S
  <2>6. CASE sub = FALSE /\ o \in Options /\ i + 1 = n
    <3>1. SubSeq(d, i, n) = <<"IAC", o>>
      <4>1. n > 1 /\ n - 1 = i
        BY <1>1, <1>7, <2>6
      <4> QED BY <1>2, <1>14, <2>6, <4>1
    <3>2. F = Ends(<<"IAC", o>>, FALSE)
      BY <1>8, <1>14, <2>6, <3>1 DEF TurnIs
    <3>3. i + 3 = n + 2
      BY <1>1, <1>7, <2>6
    <3>4. G = Reply(o, Ends(<<>>, FALSE))
      BY <1>5, <1>9, <2>1, <2>6, <3>3 DEF TurnIs
    <3> QED BY <2>6, <3>2, <3>4, EndTypes, EndCases DEF S
  <2>7. CASE sub = FALSE /\ o \notin Options \cup {"IAC"}
    <3> DEFINE v == o = "SB"
    <3>1. F = f[i + 2][v] /\ G = g[i + 2][v]
      BY <1>8, <1>9, <1>14, <2>1, <2>7 DEF TurnIs
    <3>2. v \in BOOLEAN
      OBVIOUS
    <3> HIDE DEF v
    <3> QED BY <2>2, <3>1, <3>2
  <2> QED BY <2>3, <2>4, <2>5, <2>6, <2>7
<1> QED BY <1>1, <1>7, <1>11, <1>12, <1>13, <1>14

LEMMA ScansAgree ==
  ASSUME NEW d \in Seq(Bytes), NEW b \in Bytes, NEW f, NEW g, Scans(d, f), Scans(Append(d, b), g)
  PROVE  f[1][FALSE] \in Outs /\ g[1][FALSE] = CodeStep(f[1][FALSE], b)
<1> DEFINE n == Len(d)
           Step(j) == \A s \in BOOLEAN : f[j][s] \in Outs /\ g[j][s] = CodeStep(f[j][s], b)
           T == {k \in 0 .. n : ~Step((n + 1) - k)}
<1>0. n \in Nat
  OBVIOUS
<1>1. ASSUME NEW i \in 1 .. n + 1, \A j \in i + 1 .. n + 1 : Step(j) PROVE Step(i)
  BY <1>1, AppendTurn
<1> HIDE DEF Step
<1>2. T = {}
  <2> SUFFICES ASSUME T # {} PROVE FALSE
    OBVIOUS
  <2>1. PICK k \in T : \A m \in T : k <= m
    <3>1. T \in SUBSET Nat
      BY <1>0
    <3> HIDE DEF T
    <3> QED BY <3>1, NatMin
  <2>2. k \in 0 .. n /\ ~Step((n + 1) - k)
    OBVIOUS
  <2> DEFINE i == (n + 1) - k
  <2>3. ASSUME NEW j \in i + 1 .. n + 1 PROVE Step(j)
    <3> DEFINE m == (n + 1) - j
    <3>1. m \in 0 .. n /\ m < k /\ j = (n + 1) - m
      BY <1>0, <2>2
    <3>2. m \notin T
      <4> HIDE DEF T, m
      <4> QED BY <1>0, <2>1, <2>2, <3>1
    <3> HIDE DEF m
    <3> QED BY <3>1, <3>2
  <2>4. i \in 1 .. n + 1
    BY <1>0, <2>2
  <2> QED BY <1>1, <2>2, <2>3, <2>4
<1>3. n \in 0 .. n /\ (n + 1) - n = 1
  BY <1>0
<1>4. Step(1)
  BY <1>2, <1>3
<1> QED BY <1>4 DEF Step

LEMMA ProcessAppend ==
  ASSUME NEW d \in Seq(Bytes), NEW b \in Bytes
  PROVE  Process(d) \in Outs /\ Process(Append(d, b)) = CodeStep(Process(d), b)
<1>1. PICK f : Scans(d, f) /\ Process(d) = f[1][FALSE]
  BY ProcessScans
<1>2. Append(d, b) \in Seq(Bytes)
  OBVIOUS
<1>3. PICK g : Scans(Append(d, b), g) /\ Process(Append(d, b)) = g[1][FALSE]
  BY <1>2, ProcessScans
<1>4. f[1][FALSE] \in Outs /\ g[1][FALSE] = CodeStep(f[1][FALSE], b)
  BY <1>1, <1>3, ScansAgree
<1> QED BY <1>1, <1>3, <1>4

\* A tail, processed again, is kept again.
LEMMA ProcessTail == ASSUME NEW t \in Tails PROVE Process(t) = Ends(t, FALSE)
<1> DEFINE e == <<>>
<1>1. e \in Seq(Bytes) /\ Len(e) = 0
  OBVIOUS
<1>2. Process(e) = Ends(<<>>, FALSE)
  <2>1. PICK f : Scans(e, f) /\ Process(e) = f[1][FALSE]
    BY <1>1, ProcessScans
  <2>2. f[1][FALSE] = Turn(e, f, 1, FALSE)
    <3>1. 1 \in 1 .. Len(e) + 1
      BY <1>1
    <3> QED BY <2>1, <3>1, ScanAt
  <2>3. Turn(e, f, 1, FALSE) = Ends(SubSeq(e, 1, 0), FALSE)
    BY <1>1 DEF Turn
  <2>4. SubSeq(e, 1, 0) = <<>>
    OBVIOUS
  <2> QED BY <2>1, <2>2, <2>3, <2>4
<1>3. "IAC" \in Bytes /\ Options \subseteq Bytes
  BY DEF Bytes
<1>4. Process(<<"IAC">>) = Ends(<<"IAC">>, FALSE)
  <2>1. Append(e, "IAC") = <<"IAC">>
    OBVIOUS
  <2>2. Process(Append(e, "IAC")) = CodeStep(Ends(<<>>, FALSE), "IAC")
    BY <1>1, <1>2, <1>3, ProcessAppend
  <2>3. CodeStep(Ends(<<>>, FALSE), "IAC") = Ends(<<"IAC">>, FALSE)
    BY <1>3, EndCases
  <2> QED BY <2>1, <2>2, <2>3
<1>5. ASSUME NEW o \in Options PROVE Process(<<"IAC", o>>) = Ends(<<"IAC", o>>, FALSE)
  <2> DEFINE c == <<"IAC">>
  <2>1. Append(c, o) = <<"IAC", o>> /\ c \in Seq(Bytes)
    <3>1. c \in Seq(Bytes)
      BY <1>3
    <3> DEFINE x == Append(c, o)
               y == <<"IAC", o>>
    <3>2. x \in Seq(Bytes) /\ Len(x) = 2 /\ x[1] = "IAC" /\ x[2] = o
      BY <1>3
    <3>3. y \in Seq(Bytes) /\ Len(y) = 2 /\ y[1] = "IAC" /\ y[2] = o
      BY <1>3
    <3> HIDE DEF x, y
    <3>4. x = y
      BY <3>2, <3>3, SeqEqual
    <3> QED BY <3>1, <3>4 DEF x, y
  <2>2. Process(Append(c, o)) = CodeStep(Ends(c, FALSE), o)
    <3> HIDE DEF c
    <3>1. Process(c) = Ends(c, FALSE)
      BY <1>4 DEF c
    <3> QED BY <1>3, <2>1, <3>1, ProcessAppend
  <2>3. CodeStep(Ends(c, FALSE), o) = Ends(<<"IAC", o>>, FALSE)
    BY <1>3, EndCases
  <2> QED BY <2>1, <2>2, <2>3
<1> QED BY <1>2, <1>4, <1>5 DEF Tails

\* A byte put after two pieces is put after the second.
LEMMA AppendAfter ==
  ASSUME NEW S, NEW x \in Seq(S), NEW y \in Seq(S), NEW e \in S
  PROVE  x \o Append(y, e) = Append(x \o y, e)
<1> DEFINE w == <<e>>
<1>1. w \in Seq(S) /\ x \o y \in Seq(S)
  OBVIOUS
<1>2. Append(x \o y, e) = (x \o y) \o w /\ Append(y, e) = y \o w
  BY <1>1, AppendIsConcat
<1> HIDE DEF w
<1>3. (x \o y) \o w = x \o (y \o w)
  BY <1>1, ConcatAssociative
<1> QED BY <1>2, <1>3

LEMMA TailsBytes == Tails \subseteq Seq(Bytes)
<1>1. "IAC" \in Bytes /\ Options \subseteq Bytes
  BY DEF Bytes
<1>2. <<>> \in Seq(Bytes) /\ <<"IAC">> \in Seq(Bytes)
  BY <1>1
<1>3. ASSUME NEW o \in Options PROVE <<"IAC", o>> \in Seq(Bytes)
  BY <1>1
<1> QED BY <1>2, <1>3 DEF Tails

\* A set of streams that has the empty one, and every longer one of each, has all.
LEMMA StreamInduction ==
  ASSUME NEW S, NEW A \in SUBSET Seq(S), <<>> \in A, \A x \in A, b \in S : Append(x, b) \in A
  PROVE  Seq(S) \subseteq A
<1> DEFINE T == {n \in Nat : \E x \in Seq(S) : x \notin A /\ Len(x) = n}
<1> SUFFICES ASSUME NEW z \in Seq(S), z \notin A PROVE FALSE
  OBVIOUS
<1>1. PICK n \in T : \A m \in T : n <= m
  <2>1. T \in SUBSET Nat /\ T # {}
    <3>1. Len(z) \in T
      OBVIOUS
    <3> QED BY <3>1
  <2> HIDE DEF T
  <2> QED BY <2>1, NatMin
<1>2. PICK x \in Seq(S) : x \notin A /\ Len(x) = n
  OBVIOUS
<1>3. x # <<>>
  BY <1>2
<1>4. PICK y \in Seq(S), b \in S : x = Append(y, b)
  BY <1>2, <1>3, SequenceEmptyOrAppend
<1>5. Len(y) \in Nat /\ Len(y) < n
  <2>1. Len(y) \in Nat /\ Len(x) = Len(y) + 1
    BY <1>4
  <2> QED BY <1>2, <2>1
<1>6. y \in A
  BY <1>1, <1>5
<1> QED BY <1>2, <1>4, <1>6

\* A stream may be cut anywhere but inside a subnegotiation: the first piece and
\* then its tail with the second give the same text, replies and tail as the whole.
THEOREM CutAnywhere ==
  ASSUME NEW d \in Seq(Bytes), NEW e \in Seq(Bytes), Process(d).sub = FALSE
  PROVE  LET first == Process(d)
             second == Process(first.tail \o e)
         IN Process(d \o e) = Out(first.clean \o second.clean, first.replies \o second.replies,
                                  second.tail, second.sub)
<1> DEFINE first == Process(d)
           t == first.tail
           c == first.clean
           r == first.replies
           P(x) == Process(d \o x) = Put(c, r, Process(t \o x))
           A == {x \in Seq(Bytes) : P(x)}
<1>1. "IAC" \in Bytes
  BY DEF Bytes
<1>2. first \in Outs
  BY <1>1, ProcessAppend
<1>3. /\ c \in Seq(Bytes) /\ r \in Seq(Answers) /\ t \in Tails /\ t \in Seq(Bytes)
      /\ first = Out(c, r, t, FALSE)
  BY <1>2, OutsFields, TailsBytes
<1>4. P(<<>>)
  <2>1. Process(t) = Ends(t, FALSE)
    BY <1>3, ProcessTail
  <2>2. d \o <<>> = d /\ t \o <<>> = t /\ c \o <<>> = c /\ r \o <<>> = r
    <3> HIDE DEF t, c, r
    <3> QED BY <1>3, ConcatEmptySeq
  <2>3. /\ Ends(t, FALSE).clean = <<>> /\ Ends(t, FALSE).replies = <<>>
        /\ Ends(t, FALSE).tail = t /\ Ends(t, FALSE).sub = FALSE
    BY DEF Ends
  <2> HIDE DEF first, t, c, r
  <2>4. Put(c, r, Ends(t, FALSE)) = Out(c, r, t, FALSE)
    BY <2>2, <2>3 DEF Put
  <2> QED BY <1>3, <2>1, <2>2, <2>4 DEF first
<1>5. ASSUME NEW x \in Seq(Bytes), P(x), NEW b \in Bytes PROVE P(Append(x, b))
  <2> HIDE DEF t, c, r
  <2>1. d \o x \in Seq(Bytes) /\ t \o x \in Seq(Bytes)
    BY <1>3
  <2>2. \A y, z \in Seq(Bytes) : y \o Append(z, b) = Append(y \o z, b)
    BY AppendAfter
  <2>3. d \o Append(x, b) = Append(d \o x, b) /\ t \o Append(x, b) = Append(t \o x, b)
    BY <1>3, <2>2
  <2>4. Process(Append(d \o x, b)) = CodeStep(Process(d \o x), b)
    BY <2>1, ProcessAppend
  <2>5. Process(t \o x) \in Outs /\ Process(Append(t \o x, b)) = CodeStep(Process(t \o x), b)
    BY <2>1, ProcessAppend
  <2>6. CodeStep(Put(c, r, Process(t \o x)), b) = Put(c, r, CodeStep(Process(t \o x), b))
    BY <1>3, <2>5, PutStep
  <2> QED BY <1>5, <2>3, <2>4, <2>5, <2>6
<1> HIDE DEF P
<1>6. P(e)
  <2>1. <<>> \in A /\ \A x \in A, b \in Bytes : Append(x, b) \in A
    BY <1>4, <1>5
  <2>2. A \in SUBSET Seq(Bytes)
    OBVIOUS
  <2> HIDE DEF A
  <2>3. Seq(Bytes) \subseteq A
    BY <2>1, <2>2, StreamInduction
  <2> QED BY <2>3 DEF A
<1> QED BY <1>6 DEF P, Put

-----------------------------------------------------------------------------
(***************************************************************************)
(* The session.  What is kept and what has arrived give, byte by byte,     *)
(* what the uncut stream gives, in a state that goes with that of RFC 854: *)
(* only the escape of a subnegotiation may be taken for one outside of it, *)
(* after a cut, and both end alike with SE.                                *)
(***************************************************************************)

Modes == {"data", "IAC", "SB", "SB IAC"} \cup Options
Ideals == [mode : Modes, clean : Seq(Bytes), replies : Seq(Answers)]

\* The state of the code's automaton goes with that of the reference.
Goes(t, s, mode) ==
  \/ s = FALSE /\ t = <<>> /\ mode = "data"
  \/ s = FALSE /\ t = <<"IAC">> /\ mode \in {"IAC", "SB IAC"}
  \/ s = FALSE /\ mode \in Options /\ t = <<"IAC", mode>>
  \/ s = TRUE /\ t = <<>> /\ mode = "SB"
  \/ s = TRUE /\ t = <<"IAC">> /\ mode = "SB IAC"

\* out is what is still to be added to the transcript and the replies.
Agrees(out) ==
  /\ transcript \o out.clean = ideal.clean
  /\ replied \o out.replies = ideal.replies
  /\ Goes(out.tail, out.sub, ideal.mode)

Control ==
  /\ pc = "connect" => attempt < Attempts
  /\ pc = "readNode" => attempt = 0
  /\ pc = "write" => left > 0

Stream == ~risky => Agrees(Process(pending \o arrived))

IInv == TypeOK /\ ideal \in Ideals /\ Control /\ Stream

LEMMA IdealFields ==
  ASSUME NEW s \in Ideals
  PROVE  /\ s = Ideal(s.mode, s.clean, s.replies)
         /\ s.mode \in Modes /\ s.clean \in Seq(Bytes) /\ s.replies \in Seq(Answers)
BY DEF Ideals, Ideal

\* A step of the reference, mode by mode.
RefIs(m, c, r, b, t) ==
  /\ m = "data" /\ b = "IAC" => t = Ideal("IAC", c, r)
  /\ m = "data" /\ b # "IAC" => t = Ideal("data", Append(c, b), r)
  /\ m = "IAC" /\ b = "IAC" => t = Ideal("data", Append(c, "IAC"), r)
  /\ m = "IAC" /\ b \in Options \cup {"SB"} => t = Ideal(b, c, r)
  /\ m = "IAC" /\ b = "x" => t = Ideal("data", c, r)
  /\ m = "WILL" => t = Ideal("data", c, Append(r, "DONT"))
  /\ m = "DO" => t = Ideal("data", c, Append(r, "WONT"))
  /\ m = "WONT" => t = Ideal("data", c, r)
  /\ m = "SB" => t = Ideal(IF b = "IAC" THEN "SB IAC" ELSE "SB", c, r)
  /\ m = "SB IAC" => t = Ideal(IF b = "SE" THEN "data" ELSE "SB", c, r)

LEMMA RefCases ==
  ASSUME NEW s, NEW b
  PROVE  RefIs(s.mode, s.clean, s.replies, b, RefStep(s, b))
<1> DEFINE m == s.mode
           c == s.clean
           r == s.replies
           t == RefStep(s, b)
<1>1. m = "data" => t = IF b = "IAC" THEN Ideal("IAC", c, r) ELSE Ideal("data", Append(c, b), r)
  BY DEF RefStep
<1>2. m = "IAC" /\ b = "IAC" => t = Ideal("data", Append(c, "IAC"), r)
  BY DEF RefStep, Options
<1>3. m = "IAC" /\ b \in Options \cup {"SB"} => t = Ideal(b, c, r)
  BY DEF RefStep, Options
<1>4. m = "IAC" /\ b = "x" => t = Ideal("data", c, r)
  BY DEF RefStep, Options
<1>5. m = "WILL" => t = Ideal("data", c, Append(r, "DONT"))
  BY DEF RefStep
<1>6. m = "DO" => t = Ideal("data", c, Append(r, "WONT"))
  BY DEF RefStep
<1>7. m = "WONT" => t = Ideal("data", c, r)
  BY DEF RefStep
<1>8. m = "SB" => t = Ideal(IF b = "IAC" THEN "SB IAC" ELSE "SB", c, r)
  BY DEF RefStep
<1>9. m = "SB IAC" => t = Ideal(IF b = "SE" THEN "data" ELSE "SB", c, r)
  BY DEF RefStep
<1> HIDE DEF m, c, r, t
<1>10. RefIs(m, c, r, b, t)
  BY <1>1, <1>2, <1>3, <1>4, <1>5, <1>6, <1>7, <1>8, <1>9 DEF RefIs
<1> QED BY <1>10 DEF m, c, r, t

LEMMA InIdeals ==
  ASSUME NEW m \in Modes, NEW c \in Seq(Bytes), NEW r \in Seq(Answers)
  PROVE  Ideal(m, c, r) \in Ideals
BY DEF Ideal, Ideals

LEMMA LegalBytes ==
  ASSUME ideal \in Ideals
  PROVE  /\ Legal \subseteq Bytes
         /\ ideal.mode \in {"data", "SB"} => Legal = {"x", "SE", "IAC"}
         /\ ideal.mode = "IAC" => Legal = Options \cup {"x", "SB", "IAC"}
         /\ ideal.mode \in Options => Legal = {"x"}
         /\ ideal.mode = "SB IAC" => Legal = {"SE", "IAC"}
<1> DEFINE m == ideal.mode
<1>1. m \in Modes
  BY IdealFields
<1>2. m \in {"data", "SB"} => Legal = {"x", "SE", "IAC"}
  BY DEF Legal, Options
<1>3. m = "IAC" => Legal = Options \cup {"x", "SB", "IAC"}
  BY DEF Legal, Options
<1>4. m \in Options => Legal = {"x"}
  BY DEF Legal, Options
<1>5. m = "SB IAC" => Legal = {"SE", "IAC"}
  BY DEF Legal, Options
<1>6. /\ {"x", "SE", "IAC"} \subseteq Bytes /\ Options \cup {"x", "SB", "IAC"} \subseteq Bytes
      /\ {"x"} \subseteq Bytes /\ {"SE", "IAC"} \subseteq Bytes
  BY DEF Bytes
<1> QED BY <1>1, <1>2, <1>3, <1>4, <1>5, <1>6 DEF Modes

LEMMA RefType ==
  ASSUME ideal \in Ideals, NEW b \in Legal
  PROVE  RefStep(ideal, b) \in Ideals
<1> DEFINE m == ideal.mode
           c == ideal.clean
           r == ideal.replies
           t == RefStep(ideal, b)
<1>1. m \in Modes /\ c \in Seq(Bytes) /\ r \in Seq(Answers)
  BY IdealFields
<1>2. b \in Bytes /\ "IAC" \in Bytes /\ "DONT" \in Answers /\ "WONT" \in Answers
  BY LegalBytes DEF Bytes, Answers
<1>3. /\ Append(c, b) \in Seq(Bytes) /\ Append(c, "IAC") \in Seq(Bytes)
      /\ Append(r, "DONT") \in Seq(Answers) /\ Append(r, "WONT") \in Seq(Answers)
  <2> HIDE DEF c, r
  <2> QED BY <1>1, <1>2
<1>4. RefIs(m, c, r, b, t)
  BY RefCases
<1>5. /\ "data" \in Modes /\ "IAC" \in Modes /\ "SB" \in Modes /\ "SB IAC" \in Modes
      /\ Options \subseteq Modes
  BY DEF Modes
<1>m. m = ideal.mode
  OBVIOUS
<1> SUFFICES t \in Ideals
  OBVIOUS
<1> HIDE DEF m, c, r, t
<1>6. \A u \in Modes : /\ Ideal(u, c, r) \in Ideals /\ Ideal(u, Append(c, b), r) \in Ideals
                        /\ Ideal(u, Append(c, "IAC"), r) \in Ideals
                        /\ Ideal(u, c, Append(r, "DONT")) \in Ideals
                        /\ Ideal(u, c, Append(r, "WONT")) \in Ideals
  BY <1>1, <1>3, InIdeals
<1>7. CASE m = "data"
  <2>1. CASE b = "IAC"
    BY <1>4, <1>5, <1>6, <1>7, <2>1 DEF RefIs
  <2>2. CASE b # "IAC"
    BY <1>4, <1>5, <1>6, <1>7, <2>2 DEF RefIs
  <2> QED BY <2>1, <2>2
<1>8. CASE m = "IAC"
  <2>1. CASE b = "IAC"
    BY <1>4, <1>5, <1>6, <1>8, <2>1 DEF RefIs
  <2>2. CASE b = "x"
    BY <1>4, <1>5, <1>6, <1>8, <2>2 DEF RefIs
  <2>3. CASE b \in Options \cup {"SB"}
    <3>1. t = Ideal(b, c, r)
      BY <1>4, <1>8, <2>3 DEF RefIs
    <3> QED BY <1>5, <1>6, <2>3, <3>1
  <2> QED BY <1>m, <1>8, <2>1, <2>2, <2>3, LegalBytes
<1>9. CASE m \in Options
  <2>1. CASE m = "WILL"
    BY <1>4, <1>5, <1>6, <2>1 DEF RefIs
  <2>2. CASE m = "DO"
    BY <1>4, <1>5, <1>6, <2>2 DEF RefIs
  <2>3. CASE m = "WONT"
    BY <1>4, <1>5, <1>6, <2>3 DEF RefIs
  <2> QED BY <1>9, <2>1, <2>2, <2>3 DEF Options
<1>10. CASE m = "SB"
  <2>1. t = Ideal(IF b = "IAC" THEN "SB IAC" ELSE "SB", c, r)
    BY <1>4, <1>10 DEF RefIs
  <2> QED BY <1>5, <1>6, <2>1
<1>11. CASE m = "SB IAC"
  <2>1. t = Ideal(IF b = "SE" THEN "data" ELSE "SB", c, r)
    BY <1>4, <1>11 DEF RefIs
  <2> QED BY <1>5, <1>6, <2>1
<1> QED BY <1>1, <1>7, <1>8, <1>9, <1>10, <1>11 DEF Modes, t

\* One byte moves the code and the reference alike, unless it is an escape that follows the
\* escape of a subnegotiation.
LEMMA StepGoes ==
  ASSUME ideal \in Ideals, NEW b \in Legal, NEW out \in Outs, Goes(out.tail, out.sub, ideal.mode),
         ~(ideal.mode = "SB IAC" /\ b = "IAC")
  PROVE  LET new == RefStep(ideal, b)
         IN /\ new.clean = ideal.clean \o Adds(out.tail, out.sub, b)
            /\ new.replies = ideal.replies \o Sends(out.tail, out.sub)
            /\ Goes(NextTail(out.tail, out.sub, b), NextSub(out.tail, out.sub, b), new.mode)
<1> DEFINE m == ideal.mode
           c == ideal.clean
           r == ideal.replies
           t == out.tail
           s == out.sub
           new == RefStep(ideal, b)
<1>1. m \in Modes /\ c \in Seq(Bytes) /\ r \in Seq(Answers)
  BY IdealFields
<1>2. c \o <<>> = c /\ r \o <<>> = r
  BY <1>1, ConcatEmptySeq
<1>3. /\ \A e \in Bytes : Append(c, e) = c \o <<e>>
      /\ \A e \in Answers : Append(r, e) = r \o <<e>>
  <2> HIDE DEF c, r
  <2> QED BY <1>1, AppendIsConcat
<1>5. RefIs(m, c, r, b, new)
  BY RefCases
<1> DEFINE u == NextTail(t, s, b)
           v == NextSub(t, s, b)
<1>6. ASSUME NEW j, NEW k, NEW l, new = Ideal(j, k, l)
      PROVE  new.mode = j /\ new.clean = k /\ new.replies = l
  <2> HIDE DEF new
  <2> QED BY <1>6 DEF Ideal
<1>m. m = ideal.mode
  OBVIOUS
<1>7. b \in Bytes /\ "IAC" \in Bytes
  BY LegalBytes DEF Bytes
<1>8. Goes(t, s, m)
  OBVIOUS
<1> DEFINE a == Adds(t, s, b)
           z == Sends(t, s)
<1> HIDE DEF new, m, c, r
<1> SUFFICES new.clean = c \o a /\ new.replies = r \o z /\ Goes(u, v, new.mode)
  BY DEF new, m, c, r
<1>9. CASE m = "data"
  <2>1. s = FALSE /\ t = <<>>
    BY <1>8, <1>9 DEF Goes, Options
  <2>2. CASE b = "IAC"
    <3>1. /\ a = <<>> /\ z = <<>> /\ u = <<"IAC">> /\ v = FALSE
      BY <2>1, <2>2, TailFacts DEF Adds, Sends, NextTail, NextSub
    <3>2. new = Ideal("IAC", c, r)
      BY <1>5, <1>9, <2>2 DEF RefIs
    <3>3. Goes(u, v, new.mode)
      BY <1>6, <3>1, <3>2 DEF Goes
    <3> QED BY <1>2, <1>6, <3>1, <3>2, <3>3
  <2>3. CASE b # "IAC"
    <3>1. /\ a = <<b>> /\ z = <<>> /\ u = <<>> /\ v = FALSE
      BY <2>1, <2>3, TailFacts DEF Adds, Sends, NextTail, NextSub
    <3>2. new = Ideal("data", Append(c, b), r)
      BY <1>5, <1>9, <2>3 DEF RefIs
    <3>3. Goes(u, v, new.mode)
      BY <1>6, <3>1, <3>2 DEF Goes
    <3> QED BY <1>2, <1>3, <1>6, <1>7, <3>1, <3>2, <3>3
  <2> QED BY <2>2, <2>3
<1>10. CASE m = "IAC"
  <2>1. s = FALSE /\ t = <<"IAC">>
    BY <1>8, <1>10 DEF Goes, Options
  <2>2. CASE b = "IAC"
    <3>1. /\ a = <<"IAC">> /\ z = <<>> /\ u = <<>> /\ v = FALSE
      BY <2>1, <2>2, TailFacts DEF Adds, Sends, NextTail, NextSub, Options
    <3>2. new = Ideal("data", Append(c, "IAC"), r)
      BY <1>5, <1>10, <2>2 DEF RefIs
    <3>3. Goes(u, v, new.mode)
      BY <1>6, <3>1, <3>2 DEF Goes
    <3> QED BY <1>2, <1>3, <1>6, <1>7, <3>1, <3>2, <3>3
  <2>3. CASE b \in Options
    <3>1. /\ a = <<>> /\ z = <<>> /\ u = <<"IAC", b>> /\ v = FALSE
      BY <2>1, <2>3, TailFacts DEF Adds, Sends, NextTail, NextSub, Options
    <3>2. new = Ideal(b, c, r)
      BY <1>5, <1>10, <2>3 DEF RefIs
    <3>3. Goes(u, v, new.mode)
      BY <1>6, <2>3, <3>1, <3>2 DEF Goes
    <3> QED BY <1>2, <1>6, <3>1, <3>2, <3>3
  <2>4. CASE b = "SB"
    <3>1. /\ a = <<>> /\ z = <<>> /\ u = <<>> /\ v = TRUE
      BY <2>1, <2>4, TailFacts DEF Adds, Sends, NextTail, NextSub, Options
    <3>2. new = Ideal("SB", c, r)
      BY <1>5, <1>10, <2>4 DEF RefIs
    <3>3. Goes(u, v, new.mode)
      BY <1>6, <3>1, <3>2 DEF Goes
    <3> QED BY <1>2, <1>6, <3>1, <3>2, <3>3
  <2>5. CASE b = "x"
    <3>1. /\ a = <<>> /\ z = <<>> /\ u = <<>> /\ v = FALSE
      BY <2>1, <2>5, TailFacts DEF Adds, Sends, NextTail, NextSub, Options
    <3>2. new = Ideal("data", c, r)
      BY <1>5, <1>10, <2>5 DEF RefIs
    <3>3. Goes(u, v, new.mode)
      BY <1>6, <3>1, <3>2 DEF Goes
    <3> QED BY <1>2, <1>6, <3>1, <3>2, <3>3
  <2> QED BY <1>m, <1>10, <2>2, <2>3, <2>4, <2>5, LegalBytes
<1>11. CASE m \in Options
  <2>1. s = FALSE /\ t = <<"IAC", m>>
    BY <1>8, <1>11 DEF Goes, Options
  <2>2. t # <<>> /\ t # <<"IAC">> /\ t[2] = m
    BY <2>1, TailFacts
  <2>3. /\ a = <<>> /\ z = Answer(m) /\ u = <<>> /\ v = FALSE
    BY <2>1, <2>2 DEF Adds, Sends, NextTail, NextSub
  <2>4. CASE m = "WILL"
    <3>1. new = Ideal("data", c, Append(r, "DONT")) /\ Answer(m) = <<"DONT">> /\ "DONT" \in Answers
      BY <1>5, <2>4 DEF RefIs, Answer, Answers
    <3>2. Goes(u, v, new.mode)
      BY <1>6, <2>3, <3>1 DEF Goes
    <3> QED BY <1>2, <1>3, <1>6, <2>3, <3>1, <3>2
  <2>5. CASE m = "DO"
    <3>1. new = Ideal("data", c, Append(r, "WONT")) /\ Answer(m) = <<"WONT">> /\ "WONT" \in Answers
      BY <1>5, <2>5 DEF RefIs, Answer, Answers
    <3>2. Goes(u, v, new.mode)
      BY <1>6, <2>3, <3>1 DEF Goes
    <3> QED BY <1>2, <1>3, <1>6, <2>3, <3>1, <3>2
  <2>6. CASE m = "WONT"
    <3>1. new = Ideal("data", c, r) /\ Answer(m) = <<>>
      BY <1>5, <2>6 DEF RefIs, Answer
    <3>2. Goes(u, v, new.mode)
      BY <1>6, <2>3, <3>1 DEF Goes
    <3> QED BY <1>2, <1>6, <2>3, <3>1, <3>2
  <2> QED BY <1>11, <2>4, <2>5, <2>6 DEF Options
<1>12. CASE m = "SB"
  <2>1. s = TRUE /\ t = <<>>
    BY <1>8, <1>12 DEF Goes, Options
  <2>2. a = <<>> /\ z = <<>> /\ v = TRUE
    BY <2>1, TailFacts DEF Adds, Sends, NextSub
  <2>3. u = IF b = "IAC" THEN <<"IAC">> ELSE <<>>
    BY <2>1 DEF NextTail
  <2>4. new = Ideal(IF b = "IAC" THEN "SB IAC" ELSE "SB", c, r)
    BY <1>5, <1>12 DEF RefIs
  <2> QED BY <1>2, <1>6, <2>2, <2>3, <2>4 DEF Goes
<1>13. CASE m = "SB IAC"
  <2>1. t = <<"IAC">> /\ b = "SE"
    BY <1>m, <1>8, <1>13, LegalBytes DEF Goes, Options
  <2>2. s \in BOOLEAN
    BY OutsFields
  <2>3. a = <<>> /\ z = <<>> /\ u = <<>> /\ v = FALSE
    BY <2>1, <2>2, TailFacts DEF Adds, Sends, NextTail, NextSub, Options
  <2>4. new = Ideal("data", c, r)
    BY <1>5, <1>13, <2>1 DEF RefIs
  <2> QED BY <1>2, <1>6, <2>3, <2>4 DEF Goes
<1> QED BY <1>1, <1>9, <1>10, <1>11, <1>12, <1>13 DEF Modes

LEMMA Starts == ASSUME Init PROVE IInv
<1>1. TypeOK
  <2>1. <<>> \in Seq(Bytes) /\ <<>> \in Seq({"DONT", "WONT"})
    OBVIOUS
  <2>2. ideal.clean = <<>>
    BY DEF Init, Ideal
  <2>3. attempt \in 0 .. Attempts /\ left \in 0 .. Commands /\ sent \in 0 .. MaxBytes
    BY TelnetAssumption DEF Init
  <2> QED BY <2>1, <2>2, <2>3 DEF Init, TypeOK
<1>2. ideal \in Ideals
  <2>1. "data" \in Modes /\ <<>> \in Seq(Bytes) /\ <<>> \in Seq(Answers)
    BY DEF Modes
  <2> QED BY <2>1, InIdeals DEF Init
<1>3. Control
  BY TelnetAssumption DEF Init, Control
<1>4. Stream
  <2>1. <<>> \o <<>> = <<>> /\ <<>> \in Tails
    BY DEF Tails
  <2>2. Process(pending \o arrived) = Ends(<<>>, FALSE)
    BY <2>1, ProcessTail DEF Init
  <2>3. /\ Ends(<<>>, FALSE).clean = <<>> /\ Ends(<<>>, FALSE).replies = <<>>
        /\ Ends(<<>>, FALSE).tail = <<>> /\ Ends(<<>>, FALSE).sub = FALSE
    BY DEF Ends
  <2>4. /\ ideal.mode = "data" /\ ideal.clean = <<>> /\ ideal.replies = <<>>
        /\ transcript = <<>> /\ replied = <<>>
    BY DEF Init, Ideal
  <2>5. Goes(<<>>, FALSE, "data")
    BY DEF Goes
  <2> QED BY <2>1, <2>2, <2>3, <2>4, <2>5 DEF Stream, Agrees
<1> QED BY <1>1, <1>2, <1>3, <1>4 DEF IInv

\* A step that leaves the stream alone.
LEMMA Leaves ==
  ASSUME IInv, UNCHANGED streamVars,
         pc' \in {"readNode", "connect", "read", "write", "done", "failed"},
         attempt' \in 0 .. Attempts, left' \in 0 .. Commands, Control'
  PROVE  IInv'
<1> USE DEF streamVars
<1>1. TypeOK'
  BY DEF IInv, TypeOK
<1>2. (ideal \in Ideals)'
  BY DEF IInv
<1>3. Stream'
  BY DEF IInv, Stream, Agrees
<1> QED BY <1>1, <1>2, <1>3 DEF IInv

\* One more byte.
LEMMA SendsAgree ==
  ASSUME IInv, ConsoleSends
  PROVE  IInv'
<1>1. PICK b \in Legal : /\ arrived' = Append(arrived, b)
                         /\ ideal' = RefStep(ideal, b)
                         /\ risky' = (risky \/ (ideal.mode = "SB IAC" /\ b = "IAC"))
  BY DEF ConsoleSends
<1>2. /\ ideal \in Ideals /\ arrived \in Seq(Bytes) /\ pending \in Tails
      /\ transcript \in Seq(Bytes) /\ replied \in Seq(Answers) /\ risky \in BOOLEAN
  BY DEF IInv, TypeOK, Tails, Answers
<1>3. b \in Bytes /\ ideal' \in Ideals
  BY <1>1, <1>2, LegalBytes, RefType
<1>4. pending \in Seq(Bytes)
  BY <1>2, TailsBytes
<1>5. TypeOK'
  <2>1. arrived' \in Seq(Bytes)
    <3>1. Append(arrived, b) \in Seq(Bytes)
      BY <1>2, <1>3
    <3> QED BY <1>1, <3>1
  <2>2. ideal'.clean \in Seq(Bytes)
    BY <1>3 DEF Ideals
  <2>3. risky' \in BOOLEAN
    BY <1>1
  <2>4. sent' \in 0 .. MaxBytes
    <3>1. sent < MaxBytes /\ sent' = sent + 1
      BY DEF ConsoleSends
    <3>2. sent \in 0 .. MaxBytes
      BY DEF IInv, TypeOK
    <3> QED BY <3>1, <3>2, TelnetAssumption
  <2> QED BY <2>1, <2>2, <2>3, <2>4 DEF ConsoleSends, IInv, TypeOK
<1>6. Control'
  BY DEF ConsoleSends, IInv, Control
<1>7. ASSUME ~risky' PROVE Agrees(Process(pending \o arrived))'
  <2> DEFINE d == pending \o arrived
             out == Process(d)
             a == Adds(out.tail, out.sub, b)
             z == Sends(out.tail, out.sub)
  <2>1. d \in Seq(Bytes)
    BY <1>2, <1>4
  <2>2. Agrees(out) /\ ~(ideal.mode = "SB IAC" /\ b = "IAC")
    BY <1>1, <1>7 DEF IInv, Stream
  <2>3. pending' \o arrived' = Append(d, b)
    <3>1. pending' = pending
      BY DEF ConsoleSends
    <3>2. pending \o Append(arrived, b) = Append(pending \o arrived, b)
      <4>1. \A x, y \in Seq(Bytes) : \A e \in Bytes : x \o Append(y, e) = Append(x \o y, e)
        BY AppendAfter
      <4> QED BY <1>2, <1>3, <1>4, <4>1
    <3> QED BY <1>1, <3>1, <3>2
  <2>4. out \in Outs /\ Process(pending' \o arrived') = CodeStep(out, b)
    BY <1>3, <2>1, <2>3, ProcessAppend
  <2> HIDE DEF out
  <2>5. /\ ideal'.clean = ideal.clean \o a /\ ideal'.replies = ideal.replies \o z
        /\ Goes(NextTail(out.tail, out.sub, b), NextSub(out.tail, out.sub, b), ideal'.mode)
    BY <1>1, <1>2, <2>2, <2>4, StepGoes DEF Agrees
  <2>6. /\ CodeStep(out, b).clean = out.clean \o a /\ CodeStep(out, b).replies = out.replies \o z
        /\ CodeStep(out, b).tail = NextTail(out.tail, out.sub, b)
        /\ CodeStep(out, b).sub = NextSub(out.tail, out.sub, b)
    BY DEF CodeStep, Out
  <2>7. out.clean \in Seq(Bytes) /\ out.replies \in Seq(Answers) /\ a \in Seq(Bytes) /\ z \in Seq(Answers)
    BY <1>3, <2>4, OutsFields, StepParts
  <2>8. /\ transcript \o (out.clean \o a) = (transcript \o out.clean) \o a
        /\ replied \o (out.replies \o z) = (replied \o out.replies) \o z
    <3> DEFINE c == out.clean
               r == out.replies
    <3> HIDE DEF c, r, a, z
    <3>1. c \in Seq(Bytes) /\ r \in Seq(Answers) /\ a \in Seq(Bytes) /\ z \in Seq(Answers)
      BY <2>7 DEF c, r
    <3>2. \A j, k, l \in Seq(Bytes) : j \o (k \o l) = (j \o k) \o l
      BY ConcatAssociative
    <3>3. \A j, k, l \in Seq(Answers) : j \o (k \o l) = (j \o k) \o l
      BY ConcatAssociative
    <3> QED BY <1>2, <3>1, <3>2, <3>3 DEF c, r
  <2>9. transcript \o out.clean = ideal.clean /\ replied \o out.replies = ideal.replies
    BY <2>2 DEF Agrees
  <2>10. transcript' = transcript /\ replied' = replied
    BY DEF ConsoleSends
  <2> HIDE DEF a, z
  <2>11. /\ transcript' \o CodeStep(out, b).clean = ideal'.clean
         /\ replied' \o CodeStep(out, b).replies = ideal'.replies
         /\ Goes(CodeStep(out, b).tail, CodeStep(out, b).sub, ideal'.mode)
    BY <2>5, <2>6, <2>8, <2>9, <2>10
  <2> QED BY <2>4, <2>11 DEF Agrees
<1> QED BY <1>3, <1>5, <1>6, <1>7 DEF IInv, Stream

\* A cut loses nothing: what the piece gave is added, and its tail gives nothing yet.
LEMMA DrainAgrees ==
  ASSUME IInv, Drain
  PROVE  IInv'
<1> DEFINE out == Process(pending \o arrived)
<1>1. /\ transcript' = transcript \o out.clean /\ replied' = replied \o out.replies
      /\ pending' = out.tail /\ arrived' = <<>> /\ ideal' = ideal
      /\ risky' = (risky \/ ideal.mode = "SB")
  BY DEF Drain, Kept
<1>2. /\ ideal \in Ideals /\ arrived \in Seq(Bytes) /\ pending \in Tails
      /\ transcript \in Seq(Bytes) /\ replied \in Seq(Answers) /\ risky \in BOOLEAN
  BY DEF IInv, TypeOK, Tails, Answers
<1>3. pending \in Seq(Bytes)
  BY <1>2, TailsBytes
<1>4. out \in Outs
  <2>1. pending \o arrived \in Seq(Bytes) /\ "IAC" \in Bytes
    BY <1>2, <1>3 DEF Bytes
  <2> QED BY <2>1, ProcessAppend
<1> HIDE DEF out
<1>5. /\ out.clean \in Seq(Bytes) /\ out.replies \in Seq(Answers) /\ out.tail \in Tails
  BY <1>4, OutsFields
<1>6. transcript' \in Seq(Bytes) /\ replied' \in Seq(Answers)
  <2> DEFINE c == out.clean
             r == out.replies
  <2>1. c \in Seq(Bytes) /\ r \in Seq(Answers) /\ transcript' = transcript \o c /\ replied' = replied \o r
    BY <1>1, <1>5
  <2> HIDE DEF c, r
  <2> QED BY <1>2, <2>1
<1>7. TypeOK'
  <2>1. arrived' \in Seq(Bytes)
    BY <1>1
  <2>2. pending' \in Tails
    BY <1>1, <1>5
  <2>3. pc' \in {"write", "done"} /\ UNCHANGED <<attempt, left, closed, sent>>
    BY DEF Drain
  <2>4. risky' \in BOOLEAN
    BY <1>1
  <2> QED BY <1>1, <1>6, <2>1, <2>2, <2>3, <2>4 DEF IInv, TypeOK, Tails, Answers
<1>8. Control'
  BY DEF Drain, IInv, TypeOK, Control
<1>9. ASSUME ~risky' PROVE Agrees(Process(pending \o arrived))'
  <2>1. Agrees(out) /\ ideal.mode # "SB"
    BY <1>1, <1>9 DEF IInv, Stream, out
  <2> DEFINE t == out.tail
  <2>2. pending' \o arrived' = t
    <3>1. t \in Seq(Bytes)
      BY <1>5, TailsBytes
    <3>2. t \o <<>> = t
      BY <3>1, ConcatEmptySeq
    <3> QED BY <1>1, <3>2
  <2>3. Process(pending' \o arrived') = Ends(t, FALSE)
    BY <1>5, <2>2, ProcessTail
  <2>4. /\ Ends(t, FALSE).clean = <<>> /\ Ends(t, FALSE).replies = <<>>
        /\ Ends(t, FALSE).tail = t /\ Ends(t, FALSE).sub = FALSE
    BY DEF Ends
  <2>5. transcript' \o <<>> = transcript' /\ replied' \o <<>> = replied'
    BY <1>6, ConcatEmptySeq
  <2>6. transcript' = ideal'.clean /\ replied' = ideal'.replies
    BY <1>1, <2>1 DEF Agrees
  <2>7. Goes(t, FALSE, ideal.mode)
    <3>1. Goes(t, out.sub, ideal.mode)
      BY <2>1 DEF Agrees
    <3> HIDE DEF t
    <3> QED BY <2>1, <3>1 DEF Goes
  <2> HIDE DEF t
  <2>8. /\ transcript' \o Ends(t, FALSE).clean = ideal'.clean
        /\ replied' \o Ends(t, FALSE).replies = ideal'.replies
        /\ Goes(Ends(t, FALSE).tail, Ends(t, FALSE).sub, ideal'.mode)
    BY <1>1, <2>4, <2>5, <2>6, <2>7
  <2> QED BY <2>3, <2>8 DEF Agrees
<1> QED BY <1>1, <1>2, <1>7, <1>8, <1>9 DEF IInv, Stream

LEMMA Steps == ASSUME IInv, [Next]_vars PROVE IInv'
<1> USE TelnetAssumption
<1>1. CASE ReadNode
  BY <1>1, Leaves DEF ReadNode, IInv, TypeOK, Control
<1>2. CASE Connected
  BY <1>2, Leaves DEF Connected, IInv, TypeOK, Control
<1>3. CASE NotConnected
  <2>1. /\ attempt \in Nat /\ attempt < Attempts /\ attempt' = attempt + 1 /\ left' = left
        /\ pc' = IF attempt + 1 < Attempts THEN "connect" ELSE "failed"
    BY <1>3 DEF NotConnected, IInv, TypeOK, Control
  <2>2. Control'
    BY <2>1 DEF Control
  <2> QED BY <1>3, <2>1, <2>2, Leaves DEF NotConnected, IInv, TypeOK
<1>4. CASE ConnectionLost
  BY <1>4, Leaves DEF ConnectionLost, IInv, TypeOK, Control
<1>5. CASE SendCommand
  BY <1>5, Leaves DEF SendCommand, IInv, TypeOK, Control
<1>6. CASE Drain
  BY <1>6, DrainAgrees
<1>7. CASE ConsoleSends
  BY <1>7, SendsAgree
<1>8. CASE ConsoleCloses
  <2>1. TypeOK'
    BY <1>8 DEF ConsoleCloses, IInv, TypeOK
  <2>2. (ideal \in Ideals)' /\ Control'
    BY <1>8 DEF ConsoleCloses, IInv, Control
  <2>3. Stream'
    BY <1>8 DEF ConsoleCloses, IInv, Stream, Agrees
  <2> QED BY <2>1, <2>2, <2>3 DEF IInv
<1>9. CASE UNCHANGED vars
  <2>1. UNCHANGED streamVars /\ UNCHANGED <<pc, attempt, left>>
    BY <1>9 DEF vars, streamVars
  <2> QED BY <2>1, Leaves DEF IInv, TypeOK, Control
<1> QED BY <1>1, <1>2, <1>3, <1>4, <1>5, <1>6, <1>7, <1>8, <1>9 DEF Next, Session

LEMMA Invariant == Spec => []IInv
<1> QED BY Starts, Steps, PTL DEF Spec

\* Every variable keeps its type; above all, what is kept of a piece is never more than the
\* start of one command, however long the stream and wherever it is cut.
THEOREM TypeCorrect == Spec => []TypeOK
<1>1. IInv => TypeOK
  BY DEF IInv
<1> QED BY <1>1, Invariant, PTL

\* Wherever the console's stream is cut into pieces, the transcript and the replies are those
\* of the uncut stream, unless risky: for any stream, any cuts and any number of commands.
THEOREM CutsHidden == Spec => []CutsDoNotShow
<1>1. IInv => CutsDoNotShow
  <2> SUFFICES ASSUME IInv, arrived = <<>>, ~risky
               PROVE  transcript = ideal.clean /\ replied = ideal.replies
    BY DEF CutsDoNotShow
  <2>1. pending \in Tails /\ transcript \in Seq(Bytes) /\ replied \in Seq(Answers)
    BY DEF IInv, TypeOK, Tails, Answers
  <2>2. pending \o <<>> = pending
    <3>1. pending \in Seq(Bytes)
      BY <2>1, TailsBytes
    <3> QED BY <3>1, ConcatEmptySeq
  <2>3. Process(pending \o arrived) = Ends(pending, FALSE)
    BY <2>1, <2>2, ProcessTail
  <2>4. Ends(pending, FALSE).clean = <<>> /\ Ends(pending, FALSE).replies = <<>>
    BY DEF Ends
  <2>5. transcript \o <<>> = transcript /\ replied \o <<>> = replied
    BY <2>1, ConcatEmptySeq
  <2>6. Agrees(Ends(pending, FALSE))
    BY <2>3 DEF IInv, Stream
  <2> QED BY <2>4, <2>5, <2>6 DEF Agrees
<1> QED BY <1>1, Invariant, PTL
=============================================================================
