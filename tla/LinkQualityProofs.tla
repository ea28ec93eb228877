-------------------------- MODULE LinkQualityProofs --------------------------
(***************************************************************************)
(* Proofs about LinkQuality, for any number of calls, interfaces and       *)
(* connections, and any fields: what an interface is told it has, unless a *)
(* call for the other end had read something else, and what is reported of *)
(* an interface is its own.  A node connected to itself is the exception   *)
(* to both, and it is the code's.                                          *)
(***************************************************************************)
EXTENDS LinkQuality, TLAPS

\* The near side of a connection of interface e is e, and the far side the other end; but
\* for the destination of a connection of a node to itself it is the other way round.
LEMMA NearIsOwn ==
  ASSUME NEW l \in Links, NEW e \in Ends, e \in {l.src, l.dst}
  PROVE  /\ NearSide(l, e) \in Sides /\ Other(NearSide(l, e)) \in Sides
         /\ l \in [Sides -> Ends \cup Networks]
         /\ Opposite(l, e) \in Ends \cup Networks /\ Opposite(l, e) # e
         /\ IF Crosses(l, e)
            THEN /\ l[NearSide(l, e)] = l.src /\ l.src \in Ends /\ Opposite(l, e) = l.src
                 /\ l[Other(NearSide(l, e))] = e
            ELSE l[NearSide(l, e)] = e /\ l[Other(NearSide(l, e))] = Opposite(l, e)
<1>1. l \in [Sides -> Ends \cup Networks] /\ l.src # l.dst
  BY LinkAssumption
<1>2. l.src \in Ends \cup Networks /\ l.dst \in Ends \cup Networks
  BY <1>1 DEF Sides
<1>3. CASE l.src = e
  <2>1. NearSide(l, e) = "src" /\ Other("src") = "dst" /\ ~Crosses(l, e) /\ Opposite(l, e) = l.dst
    BY <1>1, <1>3 DEF NearSide, Other, Crosses, Opposite
  <2> QED BY <1>1, <1>2, <1>3, <2>1 DEF Sides
<1>4. CASE l.dst = e /\ Crosses(l, e)
  <2>1. NearSide(l, e) = "src" /\ Other("src") = "dst" /\ Opposite(l, e) = l.src /\ l.src \in Ends
    BY <1>1, <1>4 DEF NearSide, Other, Crosses, Opposite
  <2> QED BY <1>1, <1>2, <1>4, <2>1 DEF Sides
<1>5. CASE l.dst = e /\ ~Crosses(l, e)
  <2>1. NearSide(l, e) = "dst" /\ Other("dst") = "src" /\ Opposite(l, e) = l.src
    BY <1>1, <1>5 DEF NearSide, Other, Crosses, Opposite
  <2> QED BY <1>1, <1>2, <1>5, <2>1 DEF Sides
<1> QED BY <1>3, <1>4, <1>5

\* A quality in which some fields are replaced is a quality.
LEMMA Replaced ==
  ASSUME NEW p \in Partial, NEW q \in Quality PROVE Over(p, q) \in Quality
BY DEF Partial, Quality, Over

\* The interfaces that are given values have them, the others keep theirs.
LEMMA Overwritten ==
  ASSUME NEW D \in SUBSET Ends, NEW p \in [D -> Quality], NEW q \in [Ends -> Quality]
  PROVE  /\ Over(p, q) \in [Ends -> Quality]
         /\ \A e \in Ends : Over(p, q)[e] = IF e \in D THEN p[e] ELSE q[e]
BY DEF Over

LEMMA ZeroIsQuality == Zero \in Quality
BY LinkAssumption DEF Zero, Quality

LEMMA Nothing ==
  NoArg \in RequestType /\ NoLink \in [Sides -> Ends \cup Networks] /\ NoRead \in [Sides -> Quality]
<1>1. NoArg \in RequestType
  BY LinkAssumption DEF NoArg
<1>2. (CHOOSE e \in Ends : TRUE) \in Ends
  BY LinkAssumption
<1> QED BY <1>1, <1>2, ZeroIsQuality DEF NoLink, NoRead

\* What the invariant says of one call.
Knows(c) ==
  /\ pc[c] \in {"readNetwork", "readFar", "put"} =>
       /\ link[c] \in Links
       /\ link[c][Near(c)] = IF c \in crossed THEN link[c].src ELSE arg[c].end
       /\ c \in crossed => Crosses(link[c], arg[c].end)
  /\ c \notin stale /\ pc[c] \in {"readFar", "put"} /\ Far(c) \in Ends =>
       read[c][Other(Near(c))] = live[Far(c)]
  /\ pc[c] # "idle" =>
       /\ answer[c] = NoRead
       /\ truth[c] = IF pc[c] = "readNetwork" THEN [src |-> read[c][Near(c)], dst |-> Zero] ELSE NoRead
       /\ c \in crossed => pc[c] \in {"readFar", "put"}
  /\ pc[c] = "idle" => answer[c] = IF c \in crossed THEN Swap(truth[c]) ELSE truth[c]

LEMMA KnowsAll == IInv <=> TypeOK /\ AsTold /\ \A c \in Calls : Knows(c)
BY DEF IInv, NearInv, FarInv, AnswerInv, ReportsTheNearEnd, Knows

LEMMA KnowsAllNext == IInv' <=> TypeOK' /\ AsTold' /\ \A c \in Calls : Knows(c)'
BY DEF IInv, NearInv, FarInv, AnswerInv, ReportsTheNearEnd, Knows

LEMMA InitIInv == Init => IInv
<1> SUFFICES ASSUME Init PROVE IInv
  OBVIOUS
<1>1. TypeOK
  BY Nothing, ZeroIsQuality DEF Init, TypeOK
<1>2. AsTold
  BY DEF Init, AsTold
<1>3. ASSUME NEW c \in Calls PROVE Knows(c)
  BY DEF Init, Knows
<1> QED BY <1>1, <1>2, <1>3, KnowsAll

\* What stays with call d.
Same(d) ==
  /\ pc'[d] = pc[d] /\ arg'[d] = arg[d] /\ link'[d] = link[d] /\ read'[d] = read[d]
  /\ answer'[d] = answer[d] /\ truth'[d] = truth[d] /\ (d \in crossed' <=> d \in crossed)
  /\ d \in stale => d \in stale'

\* A call that does nothing knows what it knew, unless its far end was set.
LEMMA KnowsStill ==
  ASSUME NEW d \in Calls, Knows(d), Same(d),
         d \notin stale' /\ pc[d] \in {"readFar", "put"} /\ Far(d) \in Ends => live'[Far(d)] = live[Far(d)]
  PROVE  Knows(d)'
<1>1. Near(d)' = Near(d) /\ Far(d)' = Far(d)
  BY DEF Same, Near, Far
<1>2. NoRead' = NoRead
  OBVIOUS
<1> QED BY <1>1, <1>2 DEF Knows, Same

\* What a call in the tool knows is its own.
LEMMA OneCall ==
  ASSUME IInv, NEW c \in Calls, TypeOK', UNCHANGED <<live, want, spoilt>>,
         \A d \in Calls \ {c} : Same(d), Knows(c)'
  PROVE  IInv'
<1>1. AsTold'
  BY DEF IInv, AsTold
<1>2. ASSUME NEW d \in Calls, d # c PROVE Knows(d)'
  BY <1>2, KnowsAll, KnowsStill
<1> QED BY <1>1, <1>2, KnowsAllNext

\* A call that is over, and has answered what there is to answer.
LEMMA CallEnds ==
  ASSUME IInv, NEW c \in Calls, Finish(c), UNCHANGED <<ends, links, live, saved, reports, want, spoilt>>,
         stale' \subseteq Calls, stale \ {c} \subseteq stale',
         crossed' \subseteq Calls, \A d \in Calls \ {c} : d \in crossed' <=> d \in crossed,
         NEW a \in [Sides -> Quality], answer' = [answer EXCEPT ![c] = a],
         NEW q \in [Sides -> Quality], truth' = [truth EXCEPT ![c] = q],
         a = IF c \in crossed' THEN Swap(q) ELSE q
  PROVE  IInv'
<1>1. TypeOK'
  BY Nothing DEF IInv, TypeOK, Finish, Await
<1>2. pc'[c] = "idle" /\ answer'[c] = a /\ truth'[c] = q
  BY DEF IInv, TypeOK, Finish, Await
<1>3. Knows(c)'
  BY <1>2 DEF Knows
<1>4. \A d \in Calls \ {c} : Same(d)
  BY DEF IInv, TypeOK, Finish, Await, Same
<1> QED BY <1>1, <1>3, <1>4, OneCall

\* A call that goes on with what it knows.
LEMMA GoesOn ==
  ASSUME IInv, NEW c \in Calls, pc[c] \in {"readStatus", "findNode", "readInterfaces", "readFar"},
         NEW p \in {"findNode", "readInterfaces", "readTopology", "put"},
         p = "put" <=> pc[c] = "readFar",
         Await(c, p),
         UNCHANGED <<labVars, reports, arg, link, read, answer, history>>
  PROVE  IInv'
<1> USE DEF labVars, history
<1>1. TypeOK'
  BY DEF IInv, TypeOK, Await
<1>2. pc'[c] = p /\ \A d \in Calls \ {c} : pc'[d] = pc[d]
  BY DEF IInv, TypeOK, Await
<1>3. \A d \in Calls \ {c} : Same(d)
  BY <1>2 DEF Same
<1>4. Knows(c) /\ Near(c)' = Near(c) /\ Far(c)' = Far(c)
  BY KnowsAll DEF Near, Far
<1>5. Knows(c)'
  BY <1>2, <1>4 DEF Knows
<1> QED BY <1>1, <1>3, <1>5, OneCall

LEMMA AskKeeps == ASSUME IInv, NEW c \in Calls, Ask(c) PROVE IInv'
<1> USE DEF Ask, labVars
<1>1. PICK r \in Requests : arg' = [arg EXCEPT ![c] = r]
  OBVIOUS
<1>2. r \in RequestType
  BY LinkAssumption
<1>3. TypeOK'
  BY <1>1, <1>2, Nothing DEF IInv, TypeOK, Await
<1>4. /\ pc'[c] = "readStatus" /\ answer'[c] = NoRead /\ truth'[c] = NoRead
      /\ \A d \in Calls \ {c} : Same(d)
  BY <1>1 DEF IInv, TypeOK, Await, Same
<1>5. Knows(c)'
  BY <1>4 DEF Knows
<1> QED BY <1>3, <1>4, <1>5, OneCall

LEMMA RefuseKeeps ==
  ASSUME IInv, NEW c \in Calls, pc[c] # "idle", Refuse(c), UNCHANGED <<labVars, reports, want, spoilt>>
  PROVE  IInv'
<1>1. answer[c] = NoRead
  BY KnowsAll DEF Knows
<1>2. answer' = [answer EXCEPT ![c] = NoRead]
  BY <1>1 DEF Refuse, IInv, TypeOK
<1>3. /\ Finish(c) /\ truth' = [truth EXCEPT ![c] = NoRead] /\ c \notin crossed'
      /\ stale' \subseteq Calls /\ stale \ {c} \subseteq stale'
      /\ crossed' \subseteq Calls /\ \A d \in Calls \ {c} : d \in crossed' <=> d \in crossed
  BY DEF Refuse, IInv, TypeOK
<1> QED BY <1>2, <1>3, Nothing, CallEnds DEF labVars

LEMMA ReadsKeep ==
  ASSUME IInv, NEW c \in Calls, Raise(c) \/ ReadStatus(c) \/ FindNode(c) \/ ReadInterfaces(c) \/ ReadFar(c)
  PROVE  IInv'
<1>1. CASE Refuse(c)
  BY <1>1, RefuseKeeps DEF Raise, ReadStatus, FindNode, ReadInterfaces, ReadFar
<1>2. CASE ReadStatus(c) /\ ~Refuse(c)
  BY <1>2, GoesOn DEF ReadStatus, history
<1>3. CASE FindNode(c) /\ ~Refuse(c)
  BY <1>3, GoesOn DEF FindNode, history
<1>4. CASE ReadInterfaces(c) /\ ~Refuse(c)
  BY <1>4, GoesOn DEF ReadInterfaces, history
<1>5. CASE ReadFar(c) /\ ~Refuse(c)
  BY <1>5, GoesOn DEF ReadFar, history
<1> QED BY <1>1, <1>2, <1>3, <1>4, <1>5 DEF Raise

\* What the topology says of an end of a connection is a quality.
LEMMA ShownIsQuality ==
  ASSUME TypeOK, NEW e \in Ends \cup Networks PROVE Shown(e) \in Quality
BY ZeroIsQuality DEF TypeOK, Shown

\* What a call finds in the topology, entry l.
FoundIn(c, l) ==
  LET end  == arg[c].end
      near == NearSide(l, end)
      far  == l[Other(near)]
      both == [s \in Sides |-> Shown(l[s])] IN
  /\ end \in {l.src, l.dst}
  /\ IF arg[c].tool = "get" /\ far \in Ends
     THEN /\ answer' = [answer EXCEPT ![c] = [src |-> both[near], dst |-> both[Other(near)]]]
          /\ Finish(c)
          /\ UNCHANGED stale
     ELSE /\ link' = [link EXCEPT ![c] = l] /\ read' = [read EXCEPT ![c] = both]
          /\ Await(c, IF arg[c].tool = "get" THEN "readNetwork"
                      ELSE IF far \in Networks THEN "put" ELSE "readFar")
          /\ stale' = IF far \in Ends /\ Shown(far) # live[far] THEN stale \cup {c} ELSE stale
          /\ UNCHANGED <<arg, answer>>
  /\ crossed' = IF Crosses(l, end) THEN crossed \cup {c} ELSE crossed
  /\ truth' = IF arg[c].tool = "get"
              THEN [truth EXCEPT ![c] = [src |-> Shown(end), dst |-> Shown(Opposite(l, end))]]
              ELSE truth

LEMMA FoundKeeps ==
  ASSUME IInv, NEW c \in Calls, pc[c] = "readTopology", NEW l \in links, FoundIn(c, l),
         UNCHANGED <<labVars, reports, want, spoilt>>
  PROVE  IInv'
<1> DEFINE e == arg[c].end
           near == NearSide(l, e)
           far  == l[Other(near)]
           both == [s \in Sides |-> Shown(l[s])]
           fact == [src |-> Shown(e), dst |-> Shown(Opposite(l, e))]
<1>0. e \in Ends /\ e \in {l.src, l.dst} /\ l \in Links
  BY DEF IInv, TypeOK, RequestType, FoundIn
<1>1. /\ near \in Sides /\ Other(near) \in Sides /\ l \in [Sides -> Ends \cup Networks]
      /\ Opposite(l, e) \in Ends \cup Networks
      /\ IF Crosses(l, e)
         THEN l[near] = l.src /\ l.src \in Ends /\ Opposite(l, e) = l.src /\ far = e
         ELSE l[near] = e /\ far = Opposite(l, e)
  BY <1>0, NearIsOwn
<1>2. both \in [Sides -> Quality] /\ fact \in [Sides -> Quality]
  <2>1. both \in [Sides -> Quality]
    BY <1>1, ShownIsQuality DEF IInv
  <2>2. Shown(e) \in Quality /\ Shown(Opposite(l, e)) \in Quality
    BY <1>0, <1>1, ShownIsQuality DEF IInv
  <2> QED BY <2>1, <2>2 DEF Sides
<1>3. both[near] = Shown(l[near]) /\ both[Other(near)] = Shown(far)
  BY <1>1
<1>4. answer[c] = NoRead /\ truth[c] = NoRead /\ c \notin crossed
  BY KnowsAll DEF Knows
<1>5. /\ crossed' \subseteq Calls /\ \A d \in Calls \ {c} : d \in crossed' <=> d \in crossed
      /\ c \in crossed' <=> Crosses(l, e)
  BY <1>4 DEF FoundIn, IInv, TypeOK
<1>6. CASE arg[c].tool = "get" /\ far \in Ends
  <2> DEFINE a == [src |-> both[near], dst |-> both[Other(near)]]
  <2>1. a \in [Sides -> Quality]
    BY <1>1, <1>2 DEF Sides
  <2>2. /\ Finish(c) /\ answer' = [answer EXCEPT ![c] = a] /\ stale' = stale
        /\ truth' = [truth EXCEPT ![c] = fact]
    BY <1>6 DEF FoundIn
  <2>3. a = IF c \in crossed' THEN Swap(fact) ELSE fact
    BY <1>1, <1>3, <1>5 DEF Swap
  <2>4. stale \subseteq Calls /\ UNCHANGED <<ends, links, live, saved>>
    BY DEF IInv, TypeOK, labVars
  <2> HIDE DEF a, fact
  <2> QED BY <1>2, <1>5, <2>1, <2>2, <2>3, <2>4, CallEnds
<1>7. CASE ~(arg[c].tool = "get" /\ far \in Ends)
  <2> DEFINE next == IF arg[c].tool = "get" THEN "readNetwork"
                     ELSE IF far \in Networks THEN "put" ELSE "readFar"
  <2>1. /\ link' = [link EXCEPT ![c] = l] /\ read' = [read EXCEPT ![c] = both]
        /\ pc' = [pc EXCEPT ![c] = next]
        /\ stale' = IF far \in Ends /\ Shown(far) # live[far] THEN stale \cup {c} ELSE stale
        /\ UNCHANGED <<arg, answer>>
        /\ truth' = IF arg[c].tool = "get" THEN [truth EXCEPT ![c] = fact] ELSE truth
    BY <1>7 DEF FoundIn, Await
  <2>2. TypeOK'
    <3> HIDE DEF both, fact
    <3> QED BY <1>1, <1>2, <1>5, <2>1 DEF IInv, TypeOK, labVars
  <2>3. /\ pc'[c] = next /\ link'[c] = l /\ read'[c] = both /\ arg'[c] = arg[c] /\ answer'[c] = NoRead
        /\ truth'[c] = IF arg[c].tool = "get" THEN fact ELSE NoRead
    <3> HIDE DEF both, fact, next
    <3> QED BY <1>4, <2>1 DEF IInv, TypeOK
  <2>4. \A d \in Calls \ {c} : Same(d)
    <3> HIDE DEF both, fact, next
    <3> QED BY <1>5, <2>1 DEF IInv, TypeOK, Same
  <2>5. Near(c)' = near /\ Far(c)' = far
    BY <2>3 DEF Near, Far
  <2>6. pc'[c] = "readNetwork" => truth'[c] = [src |-> read'[c][near], dst |-> Zero] /\ ~Crosses(l, e)
    <3> SUFFICES ASSUME arg[c].tool = "get"
                 PROVE  fact = [src |-> both[near], dst |-> Zero] /\ ~Crosses(l, e)
      BY <2>3
    <3>1. far \in Networks
      BY <1>1, <1>7
    <3>2. ~Crosses(l, e) /\ l[near] = e /\ far = Opposite(l, e)
      BY <1>0, <1>1, <3>1, LinkAssumption
    <3> QED BY <1>3, <3>1, <3>2 DEF Shown
  <2>7. c \notin stale' /\ far \in Ends => both[Other(near)] = live'[far]
    BY <1>3, <2>1 DEF labVars
  <2>8. pc'[c] \in {"readNetwork", "readFar", "put"}
    BY <2>3
  <2>9. pc'[c] # "readNetwork" => truth'[c] = NoRead
    BY <2>3
  <2>10. Knows(c)'
    <3> HIDE DEF near, far, both, fact, next
    <3> QED BY <1>0, <1>1, <1>5, <2>3, <2>5, <2>6, <2>7, <2>8, <2>9 DEF Knows
  <2> QED BY <2>2, <2>4, <2>10, OneCall DEF labVars
<1> QED BY <1>6, <1>7

LEMMA ReadTopologyKeeps == ASSUME IInv, NEW c \in Calls, ReadTopology(c) PROVE IInv'
<1>1. CASE Refuse(c)
  BY <1>1, RefuseKeeps DEF ReadTopology
<1>2. CASE \E l \in links : FoundIn(c, l)
  BY <1>2, FoundKeeps DEF ReadTopology
<1> QED BY <1>1, <1>2 DEF ReadTopology, FoundIn

LEMMA ReadNetworkKeeps == ASSUME IInv, NEW c \in Calls, ReadNetwork(c) PROVE IInv'
<1> DEFINE a == [src |-> read[c][Near(c)], dst |-> Zero]
<1>1. Near(c) \in Sides
  BY DEF Near, NearSide, Sides
<1>2. a \in [Sides -> Quality]
  BY <1>1, ZeroIsQuality DEF IInv, TypeOK, Sides
<1>3. c \notin crossed /\ truth[c] = a
  BY KnowsAll DEF Knows, ReadNetwork
<1>4. truth' = [truth EXCEPT ![c] = a]
  BY <1>3 DEF IInv, TypeOK, ReadNetwork, history
<1>5. /\ Finish(c) /\ answer' = [answer EXCEPT ![c] = a]
      /\ UNCHANGED <<ends, links, live, saved, reports, want, spoilt, stale, crossed>>
  BY DEF ReadNetwork, labVars, history
<1> HIDE DEF a
<1> QED BY <1>2, <1>3, <1>4, <1>5, CallEnds DEF IInv, TypeOK

\* A Put writes to its own interface and to the far one, which are two, or to those of a
\* node that is connected to itself.
LEMMA WhatPutWrites ==
  ASSUME IInv, NEW c \in Calls, pc[c] = "put", NEW p \in Payloads(c)
  PROVE  /\ arg[c].end \in Ends /\ arg[c].value \in Quality /\ arg[c].far \in Partial
         /\ DOMAIN p \in SUBSET Ends /\ p \in [DOMAIN p -> Quality]
         /\ DOMAIN p \subseteq {link[c].src, link[c].dst}
         /\ arg[c].end \in {link[c].src, link[c].dst}
         /\ Far(c) \in {link[c].src, link[c].dst}
         /\ c \notin crossed =>
              /\ Far(c) # arg[c].end /\ DOMAIN p = {arg[c].end} \cup ({Far(c)} \cap Ends)
              /\ p[arg[c].end] = arg[c].value
              /\ Far(c) \in Ends => p[Far(c)] = Over(arg[c].far, read[c][Other(Near(c))])
<1> DEFINE FarPart == [e \in {Far(c)} \cap Ends |-> FarValue(c)]
           NearPart(i) == [e \in {i} |-> arg[c].value]
<1>1. /\ arg[c] \in RequestType /\ link[c] \in Links
      /\ link[c][Near(c)] = IF c \in crossed THEN link[c].src ELSE arg[c].end
      /\ c \in crossed => Crosses(link[c], arg[c].end)
  BY DEF IInv, TypeOK, NearInv
<1>2. arg[c].end \in Ends /\ arg[c].value \in Quality /\ arg[c].far \in Partial
  BY <1>1 DEF RequestType
<1>3. Near(c) \in Sides /\ Other(Near(c)) \in Sides /\ Near(c) # Other(Near(c))
  BY DEF Near, NearSide, Other, Sides
<1>4. arg[c].end \in {link[c].src, link[c].dst}
  BY <1>1, <1>3 DEF Sides, Crosses
<1>5. Far(c) \in {link[c].src, link[c].dst}
  BY <1>3 DEF Sides, Far
<1>6. link[c][Near(c)] \in Ends /\ link[c][Near(c)] \in {link[c].src, link[c].dst}
  BY <1>1, <1>2, <1>3 DEF Crosses, Sides
<1>7. c \notin crossed => Far(c) # arg[c].end
  BY <1>1, <1>3, LinkAssumption DEF Far, Sides
<1>8. read[c][Other(Near(c))] \in Quality
  BY <1>3 DEF IInv, TypeOK
<1>9. FarValue(c) \in Quality
  BY <1>2, <1>8, Replaced, ZeroIsQuality DEF FarValue
<1>10. Far(c) \in Ends => FarValue(c) = Over(arg[c].far, read[c][Other(Near(c))])
  BY LinkAssumption DEF FarValue
<1>11. PICK i \in {link[c][Near(c)], arg[c].end} :
         p \in {Over(NearPart(i), FarPart), Over(FarPart, NearPart(i))}
  BY DEF Payloads
<1>12. i \in Ends /\ i \in {link[c].src, link[c].dst}
  BY <1>2, <1>4, <1>6, <1>11
<1> HIDE DEF Far
<1> DEFINE v == arg[c].value
           w == FarValue(c)
<1>13. \/ p = [e \in {i} \cup ({Far(c)} \cap Ends) |-> IF e = i THEN v ELSE w]
       \/ p = [e \in {i} \cup ({Far(c)} \cap Ends) |-> IF e \in {Far(c)} \cap Ends THEN w ELSE v]
  <2> HIDE DEF v, w
  <2>1. FarPart = [e \in {Far(c)} \cap Ends |-> w] /\ NearPart(i) = [e \in {i} |-> v]
    BY DEF v, w
  <2> HIDE DEF FarPart, NearPart
  <2> QED BY <1>11, <2>1 DEF Over
<1>14. DOMAIN p = {i} \cup ({Far(c)} \cap Ends) /\ p \in [DOMAIN p -> Quality]
  BY <1>2, <1>9, <1>13
<1>15. c \notin crossed => i = arg[c].end
  BY <1>1, <1>11
<1>16. i # Far(c) => p[i] = v /\ (Far(c) \in Ends => p[Far(c)] = w)
  BY <1>13
<1> QED BY <1>2, <1>4, <1>5, <1>7, <1>10, <1>12, <1>14, <1>15, <1>16

\* Two qualities in which the same fields are replaced are equal if they were.
LEMMA ReplacedAlike ==
  ASSUME NEW p, NEW q, NEW r, q = r PROVE Over(p, q) = Over(p, r)
OBVIOUS

LEMMA PutKeeps == ASSUME IInv, NEW c \in Calls, Put(c) PROVE IInv'
<1> DEFINE e == arg[c].end
           far == {Far(c)} \cap Ends
           told == [f \in far |-> Over(arg[c].far, want[f])]
<1>0. /\ pc[c] = "put" /\ Finish(c) /\ crossed' = crossed \ {c}
      /\ UNCHANGED <<ends, links, reports, answer, truth>>
  BY DEF Put
<1>1. answer[c] = NoRead /\ truth[c] = NoRead
  BY <1>0, KnowsAll DEF Knows
<1>2. CASE link[c] \notin links
  <2>1. UNCHANGED <<live, saved, want, spoilt>> /\ stale' = stale \ {c}
    BY <1>2 DEF Put
  <2>2. answer' = [answer EXCEPT ![c] = NoRead] /\ truth' = [truth EXCEPT ![c] = NoRead]
    BY <1>0, <1>1 DEF IInv, TypeOK
  <2>3. /\ stale' \subseteq Calls /\ stale \ {c} \subseteq stale' /\ c \notin crossed'
        /\ crossed' \subseteq Calls /\ \A d \in Calls \ {c} : d \in crossed' <=> d \in crossed
    BY <1>0, <2>1 DEF IInv, TypeOK
  <2> QED BY <1>0, <2>1, <2>2, <2>3, Nothing, CallEnds
<1>3. CASE link[c] \in links
  <2>1. /\ want' = [Over(told, want) EXCEPT ![e] = arg[c].value]
        /\ spoilt' = (spoilt \ {e}) \cup (IF c \in stale THEN far ELSE {})
                     \cup (IF c \in crossed THEN {link[c].src, link[c].dst} ELSE {})
    BY <1>3 DEF Put
  <2>2. PICK p \in Payloads(c) :
          /\ live' = Over(p, live)
          /\ saved' = IF arg[c].persist THEN Over(p, saved) ELSE saved
          /\ stale' = (stale \cup {d \in Calls : pc[d] \in {"readFar", "put"} /\ Far(d) \in DOMAIN p}) \ {c}
    BY <1>3 DEF Put
  <2> DEFINE D == DOMAIN p
  <2>3. /\ e \in Ends /\ arg[c].value \in Quality /\ arg[c].far \in Partial
        /\ D \in SUBSET Ends /\ p \in [D -> Quality] /\ D \subseteq {link[c].src, link[c].dst}
        /\ e \in {link[c].src, link[c].dst} /\ Far(c) \in {link[c].src, link[c].dst}
        /\ c \notin crossed =>
             /\ Far(c) # e /\ D = {e} \cup far /\ p[e] = arg[c].value
             /\ Far(c) \in Ends => p[Far(c)] = Over(arg[c].far, read[c][Other(Near(c))])
    BY <1>0, WhatPutWrites
  <2>4. /\ live' \in [Ends -> Quality] /\ saved' \in [Ends -> Quality]
        /\ \A f \in Ends : live'[f] = IF f \in D THEN p[f] ELSE live[f]
    <3>1. live \in [Ends -> Quality] /\ saved \in [Ends -> Quality]
      BY DEF IInv, TypeOK
    <3> HIDE DEF D
    <3>2. /\ Over(p, live) \in [Ends -> Quality]
          /\ \A f \in Ends : Over(p, live)[f] = IF f \in D THEN p[f] ELSE live[f]
      BY <2>3, <3>1, Overwritten
    <3>3. Over(p, saved) \in [Ends -> Quality]
      BY <2>3, <3>1, Overwritten
    <3> QED BY <2>2, <3>1, <3>2, <3>3
  <2>5. told \in [far -> Quality]
    BY <2>3, Replaced DEF IInv, TypeOK
  <2>6. Over(told, want) \in [Ends -> Quality]
        /\ \A f \in Ends : Over(told, want)[f] = IF f \in far THEN told[f] ELSE want[f]
    <3>1. far \in SUBSET Ends /\ want \in [Ends -> Quality]
      BY DEF IInv, TypeOK
    <3> HIDE DEF far, told
    <3> QED BY <2>5, <3>1, Overwritten
  <2>7. /\ want' \in [Ends -> Quality] /\ want'[e] = arg[c].value
        /\ \A f \in Ends \ {e} : want'[f] = IF f \in far THEN Over(arg[c].far, want[f]) ELSE want[f]
    BY <2>1, <2>3, <2>6
  <2>8. spoilt' \subseteq Ends
    <3>1. c \in crossed => link[c].src \in Ends /\ link[c].dst \in Ends
      BY <1>0, <2>3 DEF IInv, NearInv, Crosses
    <3> QED BY <2>1, <2>3, <3>1 DEF IInv, TypeOK
  <2>9. TypeOK'
    <3> HIDE DEF D
    <3> QED BY <1>0, <2>2, <2>4, <2>7, <2>8, Nothing DEF IInv, TypeOK, Finish, Await
  <2>10. /\ pc'[c] = "idle" /\ c \notin crossed'
         /\ \A d \in Calls \ {c} : Same(d)
    BY <1>0, <2>2 DEF IInv, TypeOK, Finish, Await, Same
  <2>11. Knows(c)'
    BY <1>0, <1>1, <2>10 DEF Knows
  <2>12. ASSUME NEW d \in Calls, d # c PROVE Knows(d)'
    <3>1. Knows(d) /\ Same(d)
      BY <2>10, <2>12, KnowsAll
    <3>2. d \notin stale' /\ pc[d] \in {"readFar", "put"} /\ Far(d) \in Ends => live'[Far(d)] = live[Far(d)]
      BY <2>2, <2>4, <2>12
    <3> QED BY <3>1, <3>2, KnowsStill
  <2>13. AsTold'
    <3> SUFFICES ASSUME NEW f \in Ends, f \notin spoilt' PROVE live'[f] = want'[f]
      BY DEF AsTold
    <3>1. CASE c \in crossed
      <4>1. f \notin spoilt /\ f \notin D /\ f # e /\ f \notin far
        BY <2>1, <2>3, <3>1
      <4> QED BY <2>4, <2>7, <4>1 DEF IInv, AsTold
    <3>2. CASE c \notin crossed /\ f = e
      BY <2>3, <2>4, <2>7, <3>2
    <3>3. CASE c \notin crossed /\ f # e /\ f \in far
      <4>1. c \notin stale /\ f \notin spoilt /\ f = Far(c)
        BY <2>1, <3>3
      <4>2. read[c][Other(Near(c))] = live[f] /\ live[f] = want[f]
        BY <1>0, <4>1 DEF IInv, FarInv, AsTold
      <4>3. live'[f] = Over(arg[c].far, read[c][Other(Near(c))]) /\ want'[f] = Over(arg[c].far, want[f])
        BY <2>3, <2>4, <2>7, <3>3, <4>1
      <4> QED BY <4>2, <4>3, ReplacedAlike
    <3>4. CASE c \notin crossed /\ f # e /\ f \notin far
      BY <2>1, <2>3, <2>4, <2>7, <3>4 DEF IInv, AsTold
    <3> QED BY <3>1, <3>2, <3>3, <3>4
  <2> QED BY <2>9, <2>11, <2>12, <2>13, KnowsAllNext
<1> QED BY <1>2, <1>3

LEMMA UnplugKeeps == ASSUME IInv, Unplug PROVE IInv'
<1>1. PICK l \in links : links' = links \ {l} /\ Reset({l.src, l.dst} \cap Ends)
  BY DEF Unplug
<1> DEFINE E == {l.src, l.dst} \cap Ends
           none == [e \in E |-> Zero]
<1>2. none \in [E -> Quality]
  BY ZeroIsQuality
<1>3. /\ live' = Over(none, live) /\ saved' = Over(none, saved) /\ want' = Over(none, want)
      /\ spoilt' = spoilt \ E
      /\ stale' = stale \cup {c \in Calls : pc[c] \in {"readFar", "put"} /\ Far(c) \in E}
  BY <1>1 DEF Reset
<1>4. UNCHANGED <<ends, reports, callVars>>
  BY DEF Unplug
<1> HIDE DEF E, none
<1>5. E \subseteq Ends
  BY DEF E
<1>6. /\ live' \in [Ends -> Quality] /\ saved' \in [Ends -> Quality] /\ want' \in [Ends -> Quality]
      /\ \A e \in Ends : live'[e] = (IF e \in E THEN none[e] ELSE live[e])
                         /\ want'[e] = (IF e \in E THEN none[e] ELSE want[e])
  <2>1. live \in [Ends -> Quality] /\ saved \in [Ends -> Quality] /\ want \in [Ends -> Quality]
    BY DEF IInv, TypeOK
  <2>2. /\ Over(none, live) \in [Ends -> Quality]
        /\ \A e \in Ends : Over(none, live)[e] = IF e \in E THEN none[e] ELSE live[e]
    BY <1>2, <1>5, <2>1, Overwritten
  <2>3. /\ Over(none, want) \in [Ends -> Quality]
        /\ \A e \in Ends : Over(none, want)[e] = IF e \in E THEN none[e] ELSE want[e]
    BY <1>2, <1>5, <2>1, Overwritten
  <2>4. Over(none, saved) \in [Ends -> Quality]
    BY <1>2, <1>5, <2>1, Overwritten
  <2> QED BY <1>3, <2>2, <2>3, <2>4
<1>7. TypeOK'
  BY <1>1, <1>3, <1>4, <1>6 DEF IInv, TypeOK, callVars, Reset
<1>8. AsTold'
  BY <1>3, <1>6 DEF IInv, AsTold
<1>9. ASSUME NEW c \in Calls PROVE Knows(c)'
  <2>1. Knows(c) /\ Same(c)
    BY <1>1, <1>3, <1>4, KnowsAll DEF Same, callVars, Reset
  <2>2. c \notin stale' /\ pc[c] \in {"readFar", "put"} /\ Far(c) \in Ends => live'[Far(c)] = live[Far(c)]
    BY <1>3, <1>6
  <2> QED BY <2>1, <2>2, KnowsStill
<1> QED BY <1>7, <1>8, <1>9, KnowsAllNext

LEMMA NextIInv == IInv /\ [Next]_vars => IInv'
<1> SUFFICES ASSUME IInv, [Next]_vars PROVE IInv'
  OBVIOUS
<1>1. ASSUME UNCHANGED vars \/ Plug \/ Shrink PROVE IInv'
  <2> USE DEF vars, labVars, callVars, history, Plug, Shrink
  <2>1. UNCHANGED <<live, saved, reports, callVars, history>>
    BY <1>1
  <2>2. TypeOK'
    BY <1>1 DEF IInv, TypeOK
  <2>3. AsTold'
    BY <2>1 DEF IInv, AsTold
  <2>4. ASSUME NEW c \in Calls PROVE Knows(c)'
    BY <2>1, KnowsAll, KnowsStill DEF Same
  <2> QED BY <2>2, <2>3, <2>4, KnowsAllNext
<1>2. ASSUME NEW c \in Calls, CallStep(c) PROVE IInv'
  BY <1>2, AskKeeps, ReadsKeep, ReadTopologyKeeps, ReadNetworkKeeps, PutKeeps DEF CallStep
<1> QED BY <1>1, <1>2, UnplugKeeps DEF Next, Elsewhere
-----------------------------------------------------------------------------
\* In every reachable state a call that is about to set a connection knows which end is its
\* own, unless it was asked for the destination of a connection of a node to itself, and
\* what it sends back of the other is what that has, or it is in stale.
THEOREM Invariance == Spec => []IInv
BY InitIInv, NextIInv, PTL DEF Spec

\* For any number of calls and connections, an interface has the quality it was last told
\* to have, unless a call for the other end had read something else, or its node is
\* connected to itself there and a call for the destination has set it.
THEOREM HasWhatItWasTold == Spec => []AsTold
<1>1. IInv => AsTold
  BY DEF IInv
<1> QED BY <1>1, Invariance, PTL

\* For any connections, get_link_quality reports of the interface it is asked for, and of
\* the interface or network at the other end, what the topology said of each, and the two
\* the other way round exactly if the interface is the destination of a connection of its
\* node to itself.
THEOREM ReportsOwnEnd == Spec => []ReportsTheNearEnd
<1>1. IInv => ReportsTheNearEnd
  BY DEF IInv
<1> QED BY <1>1, Invariance, PTL
=============================================================================
