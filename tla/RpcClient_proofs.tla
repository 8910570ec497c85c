-------------------------- MODULE RpcClient_proofs --------------------------
(***************************************************************************)
(* Proofs about the JSON-RPC client, for any number of callers and of      *)
(* websockets: it keeps one websocket at a time and uses it only once      *)
(* logged in, and it implements CallOnce.                                  *)
(***************************************************************************)
EXTENDS RpcClient, FiniteSetTheorems, TLAPS

Connecting == {"again", "dial", "login", "publish"}
Fresh == {"unopened", "dialled"} \* not logged in
Stages == Connecting \cup {"new", "find", "lock", "write", "wait", "over"}

Shape ==
    /\ at \in [Callers -> Stages]
    /\ uses \in [Callers -> Links \cup {NoConn}]
    /\ outcome \in [Callers -> {"none", "answer", "error"}]
    /\ connectMu \in Callers \cup {Nobody}
    /\ conn \in Links \cup {NoConn}
    /\ links \in [Links -> {"unopened", "dialled", "ready", "broken", "closed"}]
    /\ reading \subseteq Links
    /\ requests \subseteq Callers \X Links
    /\ replies \subseteq Callers \X Links
    /\ answers \subseteq Callers
    /\ effect \in [Callers -> {0, 1}]

\* connectMu is held by the caller that is connecting, and nobody else.
HolderConnects == \A c \in Callers : at[c] \in Connecting <=> connectMu = c

\* While someone dials or logs in, the callers have nothing to find.
NothingToFind == \A c \in Callers : at[c] \in {"dial", "login", "publish"} => conn = NoConn

\* An open websocket is the one callers find, or the one being connected.
LiveIsHeld == \A l \in Links : links[l] \in Live =>
    conn = l \/ \E c \in Callers : at[c] \in {"login", "publish"} /\ uses[c] = l

\* Whatever is found, published or written to has logged in.
LoggedIn ==
    /\ conn # NoConn => links[conn] \notin Fresh
    /\ \A c \in Callers : at[c] \in {"login", "publish", "write", "wait"} => uses[c] \in Links
    /\ \A c \in Callers : at[c] \in {"publish", "write", "wait"} => links[uses[c]] \notin Fresh

\* A request is its caller's only one, and has not run yet.
OnTheirWay == \A c \in Callers, l \in Links : <<c, l>> \in requests =>
    /\ l = uses[c] /\ links[l] \notin Fresh
    /\ at[c] \in {"wait", "over"} /\ effect[c] = 0

\* Nothing ran before it was written, and only what ran is answered.
Effects == \A c \in Callers :
    /\ at[c] \notin {"wait", "over"} => effect[c] = 0
    /\ at[c] # "over" => outcome[c] = "none"
    /\ c \in answers => effect[c] = 1
    /\ \A l \in Links : <<c, l>> \in replies => effect[c] = 1

RpcInv ==
    /\ Shape /\ HolderConnects /\ NothingToFind /\ LiveIsHeld
    /\ LoggedIn /\ OnTheirWay /\ Effects

USE RpcConstants DEF Links, NoConn, Live, Fresh, Connecting, Stages

\* The invariant holds of a client that has not been called yet.
LEMMA InitInv == RpcInit => RpcInv
BY DEF RpcInit, RpcInv, Shape, HolderConnects, NothingToFind, LiveIsHeld, LoggedIn, OnTheirWay, Effects

\* Every step of a caller, of the reader, of TrueNAS and of Close keeps it.
LEMMA StepInv == RpcInv /\ [RpcNext]_rpcVars => RpcInv'
<1> SUFFICES ASSUME RpcInv, [RpcNext]_rpcVars PROVE RpcInv'
    OBVIOUS
<1> USE DEF RpcInv, Shape, Goes, Returns
<1>1. ASSUME NEW c \in Callers, NEW wanted \in BOOLEAN, Begins(c, wanted) PROVE RpcInv'
  <2>1. Shape'
    <3>1. at' \in [Callers -> Stages] BY <1>1, ZenonT(30) DEF Begins
    <3>2. outcome' \in [Callers -> {"none", "answer", "error"}]
      BY <1>1, ZenonT(30) DEF Begins
    <3> QED BY <1>1, <3>1, <3>2 DEF Begins
  <2>2. HolderConnects' /\ NothingToFind' BY <1>1 DEF Begins, HolderConnects, NothingToFind
  <2>3. LiveIsHeld' /\ LoggedIn'
    BY <1>1 DEF Begins, HolderConnects, NothingToFind, LiveIsHeld, LoggedIn
  <2>4. OnTheirWay' /\ Effects' BY <1>1 DEF Begins, LoggedIn, OnTheirWay, Effects
  <2> QED BY <2>1, <2>2, <2>3, <2>4
<1>2. ASSUME NEW c \in Callers, Finds(c) PROVE RpcInv'
  <2>1. Shape'
    <3>1. CASE conn # NoConn BY <1>2, <3>1 DEF Finds, Found
    <3>2. CASE conn = NoConn BY <1>2, <3>2 DEF Finds
    <3> QED BY <3>1, <3>2
  <2>2. HolderConnects' /\ NothingToFind'
    BY <1>2 DEF Finds, Found, HolderConnects, NothingToFind
  <2>3. LiveIsHeld' /\ LoggedIn'
    BY <1>2 DEF Finds, Found, HolderConnects, NothingToFind, LiveIsHeld, LoggedIn
  <2>4. OnTheirWay' /\ Effects' BY <1>2 DEF Finds, Found, LoggedIn, OnTheirWay, Effects
  <2> QED BY <2>1, <2>2, <2>3, <2>4
<1>3. ASSUME NEW c \in Callers, Locks(c) PROVE RpcInv'
  <2>1. Shape' BY <1>3 DEF Locks, LoggedIn, OnTheirWay
  <2>2. HolderConnects' /\ NothingToFind' BY <1>3 DEF Locks, HolderConnects, NothingToFind
  <2>3. LiveIsHeld' /\ LoggedIn'
    BY <1>3 DEF Locks, HolderConnects, NothingToFind, LiveIsHeld, LoggedIn
  <2>4. OnTheirWay' /\ Effects' BY <1>3 DEF Locks, LoggedIn, OnTheirWay, Effects
  <2> QED BY <2>1, <2>2, <2>3, <2>4
<1>4. ASSUME NEW c \in Callers, FindsAgain(c) PROVE RpcInv'
  <2>1. Shape' BY <1>4 DEF FindsAgain, ConnectedMeanwhile, Found, LoggedIn, OnTheirWay
  <2>2. HolderConnects' /\ NothingToFind'
    BY <1>4 DEF FindsAgain, ConnectedMeanwhile, Found, HolderConnects, NothingToFind
  <2>3. LiveIsHeld' /\ LoggedIn'
    BY <1>4 DEF FindsAgain, ConnectedMeanwhile, Found, HolderConnects, NothingToFind, LiveIsHeld, LoggedIn
  <2>4. OnTheirWay' /\ Effects'
    BY <1>4 DEF FindsAgain, ConnectedMeanwhile, Found, LoggedIn, OnTheirWay, Effects
  <2> QED BY <2>1, <2>2, <2>3, <2>4
<1>5. ASSUME NEW c \in Callers, DialFails(c) PROVE RpcInv'
  <2>1. Shape' BY <1>5 DEF DialFails, LoggedIn, OnTheirWay
  <2>2. HolderConnects' /\ NothingToFind'
    BY <1>5 DEF DialFails, HolderConnects, NothingToFind
  <2>3. LiveIsHeld' /\ LoggedIn'
    BY <1>5 DEF DialFails, HolderConnects, NothingToFind, LiveIsHeld, LoggedIn
  <2>4. OnTheirWay' /\ Effects' BY <1>5 DEF DialFails, LoggedIn, OnTheirWay, Effects
  <2> QED BY <2>1, <2>2, <2>3, <2>4
<1>6. ASSUME NEW c \in Callers, Dials(c) PROVE RpcInv'
  <2>1. Shape' BY <1>6 DEF Dials, LoggedIn, OnTheirWay
  <2>2. HolderConnects' /\ NothingToFind' BY <1>6 DEF Dials, HolderConnects, NothingToFind
  <2>3. LiveIsHeld' /\ LoggedIn'
    BY <1>6 DEF Dials, HolderConnects, NothingToFind, LiveIsHeld, LoggedIn
  <2>4. OnTheirWay' /\ Effects' BY <1>6 DEF Dials, LoggedIn, OnTheirWay, Effects
  <2> QED BY <2>1, <2>2, <2>3, <2>4
<1>7. ASSUME NEW c \in Callers, LoginFails(c) PROVE RpcInv'
  <2>1. Shape' BY <1>7 DEF LoginFails, LoggedIn, OnTheirWay
  <2>2. HolderConnects' /\ NothingToFind'
    BY <1>7 DEF LoginFails, HolderConnects, NothingToFind
  <2>3. LiveIsHeld' /\ LoggedIn'
    BY <1>7 DEF LoginFails, HolderConnects, NothingToFind, LiveIsHeld, LoggedIn
  <2>4. OnTheirWay' /\ Effects' BY <1>7 DEF LoginFails, LoggedIn, OnTheirWay, Effects
  <2> QED BY <2>1, <2>2, <2>3, <2>4
<1>8. ASSUME NEW c \in Callers, LogsIn(c) PROVE RpcInv'
  <2>1. Shape' BY <1>8 DEF LogsIn, LoggedIn, OnTheirWay
  <2>2. HolderConnects' /\ NothingToFind' BY <1>8 DEF LogsIn, HolderConnects, NothingToFind
  <2>3. LiveIsHeld' /\ LoggedIn'
    BY <1>8 DEF LogsIn, HolderConnects, NothingToFind, LiveIsHeld, LoggedIn
  <2>4. OnTheirWay' /\ Effects' BY <1>8 DEF LogsIn, LoggedIn, OnTheirWay, Effects
  <2> QED BY <2>1, <2>2, <2>3, <2>4
<1>9. ASSUME NEW c \in Callers, Publishes(c) PROVE RpcInv'
  <2>1. Shape' BY <1>9 DEF Publishes, MayPublish, LoggedIn, OnTheirWay
  <2>2. HolderConnects' /\ NothingToFind'
    BY <1>9 DEF Publishes, MayPublish, HolderConnects, NothingToFind
  <2>3. LiveIsHeld' /\ LoggedIn'
    BY <1>9 DEF Publishes, MayPublish, HolderConnects, NothingToFind, LiveIsHeld, LoggedIn
  <2>4. OnTheirWay' /\ Effects'
    BY <1>9 DEF Publishes, MayPublish, LoggedIn, OnTheirWay, Effects
  <2> QED BY <2>1, <2>2, <2>3, <2>4
<1>10. ASSUME NEW c \in Callers, WriteFails(c) PROVE RpcInv'
  <2>1. Shape'
    <3>1. requests' \subseteq Callers \X Links BY <1>10 DEF WriteFails, Sent, LoggedIn
    <3>2. conn' \in Links \cup {NoConn} BY <1>10 DEF WriteFails, Drops
    <3>3. links' \in [Links -> {"unopened", "dialled", "ready", "broken", "closed"}]
      BY <1>10 DEF WriteFails, Drops
    <3> QED BY <1>10, <3>1, <3>2, <3>3 DEF WriteFails, AfterWriteFails
  <2>2. HolderConnects' /\ NothingToFind'
    BY <1>10 DEF WriteFails, AfterWriteFails, Drops, Sent, HolderConnects, NothingToFind
  <2>3. LiveIsHeld' /\ LoggedIn'
    BY <1>10 DEF WriteFails, AfterWriteFails, Drops, Sent, HolderConnects, NothingToFind, LiveIsHeld, LoggedIn
  <2>4. OnTheirWay' /\ Effects'
    BY <1>10 DEF WriteFails, AfterWriteFails, Drops, Sent, LoggedIn, OnTheirWay, Effects
  <2> QED BY <2>1, <2>2, <2>3, <2>4
<1>11. ASSUME NEW c \in Callers, Writes(c) PROVE RpcInv'
  <2>1. Shape' BY <1>11 DEF Writes, Sent, LoggedIn, OnTheirWay
  <2>2. HolderConnects' /\ NothingToFind'
    BY <1>11 DEF Writes, Sent, HolderConnects, NothingToFind
  <2>3. LiveIsHeld' /\ LoggedIn'
    BY <1>11 DEF Writes, Sent, HolderConnects, NothingToFind, LiveIsHeld, LoggedIn
  <2>4. OnTheirWay' /\ Effects' BY <1>11 DEF Writes, Sent, LoggedIn, OnTheirWay, Effects
  <2> QED BY <2>1, <2>2, <2>3, <2>4
<1>12. ASSUME NEW c \in Callers, GetsAnswer(c) PROVE RpcInv'
  <2>1. Shape' BY <1>12 DEF GetsAnswer, LoggedIn, OnTheirWay
  <2>2. HolderConnects' /\ NothingToFind'
    BY <1>12 DEF GetsAnswer, HolderConnects, NothingToFind
  <2>3. LiveIsHeld' /\ LoggedIn'
    BY <1>12 DEF GetsAnswer, HolderConnects, NothingToFind, LiveIsHeld, LoggedIn
  <2>4. OnTheirWay' /\ Effects' BY <1>12 DEF GetsAnswer, LoggedIn, OnTheirWay, Effects
  <2> QED BY <2>1, <2>2, <2>3, <2>4
<1>13. ASSUME NEW c \in Callers, GivesUp(c) PROVE RpcInv'
  <2>1. Shape' BY <1>13 DEF GivesUp, MayGiveUp, LoggedIn, OnTheirWay
  <2>2. HolderConnects' /\ NothingToFind'
    BY <1>13 DEF GivesUp, MayGiveUp, HolderConnects, NothingToFind
  <2>3. LiveIsHeld' /\ LoggedIn'
    BY <1>13 DEF GivesUp, MayGiveUp, HolderConnects, NothingToFind, LiveIsHeld, LoggedIn
  <2>4. OnTheirWay' /\ Effects'
    BY <1>13 DEF GivesUp, MayGiveUp, LoggedIn, OnTheirWay, Effects
  <2> QED BY <2>1, <2>2, <2>3, <2>4
<1>14. ASSUME NEW c \in Callers, Reads(c) PROVE RpcInv'
  <2>1. Shape' BY <1>14 DEF Reads, LoggedIn, OnTheirWay
  <2>2. HolderConnects' /\ NothingToFind' BY <1>14 DEF Reads, HolderConnects, NothingToFind
  <2>3. LiveIsHeld' /\ LoggedIn'
    BY <1>14 DEF Reads, HolderConnects, NothingToFind, LiveIsHeld, LoggedIn
  <2>4. OnTheirWay' /\ Effects' BY <1>14 DEF Reads, LoggedIn, OnTheirWay, Effects
  <2> QED BY <2>1, <2>2, <2>3, <2>4
<1>15. ASSUME NEW l \in Links, ReadEnds(l) PROVE RpcInv'
  <2>1. Shape' BY <1>15 DEF ReadEnds, Drops, LoggedIn, OnTheirWay
  <2>2. HolderConnects' /\ NothingToFind'
    BY <1>15 DEF ReadEnds, Drops, HolderConnects, NothingToFind
  <2>3. LiveIsHeld' /\ LoggedIn'
    BY <1>15 DEF ReadEnds, Drops, HolderConnects, NothingToFind, LiveIsHeld, LoggedIn
  <2>4. OnTheirWay' /\ Effects' BY <1>15 DEF ReadEnds, Drops, LoggedIn, OnTheirWay, Effects
  <2> QED BY <2>1, <2>2, <2>3, <2>4
<1>16. ASSUME Close PROVE RpcInv'
  <2>1. Shape' BY <1>16 DEF Close, LoggedIn, OnTheirWay
  <2>2. HolderConnects' /\ NothingToFind' BY <1>16 DEF Close, HolderConnects, NothingToFind
  <2>3. LiveIsHeld' /\ LoggedIn'
    BY <1>16 DEF Close, HolderConnects, NothingToFind, LiveIsHeld, LoggedIn
  <2>4. OnTheirWay' /\ Effects' BY <1>16 DEF Close, LoggedIn, OnTheirWay, Effects
  <2> QED BY <2>1, <2>2, <2>3, <2>4
<1>17. ASSUME NEW c \in Callers, NEW l \in Links, RunsRequest(c, l) PROVE RpcInv'
  <2>1. Shape' BY <1>17 DEF RunsRequest, LoggedIn, OnTheirWay
  <2>2. HolderConnects' /\ NothingToFind'
    BY <1>17 DEF RunsRequest, HolderConnects, NothingToFind
  <2>3. LiveIsHeld' /\ LoggedIn'
    BY <1>17 DEF RunsRequest, HolderConnects, NothingToFind, LiveIsHeld, LoggedIn
  <2>4. OnTheirWay' /\ Effects' BY <1>17 DEF RunsRequest, LoggedIn, OnTheirWay, Effects
  <2> QED BY <2>1, <2>2, <2>3, <2>4
<1>18. ASSUME NEW l \in Links, LinkBreaks(l) PROVE RpcInv'
  <2>1. Shape' BY <1>18 DEF LinkBreaks, LoggedIn, OnTheirWay
  <2>2. HolderConnects' /\ NothingToFind'
    BY <1>18 DEF LinkBreaks, HolderConnects, NothingToFind
  <2>3. LiveIsHeld' /\ LoggedIn'
    BY <1>18 DEF LinkBreaks, HolderConnects, NothingToFind, LiveIsHeld, LoggedIn
  <2>4. OnTheirWay' /\ Effects' BY <1>18 DEF LinkBreaks, LoggedIn, OnTheirWay, Effects
  <2> QED BY <2>1, <2>2, <2>3, <2>4
<1>19. CASE UNCHANGED rpcVars
  BY <1>19 DEF rpcVars, HolderConnects, NothingToFind, LiveIsHeld, LoggedIn, OnTheirWay, Effects
<1> QED
  BY <1>1, <1>2, <1>3, <1>4, <1>5, <1>6, <1>7, <1>8, <1>9, <1>10, <1>11, <1>12, <1>13, <1>14,
     <1>15, <1>16, <1>17, <1>18, <1>19
  DEF RpcNext, CallStep

\* RpcInv is an invariant of the client.
LEMMA Invariant == RpcSpec => []RpcInv
BY InitInv, StepInv, PTL DEF RpcSpec

\* The variables keep their types, no websocket carries a request before it
\* has logged in, and no two are open at once.
LEMMA InvIsSound == RpcInv => LinksAreSound
<1> SUFFICES ASSUME RpcInv PROVE LinksAreSound
    OBVIOUS
<1> USE DEF RpcInv
<1>1. RpcTypeOK BY DEF RpcTypeOK, Shape
<1>2. LoggedInFirst BY DEF LoggedInFirst, Shape, OnTheirWay
<1>3. OneLink
  <2> DEFINE Open == {l \in Links : links[l] \in Live}
  <2>1. ASSUME NEW l \in Open, NEW m \in Open PROVE l = m
    <3>1. CASE conn = NoConn BY <2>1, <3>1 DEF Shape, HolderConnects, LiveIsHeld
    <3>2. CASE conn # NoConn BY <2>1, <3>2 DEF Shape, NothingToFind, LiveIsHeld
    <3> QED BY <3>1, <3>2
  <2>2. CASE Open = {} BY <2>2, FS_EmptySet DEF OneLink
  <2>3. CASE Open # {}
    <3>1. PICK l \in Open : Open = {l} BY <2>1, <2>3
    <3>2. Cardinality({l}) = 1 BY FS_Singleton
    <3> QED BY <3>1, <3>2 DEF OneLink
  <2> QED BY <2>2, <2>3
<1> QED BY <1>1, <1>2, <1>3 DEF LinksAreSound

\* "a thundering-herd of concurrent first-callers doesn't open N connections"
\* (jsonrpc.go:79-80): there is never more than one open websocket, and only
\* one that has logged in carries requests.
THEOREM LinksAreSoundHolds == RpcSpec => []LinksAreSound
BY Invariant, InvIsSound, PTL

\* A step of the client is a step of CallOnce for the caller it is about, or
\* leaves outcomes and effects alone.
LEMMA StepRefines == RpcInv /\ [RpcNext]_rpcVars => [Calling!Next]_<<outcome, effect>>
<1> SUFFICES ASSUME RpcInv, [RpcNext]_rpcVars PROVE [Calling!Next]_<<outcome, effect>>
    OBVIOUS
<1> USE DEF RpcInv, Shape, Calling!Next
<1>1. ASSUME NEW c \in Callers, NEW wanted \in BOOLEAN, Begins(c, wanted)
      PROVE  Calling!Failed(c) \/ UNCHANGED <<outcome, effect>>
  <2>1. CASE closed \/ ~wanted BY <1>1, <2>1 DEF Begins, Returns, Calling!Failed, Effects
  <2>2. CASE ~(closed \/ ~wanted) BY <1>1, <2>2 DEF Begins
  <2> QED BY <2>1, <2>2
<1>2. ASSUME NEW c \in Callers, DialFails(c) \/ LoginFails(c) \/ WriteFails(c) \/ GivesUp(c)
      PROVE  Calling!Failed(c)
  BY <1>2 DEF DialFails, LoginFails, WriteFails, AfterWriteFails, GivesUp, MayGiveUp,
     Returns, Calling!Failed, Effects
<1>3. ASSUME NEW c \in Callers, GetsAnswer(c) PROVE Calling!Answered(c)
  BY <1>3 DEF GetsAnswer, Returns, Calling!Answered, Effects
<1>4. ASSUME NEW c \in Callers, NEW l \in Links, RunsRequest(c, l) PROVE Calling!Takes(c)
  <2>1. effect[c] = 0 BY <1>4 DEF RunsRequest, OnTheirWay
  <2>2. effect' = [effect EXCEPT ![c] = 1] BY <1>4, <2>1 DEF RunsRequest
  <2> QED BY <1>4, <2>1, <2>2 DEF RunsRequest, Calling!Takes
<1>5. ASSUME NEW c \in Callers,
             Finds(c) \/ Locks(c) \/ FindsAgain(c) \/ Dials(c) \/ LogsIn(c) \/ Publishes(c)
             \/ Writes(c) \/ Reads(c)
      PROVE  UNCHANGED <<outcome, effect>>
  BY <1>5 DEF Finds, Locks, FindsAgain, Dials, LogsIn, Publishes, Writes, Reads
<1>6. ASSUME NEW l \in Links, ReadEnds(l) \/ LinkBreaks(l) PROVE UNCHANGED <<outcome, effect>>
  BY <1>6 DEF ReadEnds, LinkBreaks
<1>7. ASSUME Close PROVE UNCHANGED <<outcome, effect>>
  BY <1>7 DEF Close
<1>8. CASE UNCHANGED rpcVars BY <1>8 DEF rpcVars
<1> QED BY <1>1, <1>2, <1>3, <1>4, <1>5, <1>6, <1>7, <1>8 DEF RpcNext, CallStep

\* The client implements CallOnce: a call's method runs at most once, whatever
\* breaks between sending it and reading its reply, and only a call whose
\* method ran returns an answer.
THEOREM RunsAtMostOnceHolds == RpcSpec => RunsAtMostOnce
<1>1. RpcInit => Calling!Init BY DEF RpcInit, Calling!Init
<1> QED BY <1>1, Invariant, StepRefines, PTL DEF RpcSpec, RunsAtMostOnce, Calling!Spec
=============================================================================
