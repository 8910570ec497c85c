----------------------------- MODULE RpcClient -----------------------------
(***************************************************************************)
(* The JSON-RPC client (internal/truenas/jsonrpc.go): callers in their own *)
(* goroutines share one websocket, opened by whoever needs it first and    *)
(* read by a goroutine of its own.  A websocket is known by the number it  *)
(* was opened as; it breaks at any time, with what is on its way in it.    *)
(***************************************************************************)
EXTENDS Naturals, FiniteSets

CONSTANTS Callers, MaxLinks, Nobody

ASSUME RpcConstants == MaxLinks \in Nat /\ Nobody \notin Callers

VARIABLES
    at,        \* where each caller's Call has got to
    uses,      \* the websocket it found or opened
    outcome,   \* what its Call returned
    connectMu, \* who holds it
    conn,      \* the websocket that callers find, or NoConn
    links,     \* each websocket's state
    reading,   \* those whose readLoop still runs
    requests, replies, \* on their way: a caller's, over a websocket
    answers,   \* callers whose channel holds their reply
    effect,    \* TrueNAS: how often a caller's method ran
    closed

rpcVars == <<at, uses, outcome, connectMu, conn, links, reading, requests, replies, answers, effect, closed>>

NoConn == 0
Links == 1..MaxLinks
Live == {"dialled", "ready"}

RpcInit ==
    /\ at = [c \in Callers |-> "new"] /\ uses = [c \in Callers |-> NoConn]
    /\ outcome = [c \in Callers |-> "none"]
    /\ connectMu = Nobody /\ conn = NoConn
    /\ links = [l \in Links |-> "unopened"] /\ reading = {}
    /\ requests = {} /\ replies = {} /\ answers = {} /\ effect = [c \in Callers |-> 0] /\ closed = FALSE

Goes(c, to) == at' = [at EXCEPT ![c] = to]
Returns(c, what) == Goes(c, "over") /\ outcome' = [outcome EXCEPT ![c] = what]
Found(c) == uses' = [uses EXCEPT ![c] = conn] /\ Goes(c, "write")
-----------------------------------------------------------------------------
\* Call's first checks.  Its context may have ended before.
Begins(c, wanted) ==
    /\ at[c] = "new"
    /\ IF closed \/ ~wanted THEN Returns(c, "error") ELSE Goes(c, "find") /\ UNCHANGED outcome
    /\ UNCHANGED <<uses, connectMu, conn, links, reading, requests, replies, answers, effect, closed>>

Finds(c) ==
    /\ at[c] = "find"
    /\ IF conn # NoConn THEN Found(c) ELSE Goes(c, "lock") /\ UNCHANGED uses
    /\ UNCHANGED <<outcome, connectMu, conn, links, reading, requests, replies, answers, effect, closed>>

Locks(c) ==
    /\ at[c] = "lock" /\ connectMu = Nobody
    /\ connectMu' = c /\ Goes(c, "again")
    /\ UNCHANGED <<uses, outcome, conn, links, reading, requests, replies, answers, effect, closed>>

\* Another caller may have connected while this one waited.
NotLookedAgain == FALSE
ConnectedMeanwhile == conn # NoConn
FindsAgain(c) ==
    /\ at[c] = "again"
    /\ IF ConnectedMeanwhile THEN Found(c) /\ connectMu' = Nobody
       ELSE Goes(c, "dial") /\ UNCHANGED <<uses, connectMu>>
    /\ UNCHANGED <<outcome, conn, links, reading, requests, replies, answers, effect, closed>>

\* Refused, or no answer within 15 s.
DialFails(c) ==
    /\ at[c] = "dial"
    /\ Returns(c, "error") /\ connectMu' = Nobody
    /\ UNCHANGED <<uses, conn, links, reading, requests, replies, answers, effect, closed>>

Dials(c) == \E l \in Links :
    /\ at[c] = "dial" /\ links[l] = "unopened" /\ \A k \in 1..(l - 1) : links[k] # "unopened"
    /\ links' = [links EXCEPT ![l] = "dialled"] /\ reading' = reading \cup {l}
    /\ uses' = [uses EXCEPT ![c] = l] /\ Goes(c, "login")
    /\ UNCHANGED <<outcome, connectMu, conn, requests, replies, answers, effect, closed>>

\* authenticate: the key is refused, or no answer comes in time.
LoginFails(c) ==
    /\ at[c] = "login"
    /\ links' = [links EXCEPT ![uses[c]] = "closed"]
    /\ Returns(c, "error") /\ connectMu' = Nobody
    /\ UNCHANGED <<uses, conn, reading, requests, replies, answers, effect, closed>>

LogsIn(c) ==
    /\ at[c] = "login" /\ links[uses[c]] = "dialled"
    /\ links' = [links EXCEPT ![uses[c]] = "ready"] /\ Goes(c, "publish")
    /\ UNCHANGED <<uses, outcome, connectMu, conn, reading, requests, replies, answers, effect, closed>>

\* It may have broken since it logged in, and the client been closed.
MayPublish(c) == at[c] = "publish"
Publishes(c) ==
    /\ MayPublish(c)
    /\ conn' = uses[c] /\ connectMu' = Nobody /\ Goes(c, "write")
    /\ UNCHANGED <<uses, outcome, links, reading, requests, replies, answers, effect, closed>>

\* The write fails, by itself when it takes 10 s, and the request may be on
\* its way all the same; or all is written, and lost if the websocket was
\* already gone.
Drops(l) ==
    IF conn = l
    THEN conn' = NoConn /\ links' = [links EXCEPT ![l] = "closed"]
    ELSE UNCHANGED <<conn, links>>
Sent(c) == IF links[uses[c]] \in Live THEN requests \cup {<<c, uses[c]>>} ELSE requests
TriesAgain(c) == Goes(c, "find") /\ UNCHANGED outcome
AfterWriteFails(c) == Returns(c, "error")
WriteFails(c) ==
    /\ at[c] = "write"
    /\ Drops(uses[c]) /\ AfterWriteFails(c)
    /\ requests' \in {requests, Sent(c)}
    /\ UNCHANGED <<uses, connectMu, reading, replies, answers, effect, closed>>
Writes(c) ==
    /\ at[c] = "write" /\ links[uses[c]] # "closed"
    /\ Goes(c, "wait")
    /\ requests' = Sent(c)
    /\ UNCHANGED <<uses, outcome, connectMu, conn, links, reading, replies, answers, effect, closed>>

\* The reply may be an error of TrueNAS's, which is an answer too.
GetsAnswer(c) ==
    /\ at[c] = "wait" /\ c \in answers
    /\ Returns(c, "answer")
    /\ UNCHANGED <<uses, connectMu, conn, links, reading, requests, replies, answers, effect, closed>>

\* The caller's context ends, or callTimeout does.
NeverGivesUp(c) == at[c] = "wait" /\ c \in answers
MayGiveUp(c) == at[c] = "wait"
GivesUp(c) ==
    /\ MayGiveUp(c)
    /\ Returns(c, "error")
    /\ UNCHANGED <<uses, connectMu, conn, links, reading, requests, replies, answers, effect, closed>>
-----------------------------------------------------------------------------
\* readLoop: a reply whose caller has gone is dropped.
Reads(c) == \E l \in reading :
    /\ <<c, l>> \in replies
    /\ replies' = replies \ {<<c, l>>}
    /\ answers' = IF at[c] = "wait" THEN answers \cup {c} ELSE answers
    /\ UNCHANGED <<at, uses, outcome, connectMu, conn, links, reading, requests, effect, closed>>

ReadEnds(l) ==
    /\ l \in reading /\ links[l] \in {"broken", "closed"}
    /\ reading' = reading \ {l} /\ Drops(l)
    /\ UNCHANGED <<at, uses, outcome, connectMu, requests, replies, answers, effect, closed>>

Close ==
    /\ ~closed /\ closed' = TRUE
    /\ conn' = NoConn
    /\ links' = IF conn = NoConn THEN links ELSE [links EXCEPT ![conn] = "closed"]
    /\ UNCHANGED <<at, uses, outcome, connectMu, reading, requests, replies, answers, effect>>

\* TrueNAS runs a request, and replies while the websocket lasts.
RunsRequest(c, l) ==
    /\ <<c, l>> \in requests
    /\ requests' = requests \ {<<c, l>>} /\ effect' = [effect EXCEPT ![c] = @ + 1]
    /\ replies' = IF links[l] = "ready" THEN replies \cup {<<c, l>>} ELSE replies
    /\ UNCHANGED <<at, uses, outcome, connectMu, conn, links, reading, answers, closed>>

\* What was on its way to TrueNAS may have arrived.
LinkBreaks(l) ==
    /\ links[l] \in Live
    /\ links' = [links EXCEPT ![l] = "broken"]
    /\ replies' = {r \in replies : r[2] # l}
    /\ requests' \in {requests, {r \in requests : r[2] # l}}
    /\ UNCHANGED <<at, uses, outcome, connectMu, conn, reading, answers, effect, closed>>
-----------------------------------------------------------------------------
CallStep(c) ==
    \/ \E wanted \in BOOLEAN : Begins(c, wanted)
    \/ Finds(c) \/ Locks(c) \/ FindsAgain(c) \/ DialFails(c) \/ Dials(c) \/ LoginFails(c) \/ LogsIn(c)
    \/ Publishes(c) \/ WriteFails(c) \/ Writes(c) \/ GetsAnswer(c) \/ GivesUp(c)

RpcNext ==
    \/ \E c \in Callers : CallStep(c) \/ Reads(c) \/ (\E l \in Links : RunsRequest(c, l))
    \/ \E l \in Links : ReadEnds(l) \/ LinkBreaks(l)
    \/ Close

\* A goroutine goes on, and a mutex is fair to those who wait.
RpcFairness == \A c \in Callers : WF_rpcVars(CallStep(c)) /\ SF_rpcVars(Locks(c))

RpcSpec == RpcInit /\ [][RpcNext]_rpcVars /\ RpcFairness
-----------------------------------------------------------------------------
RpcTypeOK ==
    /\ connectMu \in Callers \cup {Nobody} /\ conn \in Links \cup {NoConn} /\ reading \subseteq Links
    /\ links \in [Links -> {"unopened", "dialled", "ready", "broken", "closed"}]
    /\ uses \in [Callers -> Links \cup {NoConn}]
    /\ {r[1] : r \in requests \cup replies} \subseteq Callers

\* "TrueNAS rejects calls on a socket that hasn't authenticated yet"
\* (jsonrpc.go:222-225): a request is only ever written to one that has.
LoggedInFirst == \A r \in requests : links[r[2]] # "dialled"

\* "a thundering-herd of concurrent first-callers doesn't open N connections"
\* (jsonrpc.go:79-80): the client never has two websockets open, however its
\* callers, breaks and Close interleave.
OneLink == Cardinality({l \in Links : links[l] \in Live}) =< 1

\* Every Call returns, though a break fails nobody's call at once.
CallsReturn == \A c \in Callers : (at[c] # "new") ~> (at[c] = "over")

\* A call's method runs at most once, and only its own reply answers it.
Calling == INSTANCE CallOnce
RunsAtMostOnce == Calling!Spec

\* The client's websocket is one at a time, and only used once logged in.
LinksAreSound == RpcTypeOK /\ LoggedInFirst /\ OneLink
=============================================================================
