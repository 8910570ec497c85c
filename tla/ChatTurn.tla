------------------------------ MODULE ChatTurn ------------------------------
(***************************************************************************)
(* One app's chat over one WebSocket connection                            *)
(* (internal/chat/handler.go, conn.go, actions.go).                        *)
(*                                                                         *)
(* Two goroutines share the state.  The READER takes frames in the order   *)
(* the app sent them: a message is queued, a stop is numbered and cancels  *)
(* the turn, an answer to a card is routed to the turn waiting for it.     *)
(* The MAIN loop takes a message, waits for the model, and runs a turn: up *)
(* to MaxSteps model steps, each of which may propose actions.  A step's   *)
(* proposals become cards; the turn waits for the answers, the deadline or *)
(* the end of its context, and runs what was approved.                     *)
(*                                                                         *)
(* Proposals are numbered over the whole connection, so first..made are    *)
(* those of the current step.  Time is one flag, late: this run's deadline *)
(* has passed.  What an action does to the NAS is its outcome alone.       *)
(***************************************************************************)
EXTENDS Naturals, Sequences, FiniteSets

CONSTANTS
    MaxActionsPerReply, \* cards one reply may show (5)
    MaxSteps,           \* model steps in a turn (6)
    InboxCap,           \* queued messages (8)
    NumProposals,       \* bound: actions proposed over the connection
    MaxMessages,        \* bound: messages the app sends
    MaxSeq              \* bound: answers and stops the app sends

ASSUME ConstantsAssumption ==
    /\ MaxActionsPerReply \in Nat \ {0}
    /\ MaxSteps \in Nat \ {0}
    /\ InboxCap \in Nat \ {0}
    /\ NumProposals \in Nat
    /\ MaxMessages \in Nat
    /\ MaxSeq \in Nat

VARIABLES
    \* the reader
    reader,    \* where the reader goroutine is
    hand,      \* the answer it is delivering
    inbox,     \* messages waiting for the main loop
    \* approvals
    waiting,   \* cards an answer would be routed to
    seq,       \* number of the last answer or stop read
    stopSeq,   \* number of the last stop, 0 for none
    \* the main loop and its turn
    pc,        \* where the main loop is
    prepare,   \* the background Prepare of the model
    turn,      \* a turn is under way: stopTurn is set
    cancelled, \* the turn's own context is cancelled
    closed,    \* the connection's context is cancelled
    steps,     \* model steps this turn has taken
    proposed,  \* cards this reply has put up
    first, made, \* the current step's proposals are first..made
    next,      \* the proposal Describe is at
    status,    \* what became of each proposal
    answers,   \* the channel the turn reads answers from
    late,      \* the cards' deadline has passed
    base,      \* seq when the cards were out
    drain,     \* why the turn is draining the channel, "no" while it isn't
    \* history: what the app did, for the properties
    sent,      \* messages sent
    said,      \* the first answer the app gave each card
    stops      \* numbers of the stops read since this question was taken up

readerVars == <<reader, hand, inbox, waiting, seq, stopSeq>>
turnVars == <<turn, cancelled, closed, steps, proposed, first, made, next,
              status, answers, late, base, drain>>
history == <<sent, said, stops>>
vars == <<readerVars, pc, prepare, turnVars, history>>

Proposal == 1..NumProposals
Answer == [id: Proposal, ok: BOOLEAN, seq: 1..MaxSeq, late: BOOLEAN]
Nothing == [ok |-> FALSE, seq |-> 0, late |-> FALSE]

Executed == {"done", "started", "failed"}
Settled == Executed \cup {"declined", "expired", "cancelled", "refused"}
Status == Settled \cup {"none", "described", "open", "running"}

\* The cards of the current run, and those still without an outcome.
InStep == first..made
Described == {i \in InStep : status[i] = "described"}
Open == {i \in InStep : status[i] = "open"}

\* A run's channel exists between expect and the run's return.
CardsOut == pc \in {"send", "loop", "run"}

\* The channel has room for all the run's answers, so one that comes while
\* the turn is busy waits there.  Mutant: it is kept only while the turn listens.
HeldOnlyInLoop(a) == pc = "loop" /\ a.id \in InStep
Held(a) == CardsOut /\ a.id \in InStep

\* An answered card is no longer waiting.  Mutant: it stays on the list.
Unrouted(i) == waiting \ {i}

\* The turn's context is done: it was stopped, or the connection went.
CtxDone == cancelled \/ closed

TypeOK ==
    /\ reader \in {"reading", "stopping", "routed", "stamped", "gone"}
    /\ hand \in Answer \cup {Nothing}
    /\ inbox \in Seq({"question", "other"})
    /\ waiting \subseteq Proposal
    /\ seq \in 0..MaxSeq
    /\ stopSeq \in 0..MaxSeq
    /\ pc \in {"idle", "prepare", "step", "describe", "send", "loop", "run", "closed"}
    /\ prepare \in {"running", "ready", "failed"}
    /\ turn \in BOOLEAN
    /\ cancelled \in BOOLEAN
    /\ closed \in BOOLEAN
    /\ steps \in 0..MaxSteps
    /\ proposed \in 0..MaxActionsPerReply
    /\ first \in 1..(NumProposals + 1)
    /\ made \in 0..NumProposals
    /\ next \in 1..(NumProposals + 1)
    /\ status \in [Proposal -> Status]
    /\ answers \in Seq(Answer)
    /\ late \in BOOLEAN
    /\ base \in 0..MaxSeq
    /\ drain \in {"no", "expired", "cancelled"}
    /\ sent \in 0..MaxMessages
    /\ said \in [Proposal -> [ok: BOOLEAN, seq: 0..MaxSeq, late: BOOLEAN]]
    /\ stops \subseteq 1..MaxSeq

Init ==
    /\ reader = "reading" /\ hand = Nothing /\ inbox = <<>>
    /\ waiting = {} /\ seq = 0 /\ stopSeq = 0
    /\ pc = "idle" /\ prepare = "running"
    /\ turn = FALSE /\ cancelled = FALSE /\ closed = FALSE
    /\ steps = 0 /\ proposed = 0 /\ first = 1 /\ made = 0 /\ next = 1
    /\ status = [i \in Proposal |-> "none"]
    /\ answers = <<>> /\ late = FALSE /\ base = 0 /\ drain = "no"
    /\ sent = 0 /\ said = [i \in Proposal |-> Nothing]
    /\ stops = {}
-----------------------------------------------------------------------------
(***************************************************************************)
(* The reader.                                                             *)
(***************************************************************************)

\* A message is queued, or dropped when the queue is full.  "other" is one
\* the main loop skips: an unknown type, or a user_message with no content.
ReadMessage(kind) ==
    /\ reader = "reading" /\ ~closed /\ sent < MaxMessages
    /\ sent' = sent + 1
    /\ inbox' = IF Len(inbox) < InboxCap THEN Append(inbox, kind) ELSE inbox
    /\ UNCHANGED <<reader, hand, waiting, seq, stopSeq, pc, prepare, turnVars,
                   said, stops>>

\* approvals.stop(): the stop is numbered before the turn is cancelled.
ReadStop ==
    /\ reader = "reading" /\ ~closed /\ seq < MaxSeq
    /\ seq' = seq + 1
    /\ stopSeq' = seq + 1
    /\ stops' = stops \cup {seq + 1}
    /\ reader' = "stopping"
    /\ UNCHANGED <<hand, inbox, waiting, pc, prepare, turnVars, sent, said>>

\* stopTurn(), when there is a turn to stop; otherwise the stop is dropped.
CancelTurn ==
    /\ reader = "stopping"
    /\ reader' = "reading"
    /\ cancelled' = (cancelled \/ turn)
    /\ UNCHANGED <<hand, inbox, waiting, seq, stopSeq, pc, prepare, turn, closed,
                   steps, proposed, first, made, next, status, answers, late,
                   base, drain, history>>

\* approvals.deliver, under its lock: number the answer and take the card
\* off the waiting list.  The app can answer any card it has been shown, and
\* again; only a waiting card's answer goes anywhere.
ReadAnswer(i, ok) ==
    /\ reader = "reading" /\ ~closed /\ seq < MaxSeq
    /\ status[i] \notin {"none", "described", "refused"}
    /\ seq' = seq + 1
    /\ waiting' = Unrouted(i)
    /\ IF i \in waiting
       THEN /\ reader' = "routed"
            /\ hand' = [id |-> i, ok |-> ok, seq |-> seq + 1, late |-> FALSE]
       ELSE UNCHANGED <<reader, hand>>
    /\ said' = IF said[i].seq = 0
               THEN [said EXCEPT ![i] = [ok |-> ok, seq |-> seq + 1, late |-> late]]
               ELSE said
    /\ UNCHANGED <<inbox, stopSeq, pc, prepare, turnVars, sent, stops>>

\* The rest of deliver, after the unlock: the answer's time is taken ...
StampAnswer ==
    /\ reader = "routed"
    /\ reader' = "stamped"
    /\ hand' = [hand EXCEPT !.late = late]
    /\ UNCHANGED <<inbox, waiting, seq, stopSeq, pc, prepare, turnVars, history>>

\* ... and it goes into the channel of the card's run.  Once that run has
\* returned nobody reads the channel again.
PutAnswer ==
    /\ reader = "stamped"
    /\ reader' = "reading"
    /\ hand' = Nothing
    /\ answers' = IF Held(hand) THEN Append(answers, hand) ELSE answers
    /\ UNCHANGED <<inbox, waiting, seq, stopSeq, pc, prepare, turn, cancelled,
                   closed, steps, proposed, first, made, next, status, late,
                   base, drain, history>>

\* A read error: the app left, or the main loop has closed the connection.
\* Either way the reader cancels the connection's context and returns.
Disconnect ==
    /\ reader = "reading"
    /\ reader' = "gone"
    /\ closed' = TRUE
    /\ UNCHANGED <<hand, inbox, waiting, seq, stopSeq, pc, prepare, turn, cancelled,
                   steps, proposed, first, made, next, status, answers, late,
                   base, drain, history>>
-----------------------------------------------------------------------------
(***************************************************************************)
(* The main loop and its turn.                                             *)
(***************************************************************************)

PrepareModel ==
    /\ prepare = "running"
    /\ prepare' \in {"ready", "failed"}
    /\ UNCHANGED <<readerVars, pc, turnVars, history>>

TakeMessage ==
    /\ pc = "idle" /\ inbox # <<>>
    /\ inbox' = Tail(inbox)
    /\ pc' = IF Head(inbox) = "question" THEN "prepare" ELSE "idle"
    /\ stops' = {}
    /\ UNCHANGED <<reader, hand, waiting, seq, stopSeq, prepare, turnVars, sent, said>>

\* The connection's context is done while nothing is being answered.
Leave ==
    /\ pc \in {"idle", "prepare"} /\ closed
    /\ pc' = "closed"
    /\ UNCHANGED <<readerVars, prepare, turnVars, history>>

\* Prepare failed: the chat ends, and its deferred cancel closes the context.
GiveUp ==
    /\ pc = "prepare" /\ prepare = "failed"
    /\ pc' = "closed"
    /\ closed' = TRUE
    /\ UNCHANGED <<readerVars, prepare, turn, cancelled, steps, proposed, first,
                   made, next, status, answers, late, base, drain, history>>

StartTurn ==
    /\ pc = "prepare" /\ prepare = "ready"
    /\ pc' = "step"
    /\ turn' = TRUE
    /\ UNCHANGED <<readerVars, prepare, cancelled, closed, steps, proposed, first,
                   made, next, status, answers, late, base, drain, sent, said, stops>>

\* The model's step asks for tools, n of them actions.  The reads are
\* dispatched on the spot.
Propose(n) ==
    /\ pc = "step" /\ steps < MaxSteps /\ made + n <= NumProposals
    /\ steps' = steps + 1
    /\ first' = made + 1
    /\ made' = made + n
    /\ next' = made + 1
    /\ pc' = IF n = 0 THEN "step" ELSE "describe"
    /\ UNCHANGED <<readerVars, prepare, turn, cancelled, closed, proposed, status,
                   answers, late, base, drain, history>>

\* The model's step answers, fails or is cut short, the loop runs out of
\* steps, or a retry is refused: the turn ends, and the main loop goes on
\* unless the connection has gone.
EndTurn ==
    /\ pc = "step"
    /\ pc' = IF closed THEN "closed" ELSE "idle"
    /\ turn' = FALSE
    /\ cancelled' = FALSE /\ steps' = 0 /\ proposed' = 0 \* the turn's own
    /\ stops' = {}
    /\ UNCHANGED <<readerVars, prepare, closed, first, made, next, status, answers,
                   late, base, drain, sent, said>>

\* Mutant: one card too many.
OverCap == proposed >= MaxActionsPerReply

\* One proposal: over the reply's cap, or its Describe fails, and it gets an
\* error result; otherwise it gets a card.
Describe(ok) ==
    LET carded == ok /\ ~OverCap
    IN  /\ pc = "describe" /\ next <= made
        /\ status' = [status EXCEPT ![next] = IF carded THEN "described" ELSE "refused"]
        /\ proposed' = IF carded THEN proposed + 1 ELSE proposed
        /\ next' = next + 1
        /\ UNCHANGED <<readerVars, pc, prepare, turn, cancelled, closed, steps, first,
                       made, answers, late, base, drain, history>>

\* approvals.expect, and the deadline: a new channel, routed to by the cards.
Expect ==
    /\ pc = "describe" /\ next > made
    /\ pc' = IF Described = {} THEN "step" ELSE "send"
    /\ waiting' = waiting \cup Described
    /\ answers' = <<>>
    /\ late' = FALSE
    /\ UNCHANGED <<reader, hand, inbox, seq, stopSeq, prepare, turn, cancelled, closed,
                   steps, proposed, first, made, next, status, base, drain, history>>

\* The cards go out one at a time; the app may answer one while the next is
\* on its way.
SendCard(i) ==
    /\ pc = "send" /\ i \in Described
    /\ \A j \in Described : i <= j
    /\ status' = [status EXCEPT ![i] = "open"]
    /\ UNCHANGED <<readerVars, pc, prepare, turn, cancelled, closed, steps, proposed,
                   first, made, next, answers, late, base, drain, history>>

\* base, _ := mark(), once all of them are out.
Mark ==
    /\ pc = "send" /\ Described = {}
    /\ base' = seq
    /\ pc' = "loop"
    /\ UNCHANGED <<readerVars, prepare, turn, cancelled, closed, steps, proposed, first,
                   made, next, status, answers, late, drain, history>>

DeadlinePasses ==
    /\ CardsOut /\ ~late
    /\ late' = TRUE
    /\ UNCHANGED <<readerVars, pc, prepare, turn, cancelled, closed, steps, proposed,
                   first, made, next, status, answers, base, drain, history>>

\* handle: how an answer is decided, in the order of its cases.  The turn
\* knows only the last stop.  Mutants: the deadline isn't checked; the
\* answer isn't compared with the stop.
AfterStop(a) == stopSeq > base /\ a.seq > stopSeq
VerdictIgnoringDeadline(a) ==
    IF AfterStop(a) THEN "cancelled" ELSE IF a.ok THEN "running" ELSE "declined"
VerdictIgnoringStop(a) ==
    IF a.late THEN "expired" ELSE IF a.ok THEN "running" ELSE "declined"
Verdict(a) ==
    IF AfterStop(a) THEN "cancelled"
    ELSE IF a.late THEN "expired"
    ELSE IF a.ok THEN "running" ELSE "declined"

\* The loop, or drain, takes an answer.  One for a card already settled is
\* ignored; an approval starts the action.
HandleAnswer ==
    LET a == Head(answers)
        counts == a.id \in Open
    IN  /\ pc = "loop" /\ answers # <<>>
        /\ drain = "no" => Open # {}
        /\ answers' = Tail(answers)
        /\ status' = IF counts THEN [status EXCEPT ![a.id] = Verdict(a)] ELSE status
        /\ pc' = IF counts /\ Verdict(a) = "running" THEN "run" ELSE "loop"
        /\ UNCHANGED <<readerVars, prepare, turn, cancelled, closed, steps, proposed,
                       first, made, next, late, base, drain, history>>

\* execute: it isn't cut short by a stop, and its outcome is recorded.
FinishAction(i, outcome) ==
    /\ pc = "run" /\ i \in InStep /\ status[i] = "running"
    /\ status' = [status EXCEPT ![i] = outcome]
    /\ pc' = "loop"
    /\ UNCHANGED <<readerVars, prepare, turn, cancelled, closed, steps, proposed, first,
                   made, next, answers, late, base, drain, history>>

\* Mutant: the cards have no timer.
NoTimer == FALSE
TimerDue == late

TimerFires ==
    /\ pc = "loop" /\ drain = "no" /\ Open # {} /\ TimerDue
    /\ drain' = "expired"
    /\ UNCHANGED <<readerVars, pc, prepare, turn, cancelled, closed, steps, proposed,
                   first, made, next, status, answers, late, base, history>>

SeeDone ==
    /\ pc = "loop" /\ drain = "no" /\ Open # {} /\ CtxDone
    /\ drain' = "cancelled"
    /\ UNCHANGED <<readerVars, pc, prepare, turn, cancelled, closed, steps, proposed,
                   first, made, next, status, answers, late, base, history>>

\* The drain goes on until the channel is empty.  Mutant: there is none.
SkipDrain == TRUE
Drained == answers = <<>>

\* What settleRest settles.  Mutants: it leaves the expired ones; it writes
\* over cards that were declined.
RestAndDeclined == {i \in InStep : drain # "no" /\ status[i] \in {"open", "declined"}}
Rest == Open

\* run returns: what is still open is settled (only after a drain is
\* anything), the cards stop being routed to, and the model gets every result.
Return ==
    /\ pc = "loop"
    /\ \/ drain = "no" /\ Open = {}
       \/ drain # "no" /\ Drained
    /\ status' = [i \in Proposal |-> IF i \in Rest THEN drain ELSE status[i]]
    /\ waiting' = waiting \ InStep
    /\ answers' = <<>>
    /\ late' = FALSE /\ base' = 0 /\ drain' = "no" \* the run's own
    /\ pc' = "step"
    /\ UNCHANGED <<reader, hand, inbox, seq, stopSeq, prepare, turn, cancelled, closed,
                   steps, proposed, first, made, next, history>>

\* Everything has returned.
Done ==
    /\ pc = "closed" /\ reader = "gone" /\ prepare # "running"
    /\ UNCHANGED vars
-----------------------------------------------------------------------------
App ==
    \/ \E kind \in {"question", "other"} : ReadMessage(kind)
    \/ ReadStop
    \/ \E i \in Proposal, ok \in BOOLEAN : ReadAnswer(i, ok)
    \/ Disconnect

Deliver == CancelTurn \/ StampAnswer \/ PutAnswer

Turn ==
    \/ TakeMessage \/ Leave \/ GiveUp \/ StartTurn
    \/ \E n \in 0..NumProposals : Propose(n)
    \/ EndTurn
    \/ \E ok \in BOOLEAN : Describe(ok)
    \/ Expect
    \/ \E i \in Proposal : SendCard(i)
    \/ Mark \/ HandleAnswer
    \/ \E i \in Proposal, outcome \in Executed : FinishAction(i, outcome)
    \/ TimerFires \/ SeeDone \/ Return

Next == App \/ Deliver \/ Turn \/ PrepareModel \/ DeadlinePasses \/ Done

Spec == Init /\ [][Next]_vars

(***************************************************************************)
(* The goroutines run, the deadline comes, Prepare and an action return    *)
(* (an action is given six minutes).  The app owes nothing.                *)
(***************************************************************************)
FairSpec ==
    /\ Spec
    /\ WF_vars(Turn) /\ WF_vars(Deliver)
    /\ WF_vars(PrepareModel) /\ WF_vars(DeadlinePasses)
-----------------------------------------------------------------------------
(***************************************************************************)
(* Properties.                                                             *)
(***************************************************************************)
Ran(i) == status[i] \in Executed \cup {"running"}

(* An action runs, or has run, only if the first thing the app said about  *)
(* its card was yes, and said it before the card's deadline.               *)
OnlyApprovedRuns ==
    \A i \in Proposal : Ran(i) => said[i].ok /\ ~said[i].late

(* Of the stops a turn can know about (read since its cards were out), the *)
(* last one read voids every approval read after it.                       *)
LastStopVoidsLaterAnswers ==
    \A i \in InStep : Ran(i) /\ pc \in {"loop", "run"} =>
        ~ \E s \in stops : /\ s > base /\ s < said[i].seq
                           /\ \A t \in stops : t <= s

(* While the turn waits on a card, an answer to it can still arrive: the   *)
(* card is routed to, or its answer is on its way or in the channel.       *)
OpenCardsCanBeAnswered ==
    CardsOut => \A i \in Open :
        \/ i \in waiting
        \/ reader \in {"routed", "stamped"} /\ hand.id = i
        \/ \E k \in DOMAIN answers : answers[k].id = i

(* Each card's answer reaches the turn once, so the channel, made with     *)
(* room for one answer per card, never blocks the reader - which would     *)
(* keep it from reading the stop that should end the turn.                 *)
OneAnswerPerCard ==
    /\ \A k, l \in DOMAIN answers : answers[k].id = answers[l].id => k = l
    /\ \A k \in DOMAIN answers : answers[k].id \in InStep \ waiting
    /\ reader \in {"routed", "stamped"} =>
          /\ hand.id \notin waiting
          /\ \A k \in DOMAIN answers : answers[k].id # hand.id

(* When the model goes on, every proposal of its last step has a result.   *)
EveryProposalHasResult ==
    pc \in {"step", "idle"} => \A i \in 1..made : status[i] \in Settled

(* A card's outcome is settled once: the app, the saved chat and the model *)
(* are all told the same thing.                                            *)
SettledForGood ==
    [][\A i \in Proposal : status[i] \in Settled => status'[i] = status[i]]_vars

(* Every reply ends, whatever the app answers or leaves unanswered.        *)
ReplyEnds == turn ~> ~turn

(* An approval that came in time and before any stop of its reply runs,    *)
(* even if the stop, the deadline or the disconnect is seen first.         *)
InTime(i) ==
    \E k \in DOMAIN answers :
        /\ answers[k].id = i /\ answers[k].ok /\ ~answers[k].late
        /\ \A s \in stops : s > answers[k].seq
ApprovedInTimeRuns == \A i \in Proposal : InTime(i) ~> Ran(i)

(* Every card the app is shown is settled: it can be answered while the    *)
(* turn waits on it, its answer arrives once, and the model learns what    *)
(* became of it (actions.go:186, 204 and 263).                             *)
CardsAreSettled ==
    OpenCardsCanBeAnswered /\ OneAnswerPerCard /\ EveryProposalHasResult
=============================================================================
