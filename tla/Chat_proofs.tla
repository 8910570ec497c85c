---------------------------- MODULE Chat_proofs ----------------------------
(***************************************************************************)
(* Proofs about the chat, for every value of its constants: the turn and   *)
(* its approvals (ChatTurn), then what is saved of it (SavedChat).         *)
(***************************************************************************)
EXTENDS ChatTurn, SavedChat, Integers, WellFoundedInduction, SequenceTheorems, TLAPS


(***************************************************************************)
(* Type correctness.  The answer in the reader's hand is a real one while  *)
(* it is being delivered.                                                  *)
(***************************************************************************)
Types ==
    /\ TypeOK
    /\ reader \in {"routed", "stamped"} => hand \in Answer

LEMMA TypesInit == Init => Types
<1> SUFFICES ASSUME Init PROVE Types
  OBVIOUS
<1> USE ConstantsAssumption DEF Init
<1>1. hand \in Answer \cup {Nothing}
  OBVIOUS
<1>2. inbox \in Seq({"question", "other"}) /\ answers \in Seq(Answer)
  OBVIOUS
<1>3. status \in [Proposal -> Status]
  BY DEF Status
<1>4. said \in [Proposal -> [ok: BOOLEAN, seq: 0..MaxSeq, late: BOOLEAN]]
  BY DEF Nothing
<1>5. first \in 1..(NumProposals + 1) /\ made \in 0..NumProposals /\ next \in 1..(NumProposals + 1)
  OBVIOUS
<1>6. /\ waiting \subseteq Proposal /\ stops \subseteq 1..MaxSeq
  OBVIOUS
<1>7. /\ seq \in 0..MaxSeq /\ stopSeq \in 0..MaxSeq
    /\ base \in 0..MaxSeq /\ sent \in 0..MaxMessages
  OBVIOUS
<1>8. steps \in 0..MaxSteps /\ proposed \in 0..MaxActionsPerReply
  OBVIOUS
<1>9. turn \in BOOLEAN /\ cancelled \in BOOLEAN /\ closed \in BOOLEAN /\ late \in BOOLEAN
  OBVIOUS
<1>10. /\ reader \in {"reading", "stopping", "routed", "stamped", "gone"}
    /\ pc \in {"idle", "prepare", "step", "describe", "send", "loop", "run", "closed"}
    /\ prepare \in {"running", "ready", "failed"}
    /\ drain \in {"no", "expired", "cancelled"}
  OBVIOUS
<1> QED
  BY <1>1, <1>2, <1>3, <1>4, <1>5, <1>6, <1>7, <1>8, <1>9, <1>10 DEF Types, TypeOK

LEMMA TypesStep == Types /\ [Next]_vars => Types'
<1> SUFFICES ASSUME Types, [Next]_vars
             PROVE  Types'
  OBVIOUS
<1> USE ConstantsAssumption DEF Types, TypeOK, readerVars, turnVars, history
<1>1. ASSUME NEW kind \in {"question", "other"}, ReadMessage(kind)
      PROVE  Types'
  <2>1. inbox' \in Seq({"question", "other"}) /\ sent' \in 0..MaxMessages
    BY <1>1 DEF ReadMessage
  <2> QED  BY <1>1, <2>1 DEF ReadMessage
<1>2. CASE ReadStop
  BY <1>2 DEF ReadStop
<1>3. ASSUME NEW i \in Proposal, NEW ok \in BOOLEAN, ReadAnswer(i, ok)
      PROVE  Types'
  <2>1. seq' \in 0..MaxSeq /\ seq + 1 \in 1..MaxSeq
    BY <1>3 DEF ReadAnswer
  <2>2. [ok |-> ok, seq |-> seq + 1, late |-> late]
            \in [ok: BOOLEAN, seq: 0..MaxSeq, late: BOOLEAN]
    BY <2>1
  <2>3. said' \in [Proposal -> [ok: BOOLEAN, seq: 0..MaxSeq, late: BOOLEAN]]
    BY <1>3, <2>2 DEF ReadAnswer
  <2>4. [id |-> i, ok |-> ok, seq |-> seq + 1, late |-> FALSE] \in Answer
    BY <2>1 DEF Answer
  <2>5. waiting' \subseteq Proposal
    BY <1>3 DEF ReadAnswer, Unrouted
  <2>6. /\ reader' \in {"reading", "stopping", "routed", "stamped", "gone"}
        /\ hand' \in Answer \cup {Nothing}
        /\ reader' \in {"routed", "stamped"} => hand' \in Answer
    BY <1>3, <2>4 DEF ReadAnswer
  <2> QED  BY <1>3, <2>1, <2>3, <2>5, <2>6 DEF ReadAnswer
<1>4. CASE Disconnect
  BY <1>4 DEF Disconnect
<1>5. CASE CancelTurn
  BY <1>5 DEF CancelTurn
<1>6. CASE StampAnswer
  <2>1. hand' \in Answer
    BY <1>6 DEF StampAnswer, Answer
  <2>2. UNCHANGED <<inbox, waiting, seq, stopSeq, pc, prepare, turnVars, history>>
    BY <1>6 DEF StampAnswer
  <2>3. reader' = "stamped"
    BY <1>6 DEF StampAnswer
  <2> QED  BY <2>1, <2>2, <2>3
<1>7. CASE PutAnswer
  <2>1. answers' \in Seq(Answer)
    BY <1>7 DEF PutAnswer
  <2> QED  BY <1>7, <2>1 DEF PutAnswer
<1>8. CASE TakeMessage
  BY <1>8 DEF TakeMessage
<1>9. CASE Leave
  BY <1>9 DEF Leave
<1>10. CASE GiveUp
  BY <1>10 DEF GiveUp
<1>11. CASE StartTurn
  BY <1>11 DEF StartTurn
<1>12. ASSUME NEW n \in 0..NumProposals, Propose(n)
       PROVE  Types'
  BY <1>12 DEF Propose
<1>13. CASE EndTurn
  <2>1. pc' \in {"idle", "closed"}
    BY <1>13 DEF EndTurn
  <2>2. turn' = FALSE /\ cancelled' = FALSE
    BY <1>13 DEF EndTurn
  <2>3. /\ steps' \in 0..MaxSteps /\ proposed' \in 0..MaxActionsPerReply
    BY <1>13 DEF EndTurn
  <2>4. stops' = {}
    BY <1>13 DEF EndTurn
  <2>5. UNCHANGED <<readerVars, prepare, closed, first, made, next, status, answers,
                    late, base, drain, sent, said>>
    BY <1>13 DEF EndTurn
  <2>6. /\ reader' = reader /\ hand' = hand /\ inbox' = inbox /\ waiting' = waiting
        /\ seq' = seq /\ stopSeq' = stopSeq /\ prepare' = prepare /\ closed' = closed
    BY <2>5
  <2>7. /\ first' = first /\ made' = made /\ next' = next /\ status' = status /\ answers' = answers
        /\ late' = late /\ base' = base /\ drain' = drain /\ sent' = sent /\ said' = said
    BY <2>5
  <2>8. TypeOK'
    <3>1. /\ reader' \in {"reading", "stopping", "routed", "stamped", "gone"}
          /\ hand' \in Answer \cup {Nothing} /\ inbox' \in Seq({"question", "other"})
          /\ waiting' \subseteq Proposal /\ seq' \in 0..MaxSeq /\ stopSeq' \in 0..MaxSeq
          /\ prepare' \in {"running", "ready", "failed"} /\ closed' \in BOOLEAN
      BY <2>6
    <3>2. /\ first' \in 1..(NumProposals + 1) /\ made' \in 0..NumProposals
          /\ next' \in 1..(NumProposals + 1) /\ status' \in [Proposal -> Status]
          /\ answers' \in Seq(Answer) /\ late' \in BOOLEAN /\ base' \in 0..MaxSeq
          /\ drain' \in {"no", "expired", "cancelled"} /\ sent' \in 0..MaxMessages
          /\ said' \in [Proposal -> [ok: BOOLEAN, seq: 0..MaxSeq, late: BOOLEAN]]
      BY <2>7
    <3>3. stops' \subseteq 1..MaxSeq
      BY <2>4
    <3> QED
      BY <2>1, <2>2, <2>3, <3>1, <3>2, <3>3, Zenon
  <2>9. (reader \in {"routed", "stamped"} => hand \in Answer)'
    BY <2>6
  <2> QED
    BY <2>8, <2>9
<1>14. ASSUME NEW ok \in BOOLEAN, Describe(ok)
       PROVE  Types'
  <2>1. status' \in [Proposal -> Status]
    BY <1>14 DEF Describe, Status, Settled
  <2>2. proposed' \in 0..MaxActionsPerReply
    BY <1>14 DEF Describe, OverCap
  <2>3. next' \in 1..(NumProposals + 1)
    BY <1>14 DEF Describe
  <2> QED  BY <1>14, <2>1, <2>2, <2>3 DEF Describe
<1>15. CASE Expect
  <2>1. InStep \subseteq Proposal
    BY DEF InStep, Proposal
  <2>2. waiting' \subseteq Proposal
    BY <1>15, <2>1 DEF Expect, Described
  <2>3. answers' \in Seq(Answer)
    BY <1>15 DEF Expect
  <2>4. pc' \in {"step", "send"} /\ late' = FALSE
    BY <1>15 DEF Expect
  <2>5. /\ reader' = reader /\ hand' = hand /\ inbox' = inbox /\ seq' = seq /\ stopSeq' = stopSeq
        /\ prepare' = prepare /\ turn' = turn /\ cancelled' = cancelled /\ closed' = closed
    BY <1>15 DEF Expect
  <2>6. /\ steps' = steps /\ proposed' = proposed /\ first' = first /\ made' = made /\ next' = next
        /\ status' = status /\ base' = base /\ drain' = drain
        /\ sent' = sent /\ said' = said /\ stops' = stops
    BY <1>15 DEF Expect, history
  <2>7. TypeOK'
    <3>1. /\ reader' \in {"reading", "stopping", "routed", "stamped", "gone"}
          /\ hand' \in Answer \cup {Nothing} /\ inbox' \in Seq({"question", "other"})
          /\ seq' \in 0..MaxSeq /\ stopSeq' \in 0..MaxSeq
          /\ prepare' \in {"running", "ready", "failed"}
          /\ turn' \in BOOLEAN /\ cancelled' \in BOOLEAN /\ closed' \in BOOLEAN
      BY <2>5
    <3>2. /\ steps' \in 0..MaxSteps /\ proposed' \in 0..MaxActionsPerReply
          /\ first' \in 1..(NumProposals + 1) /\ made' \in 0..NumProposals
          /\ next' \in 1..(NumProposals + 1) /\ status' \in [Proposal -> Status]
          /\ base' \in 0..MaxSeq /\ drain' \in {"no", "expired", "cancelled"}
          /\ sent' \in 0..MaxMessages /\ stops' \subseteq 1..MaxSeq
          /\ said' \in [Proposal -> [ok: BOOLEAN, seq: 0..MaxSeq, late: BOOLEAN]]
      BY <2>6
    <3>3. pc' \in {"idle", "prepare", "step", "describe", "send", "loop", "run", "closed"} /\ late' \in BOOLEAN
      BY <2>4
    <3> QED
      BY <2>2, <2>3, <3>1, <3>2, <3>3, Zenon
  <2>8. (reader \in {"routed", "stamped"} => hand \in Answer)'
    BY <2>5
  <2> QED
    BY <2>7, <2>8
<1>16. ASSUME NEW i \in Proposal, SendCard(i)
       PROVE  Types'
  BY <1>16 DEF SendCard, Status
<1>17. CASE Mark
  BY <1>17 DEF Mark
<1>18. CASE HandleAnswer
  <2>1. answers' \in Seq(Answer)
    BY <1>18 DEF HandleAnswer
  <2>2. Verdict(Head(answers)) \in Status
    BY DEF Verdict, Status, Settled
  <2>3. status' \in [Proposal -> Status]
    BY <1>18, <2>2 DEF HandleAnswer
  <2> QED  BY <1>18, <2>1, <2>3 DEF HandleAnswer
<1>19. ASSUME NEW i \in Proposal, NEW outcome \in Executed, FinishAction(i, outcome)
       PROVE  Types'
  BY <1>19 DEF FinishAction, Status, Settled
<1>20. CASE TimerFires
  BY <1>20 DEF TimerFires
<1>21. CASE SeeDone
  BY <1>21 DEF SeeDone
<1>22. CASE Return
  <2>1. drain # "no" => drain \in Status
    BY DEF Status, Settled
  <2>2. drain = "no" => Open = {}
    BY <1>22 DEF Return
  <2>3. status' \in [Proposal -> Status]
    BY <1>22, <2>1, <2>2 DEF Return, Rest
  <2>4. waiting' \subseteq Proposal /\ answers' \in Seq(Answer)
    BY <1>22 DEF Return
  <2>5. late' = FALSE /\ drain' = "no" /\ pc' = "step"
    BY <1>22 DEF Return
  <2>7. base' \in 0..MaxSeq
    BY <1>22 DEF Return
  <2>6. UNCHANGED <<reader, hand, inbox, seq, stopSeq, prepare, turn, cancelled,
                    closed, steps, proposed, first, made, next, history>>
    BY <1>22 DEF Return
  <2> QED  BY <2>3, <2>4, <2>5, <2>6, <2>7
<1>23. CASE PrepareModel
  BY <1>23 DEF PrepareModel
<1>24. CASE DeadlinePasses
  BY <1>24 DEF DeadlinePasses
<1>25. CASE UNCHANGED vars
  BY <1>25 DEF vars
<1> QED
  BY <1>1, <1>2, <1>3, <1>4, <1>5, <1>6, <1>7, <1>8, <1>9, <1>10, <1>11, <1>12,
     <1>13, <1>14, <1>15, <1>16, <1>17, <1>18, <1>19, <1>20, <1>21, <1>22, <1>23,
     <1>24, <1>25
     DEF Next, App, Deliver, Turn, Done

(* The state of the chat always has its type: each goroutine is at one of  *)
(* its places, and no count passes its limit.                              *)
THEOREM TypeCorrect == Spec => []TypeOK
<1>1. Types => TypeOK
  BY DEF Types
<1> QED  BY <1>1, TypesInit, TypesStep, PTL DEF Spec
-----------------------------------------------------------------------------
(***************************************************************************)
(* Only approved actions run.  The property is about a card's outcome and  *)
(* the first thing the app said of it; between the two the answer travels  *)
(* through the reader's hand and the channel, while the deadline may pass, *)
(* the run may return and another may begin.  So the invariant follows the *)
(* answer: what is in hand or in the channel is what the app first said,   *)
(* and nothing was said of a card that is still routed to or never shown.  *)
(***************************************************************************)
Unsaid == \A i \in Proposal :
    status[i] \in {"none", "described", "refused"} \/ i \in waiting => said[i].seq = 0

Fresh ==
    /\ \A i \in Proposal : i > made => status[i] = "none"
    /\ pc = "describe" => first <= next
    /\ pc = "describe" => \A i \in InStep :
          /\ status[i] \in {"none", "described", "refused"}
          /\ i >= next => status[i] = "none"

InHand == reader \in {"routed", "stamped"} =>
    /\ said[hand.id].seq = hand.seq
    /\ said[hand.id].ok = hand.ok

\* An answer to this run's cards given after the deadline is stamped late.
InHandLate ==
    /\ reader = "routed" /\ Held(hand) /\ said[hand.id].late => late
    /\ reader = "stamped" /\ Held(hand) /\ said[hand.id].late => hand.late

InChannel == \A k \in DOMAIN answers :
    /\ said[answers[k].id].seq = answers[k].seq
    /\ said[answers[k].id].ok = answers[k].ok
    /\ said[answers[k].id].late => answers[k].late

RanApproved == \A i \in Proposal :
    Ran(i) => said[i].seq # 0 /\ said[i].ok /\ ~said[i].late

RunInv == Unsaid /\ Fresh /\ InHand /\ InHandLate /\ InChannel /\ RanApproved

LEMMA AnswerFields ==
    \A a \in Answer : a.id \in Proposal /\ a.seq \in 1..MaxSeq /\ a.seq # 0
  BY ConstantsAssumption DEF Answer

LEMMA RunInit == Init => RunInv
  BY DEF Init, RunInv, Unsaid, Fresh, InHand, InHandLate, InChannel, RanApproved,
         Proposal, Nothing, Ran, Executed, InStep

LEMMA RunStep == Types /\ RunInv /\ [Next]_vars => RunInv'
<1> SUFFICES ASSUME Types, RunInv, [Next]_vars
             PROVE  RunInv'
  OBVIOUS
<1> USE ConstantsAssumption
    DEF Types, TypeOK, RunInv, Unsaid, Fresh, InHand, InHandLate, InChannel,
        RanApproved, Ran, Executed, InStep, Held, CardsOut, readerVars, turnVars, history
<1>1. ASSUME NEW kind \in {"question", "other"}, ReadMessage(kind)
      PROVE  RunInv'
  BY <1>1 DEF ReadMessage
<1>2. CASE ReadStop
  BY <1>2 DEF ReadStop
<1>3. ASSUME NEW i \in Proposal, NEW ok \in BOOLEAN, ReadAnswer(i, ok)
      PROVE  RunInv'
  <2>a. \A k \in DOMAIN answers : answers[k] \in Answer
    OBVIOUS
  <2>1. \A k \in DOMAIN answers : answers[k].id \in Proposal /\ answers[k].seq # 0
    BY <2>a, AnswerFields
  <2>2. said[i].seq = 0 => said' = [said EXCEPT ![i] =
                                        [ok |-> ok, seq |-> seq + 1, late |-> late]]
    BY <1>3 DEF ReadAnswer
  <2>3. said[i].seq # 0 => said' = said
    BY <1>3 DEF ReadAnswer
  <2>4. \A j \in Proposal : said[j].seq # 0 => said'[j] = said[j]
    BY <2>2, <2>3
  <2>5. UNCHANGED <<status, answers, made, first, next, pc, late>>
    BY <1>3 DEF ReadAnswer
  <2>6. Unsaid'
    BY <1>3, <2>2, <2>3, <2>5 DEF ReadAnswer, Unrouted
  <2>7. Fresh'
    BY <2>5
  <2>8. InChannel'
    BY <2>1, <2>4, <2>5
  <2>9. RanApproved'
    BY <2>4, <2>5
  <2>10. CASE i \in waiting
    <3>1. said[i].seq = 0
      BY <2>10
    <3>2. /\ hand' = [id |-> i, ok |-> ok, seq |-> seq + 1, late |-> FALSE]
          /\ reader' = "routed"
      BY <1>3, <2>10 DEF ReadAnswer
    <3>3. said'[i] = [ok |-> ok, seq |-> seq + 1, late |-> late]
      BY <2>2, <3>1
    <3>4. InHand' /\ InHandLate'
      BY <2>5, <3>2, <3>3
    <3> QED  BY <2>6, <2>7, <2>8, <2>9, <3>4
  <2>11. CASE i \notin waiting
    <3>1. reader' = "reading"
      BY <1>3, <2>11 DEF ReadAnswer
    <3> QED  BY <2>6, <2>7, <2>8, <2>9, <3>1
  <2> QED  BY <2>10, <2>11
<1>4. CASE Disconnect
  BY <1>4 DEF Disconnect
<1>5. CASE CancelTurn
  BY <1>5 DEF CancelTurn
<1>6. CASE StampAnswer
  BY <1>6 DEF StampAnswer
<1>7. CASE PutAnswer
  BY <1>7 DEF PutAnswer
<1>8. CASE TakeMessage
  BY <1>8 DEF TakeMessage
<1>9. CASE Leave
  BY <1>9 DEF Leave
<1>10. CASE GiveUp
  BY <1>10 DEF GiveUp
<1>11. CASE StartTurn
  BY <1>11 DEF StartTurn
<1>12. ASSUME NEW n \in 0..NumProposals, Propose(n)
      PROVE  RunInv'
  <2>1. UNCHANGED <<status, said, waiting, answers, reader, hand>>
    BY <1>12 DEF Propose
  <2>2. /\ first' = made + 1 /\ made' = made + n /\ next' = made + 1
        /\ made + n <= NumProposals
    BY <1>12 DEF Propose
  <2>3. ~CardsOut'
    BY <1>12 DEF Propose
  <2>4. Fresh'
    <3>1. \A j \in Proposal : j > made => status'[j] = "none"
      BY <2>1
    <3>2. \A j \in InStep' : j \in Proposal /\ j > made
      BY <2>2, SMTT(20) DEF Proposal
    <3>3. \A j \in InStep' : status'[j] = "none"
      BY <3>1, <3>2
    <3>4. \A j \in Proposal : j > made' => status'[j] = "none"
      BY <2>2, <3>1 DEF Proposal
    <3>5. first' <= next'
      BY <2>2
    <3> QED  BY <3>3, <3>4, <3>5
  <2> QED  BY <2>1, <2>3, <2>4
<1>13. CASE EndTurn
  BY <1>13 DEF EndTurn
<1>14. ASSUME NEW ok \in BOOLEAN, Describe(ok)
      PROVE  RunInv'
  <2> DEFINE became == status'[next]
  <2>1. /\ next \in InStep /\ next \in Proposal
        /\ status[next] = "none"
    BY <1>14 DEF Describe, Proposal
  <2>2. became \in {"described", "refused"}
    BY <1>14, <2>1 DEF Describe
  <2>3. \A j \in Proposal : j # next => status'[j] = status[j]
    BY <1>14 DEF Describe
  <2>4. /\ UNCHANGED <<said, waiting, answers, reader, hand, made, first, pc>>
        /\ next' = next + 1
        /\ ~CardsOut'
    BY <1>14 DEF Describe
  <2>5. Unsaid' /\ RanApproved'
    BY <2>1, <2>2, <2>3, <2>4
  <2>6. Fresh'
    <3>1. \A j \in Proposal : j > made' => status'[j] = "none"
      <4>1. next <= made
        BY <2>1
      <4>2. \A j \in Proposal : j > made => status[j] = "none"
        OBVIOUS
      <4>3. ASSUME NEW j \in Proposal, j > made
            PROVE  status'[j] = "none"
        <5>1. j # next
          BY <4>1, <4>3, <2>1 DEF Proposal
        <5> QED  BY <5>1, <4>2, <4>3, <2>3
      <4>4. made' = made
        BY <2>4
      <4> QED  BY <4>3, <4>4
    <3>2. \A j \in InStep' : j \in InStep /\ j \in Proposal
      BY <2>4 DEF Proposal
    <3>3. \A j \in InStep' : /\ status'[j] \in {"none", "described", "refused"}
                             /\ j >= next' => status'[j] = "none"
      <4>1. pc = "describe"
        BY <1>14 DEF Describe
      <4> SUFFICES ASSUME NEW j \in InStep'
                   PROVE  /\ status'[j] \in {"none", "described", "refused"}
                          /\ j >= next' => status'[j] = "none"
        OBVIOUS
      <4>2. CASE j = next
        BY <2>2, <2>4, <4>2
      <4>3. CASE j # next
        BY <2>3, <2>4, <3>2, <4>1, <4>3 DEF Proposal
      <4> QED  BY <4>2, <4>3
    <3>4. first' <= next'
      BY <1>14, <2>4 DEF Describe
    <3> QED  BY <3>1, <3>3, <3>4
  <2> QED  BY <2>4, <2>5, <2>6
<1>15. CASE Expect
  <2>1. /\ UNCHANGED <<status, said, reader, hand, made, first, next>>
        /\ waiting' = waiting \cup Described
        /\ answers' = <<>>
        /\ pc = "describe" /\ pc' # "describe"
    BY <1>15 DEF Expect
  <2>2. Described \subseteq Proposal
    BY DEF Described, Proposal
  <2>3. Unsaid'
    BY <2>1, <2>2 DEF Described
  <2>4. Fresh' /\ InHand' /\ InChannel' /\ RanApproved'
    BY <2>1
  <2>5. reader \in {"routed", "stamped"} => hand.id \in Proposal /\ hand.seq # 0
    BY DEF Answer
  <2>6. reader \in {"routed", "stamped"} => hand.id \notin InStep
    BY <2>1, <2>5
  <2>7. InHandLate'
    BY <2>1, <2>6
  <2> QED  BY <2>3, <2>4, <2>7
<1>16. ASSUME NEW i \in Proposal, SendCard(i)
      PROVE  RunInv'
  BY <1>16 DEF SendCard, Described
<1>17. CASE Mark
  BY <1>17 DEF Mark
<1>18. CASE HandleAnswer
  <2> DEFINE a == Head(answers)
  <2>1. answers # <<>> /\ 1 \in DOMAIN answers /\ a = answers[1]
    BY <1>18 DEF HandleAnswer
  <2>2. /\ UNCHANGED <<said, waiting, reader, hand, made, first, next, late>>
        /\ answers' = Tail(answers)
        /\ pc = "loop" /\ pc' \in {"loop", "run"}
    BY <1>18 DEF HandleAnswer
  <2>3. a \in Answer /\ a.id \in Proposal /\ a.seq # 0
    BY <2>1, AnswerFields
  <2>4. /\ said[a.id].seq # 0 /\ said[a.id].ok = a.ok
        /\ said[a.id].late => a.late
    BY <2>1, <2>3
  <2>5. \A j \in Proposal : j # a.id => status'[j] = status[j]
    BY <1>18, <2>3 DEF HandleAnswer
  <2>6. \/ status'[a.id] = status[a.id]
        \/ status[a.id] = "open" /\ status'[a.id] = Verdict(a)
    BY <1>18, <2>3 DEF HandleAnswer, Open
  <2>7. Verdict(a) \in {"cancelled", "expired", "declined", "running"}
    BY DEF Verdict
  <2>8. Verdict(a) = "running" => a.ok /\ ~a.late
    BY DEF Verdict
  <2>9. Unsaid'
    BY <2>2, <2>3, <2>4, <2>5, <2>6, <2>7, SMTT(20)
  <2>14. RanApproved'
    BY <2>2, <2>3, <2>4, <2>5, <2>6, <2>7, <2>8
  <2>10. Fresh'
    BY <2>2, <2>3, <2>5, <2>6
  <2>11. \A k \in DOMAIN answers' : k + 1 \in DOMAIN answers /\ answers'[k] = answers[k + 1]
    BY <2>1, <2>2
  <2>12. InChannel'
    BY <2>2, <2>11
  <2>13. InHand' /\ InHandLate'
    BY <2>2
  <2> QED  BY <2>9, <2>10, <2>12, <2>13, <2>14
<1>19. ASSUME NEW i \in Proposal, NEW outcome \in Executed, FinishAction(i, outcome)
      PROVE  RunInv'
  BY <1>19 DEF FinishAction, Executed
<1>20. CASE TimerFires
  BY <1>20 DEF TimerFires
<1>21. CASE SeeDone
  BY <1>21 DEF SeeDone
<1>22. CASE Return
  BY <1>22 DEF Return, Rest, Open
<1>23. CASE PrepareModel
  BY <1>23 DEF PrepareModel
<1>24. CASE DeadlinePasses
  BY <1>24 DEF DeadlinePasses
<1>25. CASE UNCHANGED vars
  BY <1>25 DEF vars
<1> HIDE DEF Types, TypeOK, RunInv, Unsaid, Fresh, InHand, InHandLate, InChannel,
             RanApproved, Ran, Executed, InStep, Held, CardsOut
<1> QED
  BY <1>1, <1>2, <1>3, <1>4, <1>5, <1>6, <1>7, <1>8, <1>9, <1>10, <1>11, <1>12, <1>13, <1>14, <1>15, <1>16, <1>17, <1>18, <1>19, <1>20, <1>21, <1>22, <1>23, <1>24, <1>25
     DEF Next, App, Deliver, Turn, Done

(* An action runs only if the first thing the app said about its card was  *)
(* yes, said before the card's deadline, whatever the order of answers,    *)
(* stops, deadlines, disconnects and replies.                              *)
THEOREM OnlyApprovedRunsHolds == Spec => []OnlyApprovedRuns
<1>1. Init => Types /\ RunInv
  BY TypesInit, RunInit
<1>2. Types /\ RunInv /\ [Next]_vars => (Types /\ RunInv)'
  BY TypesStep, RunStep
<1>3. RunInv => OnlyApprovedRuns
  BY DEF RunInv, RanApproved, OnlyApprovedRuns
<1> QED  BY <1>1, <1>2, <1>3, PTL DEF Spec

LEMMA SettledStep ==
    Types /\ RunInv /\ [Next]_vars =>
        [\A i \in Proposal : status[i] \in Settled => status'[i] = status[i]]_vars
<1> SUFFICES ASSUME Types, RunInv, [Next]_vars,
                    NEW j \in Proposal, status[j] \in Settled
             PROVE  status'[j] = status[j]
  OBVIOUS
<1> USE ConstantsAssumption
    DEF Types, TypeOK, Settled, Executed, readerVars, turnVars, history
<1>1. ASSUME NEW ok \in BOOLEAN, Describe(ok)
      PROVE  status'[j] = status[j]
  <2>1. next \in InStep /\ status[next] = "none"
    BY <1>1 DEF Describe, RunInv, Fresh, InStep
  <2> QED  BY <1>1, <2>1 DEF Describe
<1>2. ASSUME NEW i \in Proposal, SendCard(i)
      PROVE  status'[j] = status[j]
  BY <1>2 DEF SendCard, Described
<1>3. CASE HandleAnswer
  BY <1>3 DEF HandleAnswer, Open
<1>4. ASSUME NEW i \in Proposal, NEW outcome \in Executed, FinishAction(i, outcome)
      PROVE  status'[j] = status[j]
  BY <1>4 DEF FinishAction
<1>5. CASE Return
  BY <1>5 DEF Return, Rest, Open
<1>6. ASSUME UNCHANGED status
      PROVE  status'[j] = status[j]
  BY <1>6
<1> QED
  BY <1>1, <1>2, <1>3, <1>4, <1>5, <1>6
     DEF Next, App, Deliver, Turn, Done, vars, ReadMessage, ReadStop, ReadAnswer,
         Disconnect, CancelTurn, StampAnswer, PutAnswer, TakeMessage, Leave, GiveUp,
         StartTurn, Propose, EndTurn, Expect, Mark, TimerFires, SeeDone,
         PrepareModel, DeadlinePasses

(* A card's outcome, once the app, the saved chat and the model have been  *)
(* told of it, never changes.                                              *)
THEOREM SettledForGoodHolds == Spec => SettledForGood
<1>1. Init => Types /\ RunInv
  BY TypesInit, RunInit
<1>2. Types /\ RunInv /\ [Next]_vars => (Types /\ RunInv)'
  BY TypesStep, RunStep
<1> QED  BY <1>1, <1>2, SettledStep, PTL DEF Spec, SettledForGood
-----------------------------------------------------------------------------
(***************************************************************************)
(* Every card is settled.  The run's list of cards, the channel and the    *)
(* reader's hand are three places an answer can be; the invariant says     *)
(* which of them a card is in at each place of the main loop, and what     *)
(* outcomes its proposals can have there.                                  *)
(***************************************************************************)
Between == {"step", "idle", "prepare", "closed"}

Places ==
    /\ first <= made + 1
    /\ pc = "describe" => first <= next /\ next <= made + 1
    /\ ~CardsOut => answers = <<>> /\ waiting = {}
    /\ waiting \subseteq InStep

Before == \A i \in Proposal :
    i < first \/ (pc \in Between /\ i <= made) => status[i] \in Settled

Now == \A i \in InStep :
    /\ pc = "describe" /\ i < next => status[i] \in {"described", "refused"}
    /\ pc = "send" => \/ status[i] \in {"refused", "open"}
                      \/ status[i] = "described" /\ i \in waiting
    /\ pc = "loop" => status[i] \in Settled \cup {"open"}
    /\ pc = "run" => status[i] \in Settled \cup {"open", "running"}

OneRuns == pc = "run" =>
    \A i, j \in InStep : status[i] = "running" /\ status[j] = "running" => i = j

CardInv == Places /\ Before /\ Now /\ OneRuns /\ OneAnswerPerCard /\ OpenCardsCanBeAnswered

LEMMA InStepType == Types => InStep \subseteq Proposal /\ 1..made \subseteq Proposal
  BY ConstantsAssumption DEF Types, TypeOK, InStep, Proposal

LEMMA CardInit == Init => CardInv
  BY ConstantsAssumption
     DEF Init, CardInv, Places, Before, Now, OneRuns, OneAnswerPerCard, OpenCardsCanBeAnswered,
         CardsOut, InStep, Between, Proposal, Open

\* A step that leaves the cards, their answers and the main loop alone.
LEMMA CardStutter ==
    CardInv /\ UNCHANGED <<first, made, next, pc, status, waiting, answers, reader, hand>> => CardInv'
  BY DEF CardInv, Places, Before, Now, OneRuns, OneAnswerPerCard, OpenCardsCanBeAnswered,
         CardsOut, InStep, Open

LEMMA CardStep == Types /\ RunInv /\ CardInv /\ [Next]_vars => CardInv'
<1> SUFFICES ASSUME Types, RunInv, CardInv, [Next]_vars
             PROVE  CardInv'
  OBVIOUS
<1>a. /\ InStep \subseteq Proposal
      /\ \A k \in DOMAIN answers : answers[k] \in Answer /\ answers[k].id \in Proposal
      /\ first \in Nat /\ made \in Nat /\ next \in Nat
      /\ \A i \in Proposal : i \in Nat /\ i >= 1 /\ status[i] \in Status
      /\ Proposal = DOMAIN status
      /\ answers \in Seq(Answer)
      /\ reader \in {"routed", "stamped"} => hand \in Answer /\ hand.id \in Proposal
  BY InStepType, AnswerFields, ConstantsAssumption DEF Types, TypeOK, Proposal
<1>b. /\ \A i \in Proposal : status[i] \in {"none", "described", "refused"} => said[i].seq = 0
      /\ reader \in {"routed", "stamped"} => said[hand.id].seq # 0
  BY <1>a, AnswerFields DEF RunInv, Unsaid, InHand
<1>c. pc = "describe" => \A i \in InStep : i >= next => status[i] = "none"
  BY DEF RunInv, Fresh
<1>d. pc \in {"idle", "prepare", "step", "describe", "send", "loop", "run", "closed"}
  BY DEF Types, TypeOK
<1> USE DEF CardInv, Places, Before, Now, OneRuns, OneAnswerPerCard, OpenCardsCanBeAnswered,
            CardsOut, InStep, Open, Between, readerVars, turnVars, history
<1>1. ASSUME NEW kind \in {"question", "other"}, ReadMessage(kind)
      PROVE  CardInv'
  BY <1>1, CardStutter DEF ReadMessage
<1>2. CASE ReadStop
  BY <1>2 DEF ReadStop
<1>3. ASSUME NEW i \in Proposal, NEW ok \in BOOLEAN, ReadAnswer(i, ok)
      PROVE  CardInv'
  <2>1. /\ UNCHANGED <<status, answers, made, first, next, pc>>
        /\ waiting' = waiting \ {i} /\ reader = "reading"
        /\ status[i] # "described"
    BY <1>3 DEF ReadAnswer, Unrouted
  <2>2. CASE i \in waiting
    <3>1. hand'.id = i /\ reader' = "routed"
      BY <1>3, <2>2 DEF ReadAnswer
    <3> QED  BY <2>1, <2>2, <3>1
  <2>3. CASE i \notin waiting
    <3>1. UNCHANGED <<reader, hand, waiting>>
      BY <1>3, <2>1, <2>3 DEF ReadAnswer
    <3> QED  BY <2>1, <3>1, CardStutter
  <2> QED  BY <2>2, <2>3
<1>4. CASE Disconnect
  BY <1>4 DEF Disconnect
<1>5. CASE CancelTurn
  BY <1>5 DEF CancelTurn
<1>6. CASE StampAnswer
  <2>1. hand'.id = hand.id /\ reader = "routed" /\ reader' = "stamped"
    BY <1>6, <1>a DEF StampAnswer, Answer
  <2> QED  BY <1>6, <2>1 DEF StampAnswer
<1>7. CASE PutAnswer
  <2>1. /\ UNCHANGED <<status, waiting, made, first, next, pc>>
        /\ reader = "stamped" /\ reader' = "reading"
    BY <1>7 DEF PutAnswer
  <2>2. CASE Held(hand)
    <3>1. answers' = Append(answers, hand)
      BY <1>7, <2>2 DEF PutAnswer
    <3>2. /\ DOMAIN answers' = 1..(Len(answers) + 1)
          /\ \A k \in DOMAIN answers : k \in DOMAIN answers' /\ answers'[k] = answers[k]
          /\ \A k \in DOMAIN answers' : k \in DOMAIN answers \/ k = Len(answers) + 1
          /\ answers'[Len(answers) + 1] = hand
          /\ Len(answers) + 1 \in DOMAIN answers'
      BY <1>a, <2>1, <3>1
    <3>3. OneAnswerPerCard'
      BY <2>1, <2>2, <3>2 DEF Held
    <3>4. OpenCardsCanBeAnswered'
      BY <2>1, <2>2, <3>2
    <3> QED  BY <2>1, <2>2, <3>3, <3>4 DEF Held
  <2>3. CASE ~Held(hand)
    <3>1. answers' = answers
      BY <1>7, <2>3 DEF PutAnswer
    <3> QED  BY <2>1, <2>3, <3>1 DEF Held
  <2> QED  BY <2>2, <2>3
<1>8. CASE TakeMessage
  BY <1>8, <1>d DEF TakeMessage
<1>9. CASE Leave
  BY <1>9 DEF Leave
<1>10. CASE GiveUp
  BY <1>10 DEF GiveUp
<1>11. CASE StartTurn
  BY <1>11 DEF StartTurn
<1>12. ASSUME NEW n \in 0..NumProposals, Propose(n)
       PROVE  CardInv'
  <2>1. /\ UNCHANGED <<status, waiting, answers, reader, hand>>
        /\ first' = made + 1 /\ made' = made + n /\ next' = made + 1
        /\ pc = "step" /\ pc' \in {"step", "describe"} /\ (n = 0 <=> pc' = "step")
        /\ n \in Nat
    BY <1>12 DEF Propose
  <2>2. answers = <<>> /\ waiting = {}
    BY <2>1
  <2>3. Before'
    <3>1. \A i \in Proposal : i <= made => status[i] \in Settled
      BY <2>1
    <3> QED  BY <2>1, <1>a, <3>1
  <2>4. Places'
    BY <2>1, <2>2, <1>a
  <2>5. Now'
    BY <2>1, <1>a
  <2> QED  BY <2>1, <2>2, <2>3, <2>4, <2>5
<1>13. CASE EndTurn
  BY <1>13 DEF EndTurn
<1>14. ASSUME NEW ok \in BOOLEAN, Describe(ok)
       PROVE  CardInv'
  <2>1. /\ UNCHANGED <<waiting, answers, reader, hand, made, first, pc>>
        /\ pc = "describe" /\ next <= made /\ next' = next + 1
        /\ next \in InStep /\ next \in Proposal
        /\ \A i \in Proposal : i # next => status'[i] = status[i]
        /\ status'[next] \in {"described", "refused"}
    BY <1>14, <1>a DEF Describe
  <2>2. Before' /\ Places'
    BY <2>1, <1>a
  <2>3. Now'
    <3>1. ASSUME NEW i \in InStep, i < next'
          PROVE  status'[i] \in {"described", "refused"}
      BY <2>1, <3>1, <1>a
    <3> QED  BY <2>1, <3>1
  <2> QED  BY <2>1, <2>2, <2>3
<1>15. CASE Expect
  <2>1. /\ UNCHANGED <<status, reader, hand, made, first, next>>
        /\ waiting' = waiting \cup Described /\ waiting = {}
        /\ answers' = <<>> /\ answers = <<>>
        /\ pc = "describe" /\ next > made
        /\ pc' = IF Described = {} THEN "step" ELSE "send"
    BY <1>15 DEF Expect
  <2>2. \A i \in InStep : status[i] \in {"described", "refused"}
    BY <2>1, <1>a
  <2>3. reader \in {"routed", "stamped"} => hand.id \notin Described
    BY <1>a, <1>b DEF Described
  <2>4. OneAnswerPerCard'
    BY <2>1, <2>3
  <2>5. Before'
    <3>1. ASSUME NEW i \in Proposal, i <= made, pc' = "step"
          PROVE  status[i] \in Settled
      <4>1. i < first \/ i \in InStep
        BY <1>a, <3>1
      <4>2. i \in InStep => status[i] = "refused"
        BY <2>1, <2>2, <3>1 DEF Described
      <4> QED  BY <4>1, <4>2 DEF Settled
    <3> QED  BY <2>1, <3>1, <1>a
  <2>6. Now' /\ Places'
    BY <2>1, <2>2 DEF Described
  <2>7. OpenCardsCanBeAnswered' /\ OneRuns'
    BY <2>1, <2>2
  <2> QED  BY <2>4, <2>5, <2>6, <2>7
<1>16. ASSUME NEW i \in Proposal, SendCard(i)
       PROVE  CardInv'
  <2>1. /\ UNCHANGED <<waiting, answers, reader, hand, made, first, next, pc>>
        /\ pc = "send" /\ i \in InStep /\ status[i] = "described"
        /\ \A j \in Proposal : j # i => status'[j] = status[j]
        /\ status'[i] = "open"
    BY <1>16, <1>a DEF SendCard, Described
  <2>2. i \in waiting
    BY <2>1
  <2>3. Before'
    BY <2>1, <1>a
  <2>4. Now' /\ Places'
    BY <2>1, <1>a
  <2>5. OpenCardsCanBeAnswered'
    BY <2>1, <2>2, <1>a
  <2> QED  BY <2>1, <2>3, <2>4, <2>5
<1>17. CASE Mark
  <2>1. /\ UNCHANGED <<waiting, answers, reader, hand, made, first, next, status>>
        /\ pc = "send" /\ pc' = "loop" /\ Described = {}
    BY <1>17 DEF Mark
  <2>2. \A i \in InStep : status[i] \in {"refused", "open"}
    BY <2>1 DEF Described
  <2> QED  BY <2>1, <2>2 DEF Settled
<1>18. CASE HandleAnswer
  <2> DEFINE a == Head(answers)
  <2>1. /\ UNCHANGED <<waiting, reader, hand, made, first, next>>
        /\ answers # <<>> /\ answers' = Tail(answers)
        /\ pc = "loop" /\ pc' \in {"loop", "run"}
    BY <1>18 DEF HandleAnswer
  <2>2. /\ 1 \in DOMAIN answers /\ a = answers[1] /\ a.id \in Proposal
        /\ \A k \in DOMAIN answers' : k + 1 \in DOMAIN answers /\ answers'[k] = answers[k + 1] /\ k \in Nat
        /\ \A k \in DOMAIN answers : k = 1 \/ (k - 1 \in DOMAIN answers' /\ answers'[k - 1] = answers[k])
    BY <1>a, <2>1
  <2>3. /\ \A j \in Proposal : j # a.id => status'[j] = status[j]
        /\ \/ /\ status' = status /\ pc' = "loop" /\ a.id \notin Open
           \/ /\ a.id \in Open /\ status'[a.id] = Verdict(a)
              /\ pc' = IF Verdict(a) = "running" THEN "run" ELSE "loop"
    BY <1>18, <2>2, <1>a DEF HandleAnswer
  <2>4. Verdict(a) = "running" \/ Verdict(a) \in Settled
    BY DEF Verdict, Settled
  <2>0. "open" \notin Settled /\ "running" \notin Settled /\ "open" # "running"
    BY DEF Settled, Executed
  <2>5. OneAnswerPerCard'
    <3>1. \A k, l \in DOMAIN answers' : answers'[k].id = answers'[l].id => k = l
      BY <2>2
    <3> QED  BY <2>1, <2>2, <3>1
  <2>6. Places'
    BY <2>1, <2>2, <2>3
  <2>7. Before' /\ Now'
    <3>1. \A j \in InStep : status[j] \in Settled \cup {"open"}
      BY <2>1
    <3>2. CASE a.id \notin Open
      <4>1. status' = status /\ pc' = "loop"
        BY <2>3, <3>2
      <4> QED  BY <2>1, <3>1, <4>1
    <3>3. CASE a.id \in Open
      <4>1. /\ a.id \in InStep /\ ~(a.id < first)
            /\ status'[a.id] = Verdict(a)
            /\ Verdict(a) \in Settled \cup {"running"}
            /\ Verdict(a) = "running" => pc' = "run"
        BY <2>2, <2>3, <2>4, <3>3, <1>a
      <4>2. Before'
        BY <2>1, <2>3, <4>1, <1>a
      <4>3. ASSUME NEW j \in InStep
            PROVE  /\ pc' = "loop" => status'[j] \in Settled \cup {"open"}
                   /\ pc' = "run" => status'[j] \in Settled \cup {"open", "running"}
        BY <2>3, <3>1, <4>1, <4>3, <1>a
      <4> QED  BY <2>1, <4>2, <4>3
    <3> QED  BY <3>2, <3>3
  <2>8. OneRuns'
    <3>1. \A j \in InStep : status[j] # "running"
      BY <2>1, <2>0
    <3>2. \A j \in InStep : status'[j] = "running" => j = a.id
      BY <2>3, <3>1, <1>a
    <3> QED  BY <2>1, <3>2
  <2>9. OpenCardsCanBeAnswered'
    <3>1. \A j \in Open' : j \in Open /\ j # a.id
      BY <2>1, <2>2, <2>3, <2>4, <2>0, <1>a
    <3>2. ASSUME NEW j \in Open', NEW k \in DOMAIN answers, answers[k].id = j
          PROVE  \E l \in DOMAIN answers' : answers'[l].id = j
      BY <2>2, <3>1, <3>2
    <3> QED  BY <2>1, <3>1, <3>2
  <2> QED  BY <2>5, <2>6, <2>7, <2>8, <2>9
<1>19. ASSUME NEW i \in Proposal, NEW outcome \in Executed, FinishAction(i, outcome)
       PROVE  CardInv'
  <2>1. /\ UNCHANGED <<waiting, answers, reader, hand, made, first, next>>
        /\ pc = "run" /\ pc' = "loop" /\ i \in InStep /\ status[i] = "running"
        /\ \A j \in Proposal : j # i => status'[j] = status[j]
        /\ status'[i] = outcome
    BY <1>19, <1>a DEF FinishAction
  <2>2. outcome \in Settled /\ outcome # "open" /\ outcome # "running"
    BY DEF Settled, Executed
  <2>3. \A j \in InStep : j # i => status[j] # "running"
    BY <2>1
  <2>4. Now'
    BY <2>1, <2>2, <2>3, <1>a
  <2>5. Before' /\ Places'
    BY <2>1, <2>2, <1>a
  <2>6. OpenCardsCanBeAnswered'
    BY <2>1, <2>2, <1>a
  <2> QED  BY <2>1, <2>4, <2>5, <2>6
<1>20. CASE TimerFires
  BY <1>20, CardStutter DEF TimerFires
<1>21. CASE SeeDone
  BY <1>21, CardStutter DEF SeeDone
<1>22. CASE Return
  <2>1. /\ UNCHANGED <<reader, hand, made, first, next>>
        /\ pc = "loop" /\ pc' = "step"
        /\ waiting' = waiting \ InStep /\ answers' = <<>>
        /\ \A i \in Proposal : status'[i] = IF i \in Open THEN drain ELSE status[i]
        /\ drain # "no" \/ Open = {}
    BY <1>22 DEF Return, Rest
  <2>2. drain # "no" => drain \in Settled
    BY DEF Types, TypeOK, Settled
  <2>3. Before'
    <3>1. ASSUME NEW i \in Proposal, i <= made
          PROVE  status'[i] \in Settled
      <4>1. i < first \/ i \in InStep
        BY <1>a, <3>1
      <4>2. i \in Open => status'[i] \in Settled
        BY <2>1, <2>2
      <4>3. i \notin Open => status[i] \in Settled
        BY <2>1, <4>1
      <4> QED  BY <2>1, <4>2, <4>3
    <3> QED  BY <2>1, <3>1, <1>a
  <2>4. Places'
    BY <2>1
  <2> QED  BY <2>1, <2>3, <2>4
<1>23. CASE PrepareModel
  BY <1>23, CardStutter DEF PrepareModel
<1>24. CASE DeadlinePasses
  BY <1>24, CardStutter DEF DeadlinePasses
<1>25. CASE UNCHANGED vars
  BY <1>25, CardStutter DEF vars
<1> HIDE DEF CardInv, Places, Before, Now, OneRuns, OneAnswerPerCard, OpenCardsCanBeAnswered,
             CardsOut, InStep, Open, Between
<1> QED
  BY <1>1, <1>2, <1>3, <1>4, <1>5, <1>6, <1>7, <1>8, <1>9, <1>10, <1>11, <1>12,
     <1>13, <1>14, <1>15, <1>16, <1>17, <1>18, <1>19, <1>20, <1>21, <1>22, <1>23,
     <1>24, <1>25
     DEF Next, App, Deliver, Turn, Done

(* While a turn waits on its cards each open one can still be answered,    *)
(* its answer reaches the turn once, and when the model goes on every      *)
(* proposal has a result, however answers, stops, deadlines and            *)
(* disconnects fall.                                                       *)
THEOREM CardsAreSettledHolds == Spec => []CardsAreSettled
<1>1. Init => Types /\ RunInv /\ CardInv
  BY TypesInit, RunInit, CardInit
<1>2. Types /\ RunInv /\ CardInv /\ [Next]_vars => (Types /\ RunInv /\ CardInv)'
  BY TypesStep, RunStep, CardStep
<1>3. Types /\ CardInv => CardsAreSettled
  <2>1. Types => \A i \in 1..made : i \in Proposal /\ i <= made
    BY ConstantsAssumption DEF Types, TypeOK, Proposal
  <2>2. Types /\ CardInv => EveryProposalHasResult
    BY <2>1 DEF CardInv, Before, EveryProposalHasResult, Between
  <2> QED  BY <2>2 DEF CardInv, CardsAreSettled
<1> QED  BY <1>1, <1>2, <1>3, PTL DEF Spec
-----------------------------------------------------------------------------
(***************************************************************************)
(* The last stop.  The turn compares an answer with the last stop read,    *)
(* when it takes the answer; the property compares them whenever it is     *)
(* asked.  What makes the two agree: answers and stops are numbered in the *)
(* order they are read, so a later stop is above every answer taken.       *)
(***************************************************************************)
StopsInOrder ==
    /\ stopSeq <= seq
    /\ stops # {} => stopSeq \in stops
    /\ \A s \in stops : s <= stopSeq
    /\ \A i \in Proposal : said[i].seq <= seq

RanBeforeStop == pc \in {"loop", "run"} =>
    \A i \in InStep : Ran(i) => stopSeq <= base \/ said[i].seq <= stopSeq

StopInv == StopsInOrder /\ RanBeforeStop

LEMMA StopInit == Init => StopInv
  BY ConstantsAssumption DEF Init, StopInv, StopsInOrder, RanBeforeStop, Nothing

LEMMA StopStep == Types /\ RunInv /\ CardInv /\ StopInv /\ [Next]_vars => StopInv'
<1> SUFFICES ASSUME Types, RunInv, CardInv, StopInv, [Next]_vars
             PROVE  StopInv'
  OBVIOUS
<1>a. /\ seq \in Nat /\ stopSeq \in Nat /\ base \in Nat
      /\ \A i \in Proposal : said[i].seq \in Nat
      /\ stops \subseteq Nat
      /\ InStep \subseteq Proposal
      /\ Proposal = DOMAIN said /\ Proposal = DOMAIN status
  BY InStepType, ConstantsAssumption DEF Types, TypeOK
<1>b. \A i \in Proposal : Ran(i) => said[i].seq # 0
  BY DEF RunInv, RanApproved
<1> USE DEF StopInv, StopsInOrder, RanBeforeStop, InStep, Ran, readerVars, turnVars, history
<1>1. CASE ReadStop
  BY <1>1, <1>a DEF ReadStop
<1>2. ASSUME NEW i \in Proposal, NEW ok \in BOOLEAN, ReadAnswer(i, ok)
      PROVE  StopInv'
  <2>1. /\ UNCHANGED <<status, stops, stopSeq, first, made, pc, base>>
        /\ seq' = seq + 1
    BY <1>2 DEF ReadAnswer
  <2>2. \A j \in Proposal : said'[j].seq = IF j = i /\ said[i].seq = 0 THEN seq + 1 ELSE said[j].seq
    BY <1>2, <1>a DEF ReadAnswer
  <2>3. StopsInOrder'
    BY <2>1, <2>2, <1>a
  <2>4. \A j \in Proposal : Ran(j) => said'[j].seq = said[j].seq
    BY <2>2, <1>b
  <2> QED  BY <2>1, <2>3, <2>4, <1>a
<1>3. CASE TakeMessage
  BY <1>3, <1>a DEF TakeMessage
<1>4. CASE EndTurn
  BY <1>4, <1>a DEF EndTurn
<1>5. ASSUME NEW n \in 0..NumProposals, Propose(n)
      PROVE  StopInv'
  BY <1>5, <1>a DEF Propose
<1>6. ASSUME NEW ok \in BOOLEAN, Describe(ok)
      PROVE  StopInv'
  BY <1>6, <1>a DEF Describe
<1>7. ASSUME NEW i \in Proposal, SendCard(i)
      PROVE  StopInv'
  BY <1>7, <1>a DEF SendCard
<1>8. CASE Mark
  <2>1. /\ UNCHANGED <<status, stops, stopSeq, seq, said, first, made>>
        /\ pc = "send"
    BY <1>8 DEF Mark
  <2>2. \A i \in InStep : ~Ran(i)
    BY <2>1 DEF CardInv, Now, Executed
  <2> QED  BY <2>1, <2>2, <1>a
<1>9. CASE HandleAnswer
  <2> DEFINE a == Head(answers)
  <2>1. /\ UNCHANGED <<stops, stopSeq, seq, said, first, made, base>>
        /\ answers # <<>> /\ pc = "loop"
    BY <1>9 DEF HandleAnswer
  <2>2. /\ 1 \in DOMAIN answers /\ a = answers[1] /\ a \in Answer /\ a.id \in Proposal
        /\ said[a.id].seq = a.seq /\ a.seq \in Nat
    BY <2>1, AnswerFields DEF Types, TypeOK, RunInv, InChannel
  <2>3. /\ \A j \in Proposal : j # a.id => status'[j] = status[j]
        /\ status'[a.id] \in {status[a.id], Verdict(a)}
    BY <1>9, <2>2, <1>a DEF HandleAnswer
  <2>4. Verdict(a) \in Executed \cup {"running"} => stopSeq <= base \/ a.seq <= stopSeq
    BY <2>2, <1>a DEF Verdict, AfterStop, Executed
  <2>5. ASSUME NEW j \in InStep, Ran(j)'
        PROVE  stopSeq <= base \/ said[j].seq <= stopSeq
    BY <2>1, <2>2, <2>3, <2>4, <2>5, <1>a
  <2> QED  BY <2>1, <2>5, <1>a
<1>10. ASSUME NEW i \in Proposal, NEW outcome \in Executed, FinishAction(i, outcome)
       PROVE  StopInv'
  <2>1. /\ UNCHANGED <<stops, stopSeq, seq, said, first, made, base>>
        /\ pc = "run" /\ status[i] = "running"
        /\ \A j \in Proposal : j # i => status'[j] = status[j]
    BY <1>10, <1>a DEF FinishAction
  <2>2. \A j \in Proposal : Ran(j)' => Ran(j)
    BY <2>1
  <2> QED  BY <2>1, <2>2, <1>a
<1>11. CASE Return
  BY <1>11, <1>a DEF Return
<1>12. ASSUME UNCHANGED <<seq, stopSeq, stops, said, base, first, made, status>>,
              pc' = pc \/ pc' \notin {"loop", "run"}
       PROVE  StopInv'
  BY <1>12, <1>a
<1> HIDE DEF StopInv, StopsInOrder, RanBeforeStop, InStep, Ran
<1> QED
  BY <1>1, <1>2, <1>3, <1>4, <1>5, <1>6, <1>7, <1>8, <1>9, <1>10, <1>11, <1>12
     DEF Next, App, Deliver, Turn, Done, vars, ReadMessage, Disconnect, CancelTurn,
         StampAnswer, PutAnswer, Leave, GiveUp, StartTurn, Expect, TimerFires, SeeDone,
         PrepareModel, DeadlinePasses

(* Of the stops a turn can know about, the last one read voids every       *)
(* approval read after it: whenever the turn asks, nothing has run whose   *)
(* answer came after it.                                                   *)
THEOREM LastStopVoidsLaterAnswersHolds == Spec => []LastStopVoidsLaterAnswers
<1>1. Init => Types /\ RunInv /\ CardInv /\ StopInv
  BY TypesInit, RunInit, CardInit, StopInit
<1>2. Types /\ RunInv /\ CardInv /\ StopInv /\ [Next]_vars
          => (Types /\ RunInv /\ CardInv /\ StopInv)'
  BY TypesStep, RunStep, CardStep, StopStep
<1>3. Types /\ StopInv => LastStopVoidsLaterAnswers
  <2> SUFFICES ASSUME Types, StopInv, NEW i \in InStep, Ran(i), pc \in {"loop", "run"},
                      NEW s \in stops, s > base, s < said[i].seq, \A t \in stops : t <= s
               PROVE  FALSE
    BY DEF LastStopVoidsLaterAnswers
  <2>1. s = stopSeq
    BY ConstantsAssumption DEF StopInv, StopsInOrder, Types, TypeOK
  <2>2. i \in Proposal /\ said[i].seq \in Nat /\ base \in Nat /\ stopSeq \in Nat
    BY InStepType, ConstantsAssumption DEF Types, TypeOK
  <2> QED  BY <2>1, <2>2 DEF StopInv, RanBeforeStop
<1> QED  BY <1>1, <1>2, <1>3, PTL DEF Spec
-----------------------------------------------------------------------------
(***************************************************************************)
(* Saved chats.  First what the model's operators on sequences return,     *)
(* then the store's invariant, handler by handler and call by call.        *)
(***************************************************************************)

Less == {p \in Nat \X Nat : p[1] < p[2]}

\* A set of naturals that isn't empty has a smallest.
LEMMA SmallestOf ==
    ASSUME NEW T \in SUBSET Nat, T # {}
    PROVE  \E x \in T : \A y \in T : x =< y
<1>1. IsWellFoundedOn(Less, Nat)
  BY NatLessThanWellFounded DEF OpToRel, Less
<1>2. PICK x \in T : \A y \in T : <<y, x>> \notin Less
  BY <1>1, WFMin
<1>3. ASSUME NEW y \in T PROVE x =< y
  <2>1. x \in Nat /\ y \in Nat
    OBVIOUS
  <2>2. ASSUME y < x PROVE FALSE
    <3>1. <<y, x>> \in Nat \X Nat /\ <<y, x>>[1] < <<y, x>>[2]
      BY <2>1, <2>2
    <3>2. <<y, x>> \in Less
      BY <3>1, Zenon DEF Less
    <3> QED
      BY <3>2, <1>2
  <2> QED
    BY <2>1, <2>2
<1> QED
  BY <1>3

\* A set of naturals that is bounded and isn't empty has a largest.
LEMMA LargestOf ==
    ASSUME NEW n \in Nat, NEW T \in SUBSET (1..n), T # {}
    PROVE  \E x \in T : \A y \in T : x >= y
<1> DEFINE D == {n - x : x \in T}
<1>1. D \in SUBSET Nat /\ D # {}
  <2>1. ASSUME NEW x \in T PROVE n - x \in Nat
    <3>1. x \in 1..n
      OBVIOUS
    <3> QED
      BY <3>1
  <2> QED
    BY <2>1
<1>2. PICK d \in D : \A e \in D : d =< e
  BY <1>1, SmallestOf
<1>3. PICK x \in T : d = n - x
  OBVIOUS
<1>4. ASSUME NEW y \in T PROVE x >= y
  <2>1. n - y \in D
    OBVIOUS
  <2>2. n - x =< n - y
    BY <2>1, <1>2, <1>3
  <2> QED
    BY <2>2
<1> QED
  BY <1>4

\* Putting a new one first keeps the others, each still once.
LEMMA PutFirst ==
    ASSUME NEW S, NEW s \in Seq(S), NEW i \in S, i \notin ToSet(s), IsInjective(s)
    PROVE  /\ <<i>> \o s \in Seq(S) /\ Len(<<i>> \o s) = Len(s) + 1
           /\ ToSet(<<i>> \o s) = ToSet(s) \cup {i}
           /\ IsInjective(<<i>> \o s)
<1> DEFINE t == <<i>> \o s
<1>1. /\ t \in Seq(S) /\ Len(t) = Len(s) + 1 /\ Len(s) \in Nat /\ DOMAIN s = 1..Len(s) /\ DOMAIN t = 1..Len(t)
      /\ t[1] = i /\ \A k \in 1..Len(s) : t[k + 1] = s[k]
  OBVIOUS
<1> HIDE DEF t
<1>2. ASSUME NEW k \in DOMAIN t PROVE k = 1 \/ (k - 1 \in DOMAIN s /\ t[k] = s[k - 1])
  BY <1>1
<1>3. ToSet(t) = ToSet(s) \cup {i}
  <2>1. ASSUME NEW x \in ToSet(t) PROVE x \in ToSet(s) \cup {i}
    BY <1>1, <1>2 DEF ToSet
  <2>2. ASSUME NEW x \in ToSet(s) PROVE x \in ToSet(t)
    <3>1. PICK k \in DOMAIN s : s[k] = x
      BY DEF ToSet
    <3>2. k + 1 \in DOMAIN t /\ t[k + 1] = x
      BY <1>1, <3>1
    <3> QED
      BY <3>2 DEF ToSet
  <2>3. i \in ToSet(t)
    BY <1>1 DEF ToSet
  <2> QED
    BY <2>1, <2>2, <2>3
<1>4. IsInjective(t)
  <2> SUFFICES ASSUME NEW a \in DOMAIN t, NEW b \in DOMAIN t, t[a] = t[b] PROVE a = b
    BY DEF IsInjective
  <2>1. \A k \in DOMAIN s : s[k] # i
    BY DEF ToSet
  <2> QED
    BY <1>1, <1>2, <2>1 DEF IsInjective
<1> QED
  BY <1>1, <1>3, <1>4 DEF t

\* The most recent conversations are the first of the list, each once.
LEMMA RecentOf ==
    ASSUME NEW S, NEW s \in Seq(S), IsInjective(s), Keep \in Nat \ {0}
    PROVE  /\ Recent(s) \in Seq(S) /\ Len(Recent(s)) < Keep
           /\ ToSet(Recent(s)) = ToSet(s) \ Stale(s)
           /\ IsInjective(Recent(s))
<1> DEFINE n == IF Len(s) < Keep THEN Len(s) ELSE Keep - 1
           t == Recent(s)
<1>1. /\ t \in Seq(S) /\ n \in Nat /\ n =< Len(s) /\ Len(t) = n /\ DOMAIN t = 1..n /\ DOMAIN s = 1..Len(s)
      /\ \A k \in 1..n : t[k] = s[k]
  BY DEF Recent
<1>2. ToSet(t) = {s[k] : k \in 1..n}
  BY <1>1 DEF ToSet
<1>3. ToSet(t) = ToSet(s) \ Stale(s)
  <2>1. ASSUME NEW k \in DOMAIN s PROVE k \in 1..n <=> s[k] \notin Stale(s)
    BY <1>1, <2>1 DEF Stale, IsInjective
  <2> QED
    BY <1>1, <1>2, <2>1 DEF ToSet
<1> QED
  BY <1>1, <1>3 DEF IsInjective

\* Removing at a place drops that one and moves those after it up.
LEMMA RemoveAtOf ==
    ASSUME NEW S, NEW s \in Seq(S), NEW p \in 1..Len(s)
    PROVE  LET t == RemoveAt(s, p) IN
           /\ t \in Seq(S) /\ Len(t) = Len(s) - 1
           /\ \A k \in 1..Len(t) : t[k] = IF k < p THEN s[k] ELSE s[k + 1]
<1> DEFINE a == SubSeq(s, 1, p - 1)
           b == SubSeq(s, p + 1, Len(s))
           n == Len(s)
<1>1. n \in Nat /\ p \in Nat /\ 1 =< p /\ p =< n
  OBVIOUS
<1>2. a \in Seq(S) /\ Len(a) = p - 1 /\ \A k \in 1..(p - 1) : a[k] = s[k]
  BY <1>1
<1>3. /\ b \in Seq(S) /\ Len(b) = IF p + 1 =< n THEN n - (p + 1) + 1 ELSE 0
      /\ \A k \in 1..(n - (p + 1) + 1) : b[k] = s[(p + 1) + k - 1]
  <2>1. \A k \in (p + 1)..n : s[k] \in S
    BY <1>1
  <2> QED
    BY <1>1, <2>1, SubSeqProperties
<1> HIDE DEF a, b, n
<1>4. Len(b) = n - p
  <2>1. Len(b) = IF p + 1 =< n THEN n - (p + 1) + 1 ELSE 0
    BY <1>3
  <2> QED
    BY <1>1, <2>1
<1>5. /\ a \o b \in Seq(S) /\ Len(a \o b) = Len(a) + Len(b)
      /\ \A k \in 1..(Len(a) + Len(b)) : (a \o b)[k] = IF k =< Len(a) THEN a[k] ELSE b[k - Len(a)]
  BY <1>2, <1>3, ConcatProperties
<1>6. Len(a) = p - 1 /\ Len(a) + Len(b) = n - 1
  <2>1. Len(a) = p - 1
    BY <1>2
  <2> QED
    BY <1>1, <1>4, <2>1
<1>7. ASSUME NEW k \in 1..(n - 1) PROVE (a \o b)[k] = IF k < p THEN s[k] ELSE s[k + 1]
  <2>1. k \in Nat /\ 1 =< k /\ k =< n - 1
    BY <1>1
  <2>2. (a \o b)[k] = IF k =< p - 1 THEN a[k] ELSE b[k - (p - 1)]
    BY <1>5, <1>6
  <2>3. CASE k < p
    <3>1. k =< p - 1 /\ k \in 1..(p - 1)
      BY <1>1, <2>1, <2>3
    <3>2. a[k] = s[k]
      BY <1>2, <3>1
    <3> QED
      BY <2>2, <2>3, <3>1, <3>2
  <2>4. CASE ~(k < p)
    <3>1. /\ ~(k =< p - 1) /\ k - (p - 1) \in 1..(n - (p + 1) + 1)
          /\ (p + 1) + (k - (p - 1)) - 1 = k + 1
      BY <1>1, <2>1, <2>4
    <3>2. b[k - (p - 1)] = s[k + 1]
      <4> DEFINE l == k - (p - 1)
      <4>1. l \in 1..(n - (p + 1) + 1) /\ (p + 1) + l - 1 = k + 1
        BY <3>1
      <4> HIDE DEF l
      <4>2. b[l] = s[(p + 1) + l - 1]
        BY <1>3, <4>1
      <4> QED
        BY <4>1, <4>2 DEF l
    <3> QED
      BY <2>2, <2>4, <3>1, <3>2
  <2> QED
    BY <2>3, <2>4
<1>8. RemoveAt(s, p) = a \o b
  BY DEF RemoveAt, a, b
<1> QED
  BY <1>5, <1>6, <1>7, <1>8 DEF n

\* A list without one of its conversations has all the others, each once.
LEMMA WithoutOf ==
    ASSUME NEW S, NEW s \in Seq(S), IsInjective(s), NEW i \in ToSet(s)
    PROVE  /\ Without(s, i) \in Seq(S) /\ Len(Without(s, i)) = Len(s) - 1
           /\ ToSet(Without(s, i)) = ToSet(s) \ {i}
           /\ IsInjective(Without(s, i))
<1> DEFINE p == CHOOSE k \in DOMAIN s : s[k] = i
           t == RemoveAt(s, p)
<1>1. p \in DOMAIN s /\ s[p] = i
  BY DEF ToSet
<1> HIDE DEF p
<1>2. /\ t \in Seq(S) /\ Len(t) = Len(s) - 1 /\ DOMAIN t = 1..Len(t) /\ DOMAIN s = 1..Len(s) /\ Len(s) \in Nat \ {0}
      /\ \A k \in 1..Len(t) : t[k] = IF k < p THEN s[k] ELSE s[k + 1]
  <2>1. p \in 1..Len(s) /\ Len(s) \in Nat \ {0} /\ DOMAIN s = 1..Len(s)
    BY <1>1
  <2>2. /\ t \in Seq(S) /\ Len(t) = Len(s) - 1
        /\ \A k \in 1..Len(t) : t[k] = IF k < p THEN s[k] ELSE s[k + 1]
    BY <2>1, RemoveAtOf
  <2> HIDE DEF t
  <2> QED
    BY <2>1, <2>2
<1> HIDE DEF t
<1>3. ASSUME NEW x \in ToSet(t) PROVE x \in ToSet(s) /\ x # i
  <2>1. PICK k \in DOMAIN t : t[k] = x
    BY DEF ToSet
  <2>2. \E l \in DOMAIN s : l # p /\ s[l] = x
    <3>1. /\ k \in 1..Len(t) /\ k \in Nat /\ p \in Nat /\ Len(t) = Len(s) - 1 /\ Len(s) \in Nat
          /\ DOMAIN s = 1..Len(s) /\ x = IF k < p THEN s[k] ELSE s[k + 1]
      BY <1>1, <1>2, <2>1
    <3>2. CASE k < p
      <4>1. k \in DOMAIN s /\ k # p /\ s[k] = x
        BY <3>1, <3>2
      <4> QED
        BY <4>1
    <3>3. CASE ~(k < p)
      <4>1. k + 1 \in DOMAIN s /\ k + 1 # p /\ s[k + 1] = x
        BY <3>1, <3>3
      <4> QED
        BY <4>1
    <3> QED
      BY <3>2, <3>3
  <2> QED
    BY <1>1, <2>2 DEF ToSet, IsInjective
<1>4. ASSUME NEW x \in ToSet(s), x # i PROVE x \in ToSet(t)
  <2>1. PICK l \in DOMAIN s : s[l] = x /\ l # p
    BY <1>1, <1>4 DEF ToSet
  <2>2. \E k \in DOMAIN t : t[k] = x
    <3>1. CASE l < p
      BY <1>1, <1>2, <2>1, <3>1
    <3>2. CASE l > p
      <4>1. l - 1 \in DOMAIN t /\ t[l - 1] = x
        BY <1>1, <1>2, <2>1, <3>2
      <4> QED
        BY <4>1
    <3> QED
      BY <1>1, <1>2, <2>1, <3>1, <3>2
  <2> QED
    BY <2>2 DEF ToSet
<1>5. IsInjective(t)
  <2> SUFFICES ASSUME NEW a \in DOMAIN t, NEW b \in DOMAIN t, t[a] = t[b] PROVE a = b
    BY DEF IsInjective
  <2> DEFINE was(k) == IF k < p THEN k ELSE k + 1
  <2>1. /\ was(a) \in DOMAIN s /\ was(b) \in DOMAIN s
        /\ t[a] = s[was(a)] /\ t[b] = s[was(b)]
    BY <1>1, <1>2
  <2>2. was(a) = was(b)
    BY <2>1 DEF IsInjective
  <2> QED
    BY <1>1, <1>2, <2>2
<1>6. Without(s, i) = t
  BY DEF Without, t, p
<1> QED
  BY <1>2, <1>3, <1>4, <1>5, <1>6

\* The first ones of a sequence are its own, in their places.
LEMMA FirstOnesOf ==
    ASSUME NEW S, NEW s \in Seq(S), NEW n \in 0..Len(s)
    PROVE  /\ SubSeq(s, 1, n) \in Seq(S) /\ Len(SubSeq(s, 1, n)) = n
           /\ \A k \in 1..n : SubSeq(s, 1, n)[k] = s[k]
  OBVIOUS

\* retry keeps what comes up to the last question.
LEMMA UpToQuestionOf ==
    ASSUME NEW S, NEW ms \in Seq(S)
    PROVE  LET n == LastQuestion(ms) IN
           /\ n \in 0..Len(ms)
           /\ UpToQuestion(ms) \in Seq(S) /\ Len(UpToQuestion(ms)) = n
           /\ \A k \in 1..n : UpToQuestion(ms)[k] = ms[k]
           /\ n # 0 => ms[n].role = "user"
           /\ \A k \in DOMAIN ms : ms[k].role = "user" => k =< n
<1> DEFINE Q == {k \in 1..Len(ms) : ms[k].role = "user"}
           n == LastQuestion(ms)
<1>1. Len(ms) \in Nat /\ DOMAIN ms = 1..Len(ms) /\ Q \in SUBSET (1..Len(ms))
  OBVIOUS
<1>2. n = IF Q # {} THEN Max(Q) ELSE 0
  BY DEF LastQuestion, SelectLastInSeq
<1>3. ASSUME Q # {} PROVE Max(Q) \in Q /\ \A y \in Q : Max(Q) >= y
  <2>1. \E x \in Q : \A y \in Q : x >= y
    BY <1>1, <1>3, LargestOf
  <2> HIDE DEF Q
  <2> QED
    BY <2>1 DEF Max
<1>4. /\ n \in Nat /\ n =< Len(ms)
      /\ n # 0 => n \in Q
      /\ \A y \in Q : y =< n
  <2> HIDE DEF Q, n
  <2>1. CASE Q = {}
    BY <1>1, <1>2, <2>1
  <2>2. CASE Q # {}
    <3>1. n \in Q /\ \A y \in Q : n >= y
      BY <1>2, <1>3, <2>2
    <3> QED
      BY <1>1, <3>1
  <2> QED
    BY <2>1, <2>2
<1>5. n \in 0..Len(ms)
  <2> HIDE DEF Q, n
  <2> QED
    BY <1>1, <1>4
<1>6. /\ UpToQuestion(ms) \in Seq(S) /\ Len(UpToQuestion(ms)) = n
      /\ \A k \in 1..n : UpToQuestion(ms)[k] = ms[k]
  <2> HIDE DEF n
  <2> QED
    BY <1>5, FirstOnesOf DEF UpToQuestion, n
<1>7. n # 0 => ms[n].role = "user"
  <2> HIDE DEF n
  <2> QED
    BY <1>4
<1>8. \A k \in DOMAIN ms : ms[k].role = "user" => k =< n
  <2> HIDE DEF n
  <2> QED
    BY <1>1, <1>4
<1> HIDE DEF n
<1> QED
  BY <1>5, <1>6, <1>7, <1>8 DEF n
-----------------------------------------------------------------------------
(* The store is whole. *)

Roles == {"user", "assistant"}
Titles == {"none", "first words", "Explanation", "asked for"}
MessageSet ==
    {m \in [role : Roles, of : Nat, hidden : BOOLEAN, text : BOOLEAN, ran : BOOLEAN] :
        m.ran => m.role = "assistant"}
CallSet == [call : {"start"}, title : Titles] \cup [call : {"append"}, m : MessageSet]
           \cup [call : {"record", "drop"}]
ChatSet == [at : {"closed", "idle", "asked", "leaving"}, id : Nat, context : BOOLEAN,
            pending : Seq(MessageSet), off : BOOLEAN, shown : Seq(MessageSet)]

\* The shape of the state.
SavedShape ==
    /\ kept \in Seq(Ids) /\ messages \in [Ids -> Seq(MessageSet)] /\ title \in [Ids -> Titles]
    /\ chat \in [Writers -> ChatSet] /\ todo \in [Writers -> Seq(CallSet)]
    /\ ids \in Nat /\ ids =< MaxConversations /\ asked \in Nat /\ failures \in Nat

\* Where y is still to be called for a chat x, with so many turns taken:
\* whatever is to be saved is of one of them; a start comes first, and only
\* of what has no conversation yet; one message at most is hidden, the first
\* question, and then the title isn't taken from what was said.
HiddenIn(y) == {k \in DOMAIN y : y[k].call = "append" /\ y[k].m.hidden}
OfTheTurns(x, y, turnsTaken) ==
    /\ \A k \in DOMAIN y : y[k].call = "append" => y[k].m.of \in 1..turnsTaken
    /\ \A k \in DOMAIN x.pending : x.pending[k].of \in 1..turnsTaken
    /\ x.at = "asked" => turnsTaken > 0
StartsFirst(x, y) ==
    /\ \A k \in DOMAIN y : k # 1 => y[k].call # "start"
    /\ y # <<>> => (y[1].call = "start" <=> x.id = None)
OneToHide(x, y) ==
    /\ \A k \in DOMAIN x.pending : x.pending[k].role = "user" /\ (x.pending[k].hidden => k = 1)
    /\ \A k, l \in HiddenIn(y) : k = l
    /\ \A k \in HiddenIn(y) :
          y[k].m.role = "user" /\ (y[1].call = "start" => y[1].title # "first words")
RightCalls(x, y, turnsTaken) == OfTheTurns(x, y, turnsTaken) /\ StartsFirst(x, y) /\ OneToHide(x, y)
CallsAreRight == \A w \in Writers : RightCalls(chat[w], todo[w], asked)

ClosedIsQuiet == \A c \in Chats : chat[c].at = "closed" => todo[c] = <<>> /\ chat[c].id = None

\* The list of conversations, and what they hold.
KeptOnce ==
    /\ ToSet(kept) \subseteq 1..ids /\ Len(kept) =< Keep /\ IsInjective(kept)
    /\ \A w \in Writers : chat[w].id \in 0..ids
AllDated == \A i \in Ids : \A k \in DOMAIN messages[i] : messages[i][k].of \in 1..asked

\* While one is still to be hidden, its conversation hides none, and nobody
\* else is to hide one in it.
Hides(w) == HiddenIn(todo[w]) # {} /\ chat[w].id # None
NoneHiddenYet ==
    \A w \in Writers : Hides(w) =>
        /\ HiddenOf(chat[w].id) = {} /\ title[chat[w].id] # "first words"
        /\ \A v \in Writers : (Hides(v) /\ chat[v].id = chat[w].id) => v = w

StoreInv ==
    /\ SavedShape /\ CallsAreRight /\ ClosedIsQuiet
    /\ KeptOnce /\ AllDated /\ NothingLeftBehind
    /\ NoneHiddenYet /\ OneIsHidden

\* The store keeps no more than it did.
Shrinks ==
    /\ ids' = ids /\ kept' \in Seq(Ids) /\ messages' \in [Ids -> Seq(MessageSet)] /\ title' \in [Ids -> Titles]
    /\ ToSet(kept') \subseteq ToSet(kept) /\ Len(kept') =< Len(kept) /\ IsInjective(kept')
    /\ \A i \in Ids : title'[i] \in {title[i], "asked for"}
    /\ \A i \in Ids : \A k \in DOMAIN messages'[i] :
          k \in DOMAIN messages[i] /\ messages'[i][k] = messages[i][k]
    /\ \A i \in Ids : i \in ToSet(kept') \/ messages'[i] = <<>>

\* A step that leaves the store alone has it keep no more.
LEMMA SameShrinks ==
    ASSUME StoreInv, UNCHANGED <<kept, messages, title, ids>>
    PROVE  Shrinks
  BY DEF StoreInv, SavedShape, KeptOnce, NothingLeftBehind, IsKept, Shrinks

\* A handler that has the store keep no more than it did keeps the invariant
\* when its own chat and calls are right, and it has no more to hide.
LEMMA OneMoves ==
    ASSUME StoreInv, NEW w \in Writers, Shrinks,
           asked' \in Nat, asked' >= asked, failures' \in Nat,
           chat' \in [Writers -> ChatSet], todo' \in [Writers -> Seq(CallSet)],
           \A v \in Writers \ {w} : chat'[v] = chat[v] /\ todo'[v] = todo[v],
           RightCalls(chat[w], todo[w], asked)', chat'[w].id \in 0..ids,
           (w \in Chats /\ chat'[w].at = "closed") => todo'[w] = <<>> /\ chat'[w].id = None,
           Hides(w)' => Hides(w) /\ chat'[w].id = chat[w].id
    PROVE  StoreInv'
<1> USE DEF StoreInv
<1>1. SavedShape'
  BY DEF SavedShape, Shrinks
<1>2. CallsAreRight'
  <2> SUFFICES ASSUME NEW v \in Writers PROVE RightCalls(chat[v], todo[v], asked)'
    BY DEF CallsAreRight
  <2>1. CASE v = w
    BY <2>1
  <2>2. CASE v # w
    <3>1. RightCalls(chat[v], todo[v], asked) /\ chat'[v] = chat[v] /\ todo'[v] = todo[v]
      BY <2>2 DEF CallsAreRight
    <3>2. \A n \in 1..asked : n \in 1..asked'
      BY DEF SavedShape
    <3>3. OfTheTurns(chat[v], todo[v], asked)'
      <4>1. OfTheTurns(chat[v], todo[v], asked)
        BY <3>1 DEF RightCalls
      <4>2. asked > 0 => asked' > 0
        BY DEF SavedShape
      <4>3. OfTheTurns(chat[v], todo[v], asked')
        BY <3>2, <4>1, <4>2 DEF OfTheTurns
      <4> QED
        BY <3>1, <4>3
    <3> QED
      BY <3>1, <3>3 DEF RightCalls
  <2> QED
    BY <2>1, <2>2
<1>3. ClosedIsQuiet'
  BY DEF ClosedIsQuiet, Writers
<1>4. KeptOnce'
  <2>1. Len(kept) \in Nat /\ Len(kept') \in Nat /\ Keep \in Nat /\ Len(kept) =< Keep /\ Len(kept') =< Len(kept)
    <3>1. kept \in Seq(Ids) /\ kept' \in Seq(Ids) /\ Len(kept) =< Keep /\ Len(kept') =< Len(kept)
      BY DEF KeptOnce, SavedShape, Shrinks
    <3> QED
      BY <3>1, SavedConstants
  <2>2. Len(kept') =< Keep
    BY <2>1
  <2>3. ToSet(kept') \subseteq 1..ids' /\ IsInjective(kept')
    BY DEF KeptOnce, Shrinks
  <2>4. \A v \in Writers : chat'[v].id \in 0..ids'
    BY DEF KeptOnce, Shrinks
  <2> QED
    BY <2>2, <2>3, <2>4 DEF KeptOnce
<1>5. AllDated'
  <2>1. \A n \in 1..asked : n \in 1..asked'
    BY DEF SavedShape
  <2> QED
    BY <2>1 DEF AllDated, Shrinks
<1>6. NothingLeftBehind'
  BY DEF NothingLeftBehind, IsKept, Shrinks
<1>7. ASSUME NEW i \in Ids
      PROVE  /\ \A k \in HiddenOf(i)' : k \in HiddenOf(i) /\ messages'[i][k] = messages[i][k]
             /\ title'[i] \in {title[i], "asked for"}
  BY DEF HiddenOf, Shrinks
<1>8. OneIsHidden'
  <2> SUFFICES ASSUME NEW i \in Ids
               PROVE  /\ \A k, l \in HiddenOf(i)' : k = l
                      /\ \A k \in HiddenOf(i)' : messages'[i][k].role = "user" /\ title'[i] # "first words"
    BY DEF OneIsHidden
  <2>1. /\ \A k, l \in HiddenOf(i) : k = l
        /\ \A k \in HiddenOf(i) : messages[i][k].role = "user" /\ title[i] # "first words"
    BY DEF OneIsHidden
  <2>2. \A k \in HiddenOf(i)' : k \in HiddenOf(i) /\ messages'[i][k] = messages[i][k]
    BY <1>7
  <2>3. \A k, l \in HiddenOf(i)' : k = l
    BY <2>1, <2>2
  <2>4. title[i] # "first words" => title'[i] # "first words"
    BY <1>7
  <2>5. \A k \in HiddenOf(i)' : messages'[i][k].role = "user" /\ title'[i] # "first words"
    BY <2>1, <2>2, <2>4
  <2> QED
    BY <2>3, <2>5
<1>9. NoneHiddenYet'
  <2>1. \A v \in Writers : Hides(v)' => Hides(v) /\ chat'[v].id = chat[v].id
    BY DEF Hides
  <2>2. ASSUME NEW v \in Writers, Hides(v)'
        PROVE  /\ (HiddenOf(chat[v].id) = {})' /\ (title[chat[v].id] # "first words")'
               /\ \A u \in Writers : (Hides(u)' /\ chat'[u].id = chat'[v].id) => u = v
    <3>1. Hides(v) /\ chat'[v].id = chat[v].id /\ chat[v].id \in Ids
      <4>1. Hides(v) /\ chat'[v].id = chat[v].id /\ chat[v].id \in 0..ids /\ chat[v].id # 0
        BY <2>1, <2>2 DEF KeptOnce, Hides, None
      <4>2. ids \in Nat /\ ids =< MaxConversations /\ MaxConversations \in Nat
        BY SavedConstants DEF SavedShape
      <4>3. \A n \in 0..ids : n # 0 => n \in 1..MaxConversations
        BY <4>2
      <4> QED
        BY <4>1, <4>3 DEF Ids
    <3>2. /\ HiddenOf(chat[v].id) = {} /\ title[chat[v].id] # "first words"
          /\ \A u \in Writers : (Hides(u) /\ chat[u].id = chat[v].id) => u = v
      BY <3>1 DEF NoneHiddenYet
    <3>3. PICK i \in Ids : i = chat[v].id
      BY <3>1
    <3>4. HiddenOf(i)' = {} /\ title'[i] # "first words"
      BY <1>7, <3>2, <3>3
    <3>5. (HiddenOf(chat[v].id) = {})' /\ (title[chat[v].id] # "first words")'
      BY <3>1, <3>3, <3>4
    <3> QED
      BY <2>1, <3>1, <3>2, <3>5
  <2> QED
    BY <2>2 DEF NoneHiddenYet
<1> QED
  BY <1>1, <1>2, <1>3, <1>4, <1>5, <1>6, <1>8, <1>9
\* The same, with what the chat and its calls become.
LEMMA OneMovesTo ==
    ASSUME StoreInv, Shrinks, NEW w \in Writers, NEW x \in ChatSet, NEW y \in Seq(CallSet),
           chat' = [chat EXCEPT ![w] = x], todo' = [todo EXCEPT ![w] = y],
           asked' \in Nat, asked' >= asked, failures' \in Nat,
           RightCalls(x, y, asked'), x.id \in 0..ids,
           (w \in Chats /\ x.at = "closed") => y = <<>> /\ x.id = None,
           (HiddenIn(y) # {} /\ x.id # None) => Hides(w) /\ x.id = chat[w].id
    PROVE  StoreInv'
<1>1. chat \in [Writers -> ChatSet] /\ todo \in [Writers -> Seq(CallSet)]
  BY DEF StoreInv, SavedShape
<1>2. /\ chat' \in [Writers -> ChatSet] /\ todo' \in [Writers -> Seq(CallSet)]
      /\ chat'[w] = x /\ todo'[w] = y
      /\ \A v \in Writers \ {w} : chat'[v] = chat[v] /\ todo'[v] = todo[v]
  BY <1>1
<1>3. RightCalls(chat[w], todo[w], asked)'
  BY <1>2
<1>4. Hides(w)' => Hides(w) /\ chat'[w].id = chat[w].id
  BY <1>2 DEF Hides
<1>5. (w \in Chats /\ chat'[w].at = "closed") => todo'[w] = <<>> /\ chat'[w].id = None
  BY <1>2
<1>6. chat'[w].id \in 0..ids
  BY <1>2
<1> QED
  BY <1>2, <1>3, <1>4, <1>5, <1>6, OneMoves
-----------------------------------------------------------------------------
(* Each handler's own steps. *)

\* The calls of the store are calls, each with what it carries.
LEMMA CallsOfTheStore ==
    /\ \A t \in Titles : Start(t) \in CallSet /\ Start(t).call = "start" /\ Start(t).title = t
    /\ \A m \in MessageSet : AppendOf(m) \in CallSet /\ AppendOf(m).call = "append" /\ AppendOf(m).m = m
    /\ Record \in CallSet /\ Record.call = "record"
    /\ Drop \in CallSet /\ Drop.call = "drop"
  BY DEF Start, AppendOf, Record, Drop, CallSet

\* Two calls, one after the other.
LEMMA PairOf ==
    ASSUME NEW S, NEW a \in S, NEW b \in S, NEW y, y = <<a, b>>
    PROVE  y \in Seq(S) /\ DOMAIN y = 1..2 /\ y[1] = a /\ y[2] = b /\ y # <<>>
<1>1. y \in Seq(S) /\ Len(y) = 2 /\ y[1] = a /\ y[2] = b
  OBVIOUS
<1> QED
  BY <1>1

\* A question, hidden or not, is a message of its turn.
LEMMA QuestionIsAMessage ==
    ASSUME NEW of \in Nat, NEW hidden \in BOOLEAN
    PROVE  LET m == [Question(of) EXCEPT !.hidden = hidden] IN
           /\ Question(of) \in MessageSet /\ Question(of).of = of /\ ~Question(of).hidden
           /\ Question(of).role = "user"
           /\ m \in MessageSet /\ m.of = of /\ m.role = "user" /\ m.hidden = hidden
  BY DEF Question, Message, MessageSet, Roles

\* With nothing to call, and nothing pending.
LEMMA QuietIsRight ==
    ASSUME NEW x, x.pending = <<>>, x.at # "asked", NEW n
    PROVE  RightCalls(x, <<>>, n) /\ HiddenIn(<<>>) = {}
  BY DEF RightCalls, OfTheTurns, StartsFirst, OneToHide, HiddenIn

\* A closed chat is a chat.
LEMMA ClosedIsAChat ==
    Closed \in ChatSet /\ Closed.pending = <<>> /\ Closed.at = "closed" /\ Closed.id = None /\ ~Closed.off
  BY DEF Closed, ChatSet, None

\* Opening a chat keeps the store whole.
LEMMA OpensKeepsStore ==
    ASSUME StoreInv, NEW c \in Chats, Opens(c)
    PROVE  StoreInv'
<1> USE DEF StoreInv
<1>1. c \in Writers /\ todo[c] = <<>> /\ UNCHANGED <<storeVars, todo, asked>>
  BY DEF Opens, Writers, ClosedIsQuiet
<1>2. PICK x \in ChatSet : /\ chat' = [chat EXCEPT ![c] = x]
                           /\ x.pending = <<>> /\ x.at = "idle" /\ x.id \in 0..ids
  <2>1. CASE \E context \in BOOLEAN : chat' = [chat EXCEPT ![c] = [Closed EXCEPT !.at = "idle", !.context = context]]
    <3>1. PICK context \in BOOLEAN :
             chat' = [chat EXCEPT ![c] = [Closed EXCEPT !.at = "idle", !.context = context]]
      BY <2>1
    <3> DEFINE x == [Closed EXCEPT !.at = "idle", !.context = context]
    <3>2. x \in ChatSet /\ x.pending = <<>> /\ x.at = "idle" /\ x.id = 0
      BY ClosedIsAChat DEF ChatSet, None
    <3>3. chat' = [chat EXCEPT ![c] = x]
      BY <3>1
    <3>4. x.id \in 0..ids
      BY <3>2 DEF SavedShape
    <3> HIDE DEF x
    <3> QED
      BY <3>2, <3>3, <3>4
  <2>2. CASE \E i \in Listed : chat' = [chat EXCEPT ![c] = [Closed EXCEPT !.at = "idle", !.id = i, !.shown = Get(i)]]
    <3>1. PICK i \in Listed :
             chat' = [chat EXCEPT ![c] = [Closed EXCEPT !.at = "idle", !.id = i, !.shown = Get(i)]]
      BY <2>2
    <3> DEFINE x == [Closed EXCEPT !.at = "idle", !.id = i, !.shown = Get(i)]
    <3>2. i \in 1..ids /\ i \in Ids
      BY SavedConstants DEF Listed, KeptOnce, SavedShape, Ids
    <3>3. Get(i) \in Seq(MessageSet)
      BY <3>2 DEF Get, SavedShape
    <3>4. x \in ChatSet /\ x.pending = <<>> /\ x.at = "idle" /\ x.id = i
      <4>1. i \in Nat
        BY <3>2 DEF SavedShape
      <4> QED
        BY <3>3, <4>1, ClosedIsAChat DEF ChatSet
    <3>5. chat' = [chat EXCEPT ![c] = x]
      BY <3>1
    <3>6. x.id \in 0..ids
      BY <3>2, <3>4 DEF SavedShape
    <3> HIDE DEF x
    <3> QED
      BY <3>4, <3>5, <3>6
  <2>3. \/ \E context \in BOOLEAN : chat' = [chat EXCEPT ![c] = [Closed EXCEPT !.at = "idle", !.context = context]]
        \/ \E i \in Listed : chat' = [chat EXCEPT ![c] = [Closed EXCEPT !.at = "idle", !.id = i, !.shown = Get(i)]]
    BY Zenon DEF Opens
  <2> QED
    BY <2>1, <2>2, <2>3
<1>3. chat' \in [Writers -> ChatSet] /\ chat'[c] = x /\ \A v \in Writers \ {c} : chat'[v] = chat[v]
  BY <1>1, <1>2 DEF SavedShape
<1>4. RightCalls(chat[c], todo[c], asked)' /\ ~Hides(c)'
  BY <1>1, <1>2, <1>3, QuietIsRight DEF Hides
<1>5. Shrinks
  BY <1>1, SameShrinks DEF storeVars
<1>6. asked' \in Nat /\ asked' >= asked /\ failures' \in Nat
  BY <1>1 DEF SavedShape, storeVars
<1>7. todo' \in [Writers -> Seq(CallSet)] /\ \A v \in Writers \ {c} : todo'[v] = todo[v]
  BY <1>1 DEF SavedShape
<1>8. chat'[c].at = "idle" /\ chat'[c].id \in 0..ids
  BY <1>2, <1>3
<1> QED
  BY <1>1, <1>3, <1>4, <1>5, <1>6, <1>7, <1>8, OneMoves

\* Leaving a chat keeps the store whole.
LEMMA LeavesKeepsStore ==
    ASSUME StoreInv, NEW c \in Chats, Leaves(c)
    PROVE  StoreInv'
<1> USE DEF StoreInv
<1>1. /\ c \in Writers /\ todo[c] = <<>> /\ UNCHANGED <<storeVars, todo, asked>>
      /\ chat' = [chat EXCEPT ![c] = Closed]
  BY DEF Leaves, Writers
<1>2. chat' \in [Writers -> ChatSet] /\ chat'[c] = Closed /\ \A v \in Writers \ {c} : chat'[v] = chat[v]
  BY <1>1, ClosedIsAChat DEF SavedShape
<1>3. RightCalls(chat[c], todo[c], asked)' /\ ~Hides(c)'
  BY <1>1, <1>2, QuietIsRight, ClosedIsAChat DEF Hides
<1>4. chat'[c].id \in 0..ids
  BY <1>2, ClosedIsAChat DEF SavedShape, None
<1>5. todo'[c] = <<>> /\ chat'[c].id = None
  BY <1>1, <1>2, ClosedIsAChat
<1>6. Shrinks
  BY <1>1, SameShrinks DEF storeVars
<1>7. asked' \in Nat /\ asked' >= asked /\ failures' \in Nat
  BY <1>1 DEF SavedShape, storeVars
<1>8. todo' \in [Writers -> Seq(CallSet)] /\ \A v \in Writers \ {c} : todo'[v] = todo[v]
  BY <1>1 DEF SavedShape
<1> QED
  BY <1>1, <1>2, <1>3, <1>4, <1>5, <1>6, <1>7, <1>8, OneMoves

\* Asking keeps the store whole.
LEMMA AsksKeepsStore ==
    ASSUME StoreInv, NEW c \in Chats, Asks(c)
    PROVE  StoreInv'
<1> USE DEF StoreInv
<1> DEFINE m == Question(asked + 1)
           h == [m EXCEPT !.hidden = IsContext(c)]
           f == [m EXCEPT !.hidden = chat[c].context]
           waits == Active(c) /\ chat[c].id = None /\ WaitsForReply(c)
           x == [chat[c] EXCEPT !.at = "asked", !.shown = Append(@, m),
                                !.pending = IF waits THEN Append(@, h) ELSE @]
           y == Said(c, m)
<1>1. c \in Writers /\ chat[c] \in ChatSet /\ asked \in Nat /\ todo[c] = <<>>
  BY DEF Asks, AtRest, Writers, SavedShape
<1>2. /\ asked' = asked + 1 /\ todo' = [todo EXCEPT ![c] = y] /\ UNCHANGED <<storeVars, shared>>
      /\ chat' = [chat EXCEPT ![c] = x]
  BY <1>1 DEF Asks, SavedShape
<1>3. /\ m \in MessageSet /\ m.of = asked + 1 /\ ~m.hidden
      /\ h \in MessageSet /\ h.of = asked + 1 /\ h.role = "user"
      /\ h.hidden => chat[c].pending = <<>>
      /\ f \in MessageSet /\ f.of = asked + 1 /\ f.role = "user" /\ f.hidden = chat[c].context
  <2>1. asked + 1 \in Nat /\ chat[c].context \in BOOLEAN
    BY <1>1 DEF ChatSet
  <2>2. PICK b \in BOOLEAN : b = IsContext(c)
    BY DEF IsContext
  <2>3. h = [m EXCEPT !.hidden = b]
    BY <2>2
  <2>4. /\ m \in MessageSet /\ m.of = asked + 1 /\ ~m.hidden
        /\ h \in MessageSet /\ h.of = asked + 1 /\ h.role = "user" /\ h.hidden = b
    <3>1. PICK n \in Nat : n = asked + 1
      BY <2>1
    <3>2. m = Question(n) /\ h = [Question(n) EXCEPT !.hidden = b]
      BY <2>3, <3>1
    <3> HIDE DEF m, h
    <3> QED
      BY <2>2, <3>1, <3>2, QuestionIsAMessage
  <2>5. f \in MessageSet /\ f.of = asked + 1 /\ f.role = "user" /\ f.hidden = chat[c].context
    BY <2>1, QuestionIsAMessage
  <2>6. h.hidden => chat[c].pending = <<>>
    BY <2>2, <2>4 DEF IsContext
  <2> QED
    BY <2>4, <2>5, <2>6
<1> HIDE DEF m, h, f
<1>4. /\ x \in ChatSet /\ x.at = "asked" /\ x.id = chat[c].id /\ x.context = chat[c].context
      /\ x.pending = IF waits THEN Append(chat[c].pending, h) ELSE chat[c].pending
  <2> DEFINE p == IF waits THEN Append(chat[c].pending, h) ELSE chat[c].pending
  <2>1. p \in Seq(MessageSet) /\ Append(chat[c].shown, m) \in Seq(MessageSet)
    BY <1>1, <1>3 DEF ChatSet
  <2>2. x = [chat[c] EXCEPT !.at = "asked", !.shown = Append(chat[c].shown, m), !.pending = p]
    BY <1>1 DEF ChatSet
  <2> HIDE DEF x, p
  <2>3. /\ x \in ChatSet /\ x.at = "asked" /\ x.id = chat[c].id /\ x.context = chat[c].context
        /\ x.pending = p
    BY <1>1, <2>1, <2>2 DEF ChatSet
  <2> QED
    BY <2>3 DEF p
<1>5. RightCalls(chat[c], todo[c], asked)
  BY <1>1 DEF CallsAreRight
<1>6. /\ \A k \in DOMAIN x.pending : x.pending[k].of \in 1..(asked + 1)
      /\ \A k \in DOMAIN x.pending : x.pending[k].role = "user" /\ (x.pending[k].hidden => k = 1)
  <2>1. chat[c].pending \in Seq(MessageSet)
    BY <1>1 DEF ChatSet
  <2>2. ASSUME NEW k \in DOMAIN x.pending
        PROVE  \/ k \in DOMAIN chat[c].pending /\ x.pending[k] = chat[c].pending[k]
               \/ x.pending[k] = h /\ k = Len(chat[c].pending) + 1
    <3> HIDE DEF waits
    <3> QED
      BY <1>3, <1>4, <2>1, <2>2
  <2>3. h.hidden => Len(chat[c].pending) + 1 = 1
    BY <1>3, <2>1
  <2> HIDE DEF x
  <2> QED
    <3>1. \A k \in DOMAIN chat[c].pending :
             /\ chat[c].pending[k].of \in 1..asked
             /\ chat[c].pending[k].role = "user" /\ (chat[c].pending[k].hidden => k = 1)
      BY <1>5 DEF RightCalls, OfTheTurns, OneToHide
    <3>2. asked + 1 \in 1..(asked + 1) /\ \A n \in 1..asked : n \in 1..(asked + 1)
      BY <1>1
    <3> QED
      BY <1>3, <2>2, <2>3, <3>1, <3>2
<1>7. y = <<>> \/ (y = <<AppendOf(m)>> /\ chat[c].id # None)
      \/ (y = <<Start("first words"), AppendOf(f)>> /\ chat[c].id = None /\ ~f.hidden)
  BY <1>3 DEF Said, WaitsForReply, f
<1> HIDE DEF x, y
<1>8. /\ y \in Seq(CallSet) /\ HiddenIn(y) = {} /\ StartsFirst(x, y)
      /\ \A k \in DOMAIN y : y[k].call = "append" => y[k].m.of \in 1..(asked + 1)
  <2>1. CASE y = <<>>
    BY <2>1 DEF HiddenIn, StartsFirst
  <2>2. CASE y = <<AppendOf(m)>> /\ chat[c].id # None
    <3>1. AppendOf(m) \in CallSet /\ AppendOf(m).call = "append" /\ AppendOf(m).m = m
      BY <1>3, CallsOfTheStore
    <3> QED
      BY <1>1, <1>3, <1>4, <2>2, <3>1 DEF HiddenIn, StartsFirst
  <2>3. CASE y = <<Start("first words"), AppendOf(f)>> /\ chat[c].id = None /\ ~f.hidden
    <3>1. AppendOf(f) \in CallSet /\ AppendOf(f).call = "append" /\ AppendOf(f).m = f
      BY <1>3, CallsOfTheStore
    <3>2. Start("first words") \in CallSet /\ Start("first words").call = "start"
      BY CallsOfTheStore DEF Titles
    <3> DEFINE a == Start("first words")
               b == AppendOf(f)
    <3>3. /\ a \in CallSet /\ b \in CallSet /\ y = <<a, b>>
          /\ a.call = "start" /\ b.call = "append" /\ b.m = f
      BY <2>3, <3>1, <3>2
    <3> HIDE DEF a, b
    <3>4. y \in Seq(CallSet) /\ DOMAIN y = 1..2 /\ y[1] = a /\ y[2] = b /\ y # <<>>
      BY <3>3, PairOf
    <3>5. \A k \in DOMAIN y : k = 1 \/ (k # 1 /\ y[k] = b)
      BY <3>4
    <3>6. HiddenIn(y) = {}
      BY <2>3, <3>3, <3>4, <3>5 DEF HiddenIn
    <3>7. StartsFirst(x, y)
      BY <1>4, <2>3, <3>3, <3>4, <3>5 DEF StartsFirst
    <3>8. ASSUME NEW k \in DOMAIN y, y[k].call = "append" PROVE y[k].m.of \in 1..(asked + 1)
      <4>1. y[k] = b
        BY <3>3, <3>4, <3>5, <3>8
      <4> QED
        BY <1>1, <1>3, <3>3, <4>1
    <3> QED
      BY <3>4, <3>6, <3>7, <3>8
  <2> QED
    BY <1>7, <2>1, <2>2, <2>3
<1>9. RightCalls(x, y, asked + 1)
  BY <1>1, <1>6, <1>8 DEF RightCalls, OfTheTurns, OneToHide
<1>10. /\ chat' \in [Writers -> ChatSet] /\ chat'[c] = x /\ \A v \in Writers \ {c} : chat'[v] = chat[v]
       /\ todo' \in [Writers -> Seq(CallSet)] /\ todo'[c] = y /\ \A v \in Writers \ {c} : todo'[v] = todo[v]
  BY <1>1, <1>2, <1>4, <1>8 DEF SavedShape
<1>11. RightCalls(chat[c], todo[c], asked)' /\ ~Hides(c)'
  BY <1>2, <1>8, <1>9, <1>10 DEF Hides
<1>12. asked' \in Nat /\ asked' >= asked /\ chat'[c].id \in 0..ids /\ chat'[c].at # "closed"
  BY <1>1, <1>2, <1>4, <1>10 DEF KeptOnce
<1>13. Shrinks /\ failures' \in Nat
  BY <1>2, SameShrinks DEF storeVars, SavedShape
<1> QED
  BY <1>1, <1>10, <1>11, <1>12, <1>13, OneMoves

\* What is in a sequence of one.
LEMMA OneOf ==
    ASSUME NEW S, NEW a \in S, NEW y, y = <<a>>
    PROVE  y \in Seq(S) /\ DOMAIN y = {1} /\ y[1] = a /\ y # <<>>
<1>1. y \in Seq(S) /\ Len(y) = 1 /\ y[1] = a
  OBVIOUS
<1> QED
  BY <1>1

\* A retry keeps the store whole.
LEMMA RetriesKeepsStore ==
    ASSUME StoreInv, NEW c \in Chats, Retries(c)
    PROVE  StoreInv'
<1> USE DEF StoreInv
<1> DEFINE x == [chat[c] EXCEPT !.at = "asked", !.shown = UpToQuestion(@)]
           y == IF Active(c) /\ chat[c].id # None THEN <<Drop>> ELSE <<>>
<1>1. c \in Writers /\ chat[c] \in ChatSet /\ asked \in Nat /\ todo[c] = <<>>
  BY DEF Retries, AtRest, Writers, SavedShape
<1>2. /\ asked' = asked + 1 /\ todo' = [todo EXCEPT ![c] = y] /\ UNCHANGED <<storeVars, shared>>
      /\ chat' = [chat EXCEPT ![c] = x]
  BY <1>1 DEF Retries, SavedShape
<1>3. x \in ChatSet /\ x.at = "asked" /\ x.id = chat[c].id /\ x.pending = chat[c].pending
  <2>1. UpToQuestion(chat[c].shown) \in Seq(MessageSet)
    BY <1>1, UpToQuestionOf DEF ChatSet
  <2>2. x = [chat[c] EXCEPT !.at = "asked", !.shown = UpToQuestion(chat[c].shown)]
    BY <1>1 DEF ChatSet
  <2> HIDE DEF x
  <2> QED
    BY <1>1, <2>1, <2>2 DEF ChatSet
<1> HIDE DEF x
<1>4. /\ y \in Seq(CallSet) /\ HiddenIn(y) = {} /\ StartsFirst(x, y)
      /\ \A k \in DOMAIN y : y[k].call # "append"
  <2>1. CASE y = <<>>
    BY <2>1 DEF HiddenIn, StartsFirst
  <2>2. CASE y = <<Drop>> /\ chat[c].id # None
    <3>1. Drop \in CallSet /\ Drop.call = "drop"
      BY CallsOfTheStore
    <3> HIDE DEF y
    <3>2. y \in Seq(CallSet) /\ DOMAIN y = {1} /\ y[1] = Drop /\ y # <<>>
      BY <2>2, <3>1, OneOf
    <3> QED
      BY <1>3, <2>2, <3>1, <3>2 DEF HiddenIn, StartsFirst
  <2> QED
    BY <2>1, <2>2
<1> HIDE DEF y
<1>5. RightCalls(x, y, asked')
  <2>1. RightCalls(chat[c], todo[c], asked)
    BY <1>1 DEF CallsAreRight
  <2>2. asked' > 0 /\ \A n \in 1..asked : n \in 1..asked'
    BY <1>1, <1>2
  <2>3. OfTheTurns(x, y, asked')
    BY <1>3, <1>4, <2>1, <2>2 DEF RightCalls, OfTheTurns
  <2>4. OneToHide(x, y)
    BY <1>3, <1>4, <2>1 DEF RightCalls, OneToHide
  <2> QED
    BY <1>4, <2>3, <2>4 DEF RightCalls
<1>6. asked' \in Nat /\ asked' >= asked /\ failures' \in Nat /\ x.id \in 0..ids
  BY <1>1, <1>2, <1>3 DEF KeptOnce, SavedShape, storeVars
<1>7. Shrinks
  BY <1>2, SameShrinks DEF storeVars
<1> QED
  BY <1>1, <1>2, <1>3, <1>4, <1>5, <1>6, <1>7, OneMovesTo

\* One more call.
LEMMA OneMore ==
    ASSUME NEW S, NEW s \in Seq(S), NEW b \in S, NEW y, y = s \o <<b>>
    PROVE  /\ y \in Seq(S) /\ Len(y) = Len(s) + 1 /\ y[Len(s) + 1] = b
           /\ \A k \in 1..Len(s) : y[k] = s[k]
<1> DEFINE n == Len(s)
           t == <<b>>
<1>1. n \in Nat /\ t \in Seq(S) /\ Len(t) = 1 /\ t[1] = b
  OBVIOUS
<1> HIDE DEF n, t
<1>2. /\ s \o t \in Seq(S) /\ Len(s \o t) = Len(s) + Len(t)
      /\ \A k \in 1..(Len(s) + Len(t)) : (s \o t)[k] = IF k =< Len(s) THEN s[k] ELSE t[k - Len(s)]
  BY <1>1, ConcatProperties
<1>3. y = s \o t /\ Len(s) = n
  BY DEF n, t
<1>4. /\ y \in Seq(S) /\ Len(y) = n + 1
      /\ \A k \in 1..(n + 1) : y[k] = IF k =< n THEN s[k] ELSE t[k - n]
  BY <1>1, <1>2, <1>3
<1>5. y[n + 1] = b
  <2>1. n + 1 \in 1..(n + 1) /\ ~(n + 1 =< n) /\ n + 1 - n = 1
    BY <1>1
  <2> QED
    BY <1>1, <1>4, <2>1
<1>6. \A k \in 1..n : y[k] = s[k]
  <2>1. \A k \in 1..n : k \in 1..(n + 1) /\ k =< n
    BY <1>1
  <2> QED
    BY <1>4, <2>1
<1> QED
  BY <1>3, <1>4, <1>5, <1>6

\* One call put before others: which is where.
LEMMA OneBefore ==
    ASSUME NEW S, NEW s \in Seq(S), NEW a \in S, NEW y, y = <<a>> \o s
    PROVE  /\ y \in Seq(S) /\ Len(y) = Len(s) + 1 /\ y[1] = a
           /\ \A k \in 1..Len(s) : y[k + 1] = s[k]
<1> DEFINE n == Len(s)
           t == <<a>>
<1>1. n \in Nat /\ t \in Seq(S) /\ Len(t) = 1 /\ t[1] = a
  OBVIOUS
<1> HIDE DEF n, t
<1>2. /\ t \o s \in Seq(S) /\ Len(t \o s) = Len(t) + Len(s)
      /\ \A k \in 1..(Len(t) + Len(s)) : (t \o s)[k] = IF k =< Len(t) THEN t[k] ELSE s[k - Len(t)]
  BY <1>1, ConcatProperties
<1>3. y = t \o s /\ Len(s) = n
  BY DEF n, t
<1>4. /\ y \in Seq(S) /\ Len(y) = n + 1
      /\ \A k \in 1..(n + 1) : y[k] = IF k =< 1 THEN t[k] ELSE s[k - 1]
  <2>1. Len(t) + Len(s) = n + 1
    BY <1>1, <1>3
  <2> QED
    BY <1>1, <1>2, <1>3, <2>1
<1>5. y[1] = a
  BY <1>1, <1>4
<1>6. ASSUME NEW k \in 1..n PROVE y[k + 1] = s[k]
  <2>1. k + 1 \in 1..(n + 1) /\ ~(k + 1 =< 1) /\ k + 1 - 1 = k
    BY <1>1
  <2> QED
    BY <1>4, <2>1
<1> QED
  BY <1>3, <1>4, <1>5, <1>6

\* What a turn's end calls when its chat was not saved yet.
LEMMA ThreeAround ==
    ASSUME NEW S, NEW f \in Seq(S), NEW a \in S, NEW b \in S, NEW r \in S,
           NEW y, y = <<a>> \o f \o <<b>> \o <<r>>
    PROVE  /\ y \in Seq(S) /\ Len(y) = Len(f) + 3
           /\ y[1] = a /\ y[Len(f) + 2] = b /\ y[Len(f) + 3] = r
           /\ \A k \in 1..Len(f) : y[k + 1] = f[k]
<1> DEFINE af == <<a>> \o f
           afb == af \o <<b>>
           n == Len(f)
<1>1. n \in Nat
  OBVIOUS
<1>2. af \in Seq(S) /\ Len(af) = n + 1 /\ af[1] = a /\ \A k \in 1..n : af[k + 1] = f[k]
  BY OneBefore
<1> HIDE DEF af
<1>3. afb \in Seq(S) /\ Len(afb) = Len(af) + 1 /\ afb[Len(af) + 1] = b /\ \A k \in 1..Len(af) : afb[k] = af[k]
  <2>1. af \in Seq(S)
    BY <1>2
  <2> QED
    BY <2>1, OneMore
<1>4. y = afb \o <<r>>
  BY DEF af, afb
<1> HIDE DEF afb
<1>5. y \in Seq(S) /\ Len(y) = Len(afb) + 1 /\ y[Len(afb) + 1] = r /\ \A k \in 1..Len(afb) : y[k] = afb[k]
  <2> DEFINE z == afb \o <<r>>
  <2>1. afb \in Seq(S)
    BY <1>3
  <2>2. z \in Seq(S) /\ Len(z) = Len(afb) + 1 /\ z[Len(afb) + 1] = r /\ \A k \in 1..Len(afb) : z[k] = afb[k]
    BY <2>1, OneMore
  <2> QED
    BY <1>4, <2>2
<1> HIDE DEF n
<1>6. Len(af) = n + 1 /\ Len(afb) = n + 2 /\ Len(y) = n + 3 /\ y[n + 3] = r
  BY <1>1, <1>2, <1>3, <1>5
<1>7. /\ \A k \in 1..(n + 1) : afb[k] = af[k]
      /\ \A k \in 1..(n + 2) : y[k] = afb[k]
      /\ afb[n + 2] = b
  BY <1>1, <1>3, <1>5, <1>6
<1>8. y[1] = a /\ y[n + 2] = b
  <2>1. 1 \in 1..(n + 1) /\ 1 \in 1..(n + 2) /\ n + 2 \in 1..(n + 2)
    BY <1>1
  <2> QED
    BY <1>2, <1>7, <2>1
<1>9. ASSUME NEW k \in 1..n PROVE y[k + 1] = f[k]
  <2>1. k + 1 \in 1..(n + 1) /\ k + 1 \in 1..(n + 2)
    BY <1>1
  <2> QED
    BY <1>2, <1>7, <2>1
<1> QED
  BY <1>5, <1>6, <1>8, <1>9 DEF n

\* Two calls, one after the other.
LEMMA OneAndOne ==
    ASSUME NEW S, NEW b \in S, NEW r \in S, NEW y, y = <<b>> \o <<r>>
    PROVE  y \in Seq(S) /\ DOMAIN y = 1..2 /\ y # <<>> /\ y[1] = b /\ y[2] = r
<1> DEFINE s == <<b>>
           z == s \o <<r>>
<1>1. s \in Seq(S) /\ Len(s) = 1 /\ s[1] = b
  OBVIOUS
<1> HIDE DEF s
<1>2. z \in Seq(S) /\ Len(z) = Len(s) + 1 /\ z[Len(s) + 1] = r /\ \A k \in 1..Len(s) : z[k] = s[k]
  <2>1. s \in Seq(S)
    BY <1>1
  <2> QED
    BY <2>1, OneMore
<1>3. y = z
  BY DEF s
<1> HIDE DEF z
<1>4. z \in Seq(S) /\ Len(z) = 2 /\ z[1] = b /\ z[2] = r
  BY <1>1, <1>2
<1> QED
  BY <1>3, <1>4

\* What a finished turn has the store called with.
LEMMA EndedOf ==
    ASSUME NEW c, NEW p \in Seq(MessageSet), p = chat[c].pending, NEW reply \in MessageSet, NEW answered \in BOOLEAN,
           NEW y, y = Ended(c, reply, answered)
    PROVE  \/ y = <<>> /\ (~Active(c) \/ (chat[c].id = None /\ (p = <<>> \/ ~answered)))
           \/ Active(c) /\ chat[c].id # None /\ ~answered /\ y = <<Record>>
           \/ /\ Active(c) /\ chat[c].id # None /\ answered
              /\ y \in Seq(CallSet) /\ DOMAIN y = 1..2 /\ y # <<>> /\ y[1] = AppendOf(reply) /\ y[2] = Record
           \/ /\ Active(c) /\ chat[c].id = None /\ answered /\ p # <<>>
              /\ y \in Seq(CallSet) /\ Len(y) = Len(p) + 3
              /\ y[1] = Start("Explanation") /\ y[Len(p) + 2] = AppendOf(reply) /\ y[Len(p) + 3] = Record
              /\ \A k \in 1..Len(p) : y[k + 1] = AppendOf(p[k])
<1> DEFINE f == [k \in DOMAIN p |-> AppendOf(p[k])]
           a == Start("Explanation")
           b == AppendOf(reply)
           r == Record
<1>1. a \in CallSet /\ b \in CallSet /\ r \in CallSet
  BY CallsOfTheStore DEF Titles
<1>2. f \in Seq(CallSet) /\ Len(f) = Len(p) /\ \A k \in 1..Len(p) : f[k] = AppendOf(p[k])
  <2>1. \A k \in DOMAIN p : AppendOf(p[k]) \in CallSet
    BY CallsOfTheStore
  <2> QED
    BY <2>1
<1>3. <<>> \o <<r>> = <<r>>
  BY <1>1
<1>4. ASSUME y = <<b>> \o <<r>>
      PROVE  y \in Seq(CallSet) /\ DOMAIN y = 1..2 /\ y # <<>> /\ y[1] = b /\ y[2] = r
  <2> HIDE DEF b, r
  <2> QED
    BY <1>1, <1>4, OneAndOne
<1>5. CASE ~Active(c) \/ (chat[c].id = None /\ (p = <<>> \/ ~answered))
  <2>1. y = <<>>
    BY <1>5 DEF Ended
  <2> QED
    BY <1>5, <2>1
<1>6. CASE Active(c) /\ chat[c].id # None
  <2>1. y = (IF answered THEN <<b>> ELSE <<>>) \o <<r>>
    BY <1>6 DEF Ended
  <2> QED
    BY <1>3, <1>4, <1>6, <2>1
<1>7. CASE Active(c) /\ chat[c].id = None /\ answered /\ p # <<>>
  <2>1. y = <<a>> \o f \o <<b>> \o <<r>>
    BY <1>7 DEF Ended
  <2> HIDE DEF a, b, r, f
  <2>2. /\ y \in Seq(CallSet) /\ Len(y) = Len(f) + 3
        /\ y[1] = a /\ y[Len(f) + 2] = b /\ y[Len(f) + 3] = r
        /\ \A k \in 1..Len(f) : y[k + 1] = f[k]
    <3>1. f \in Seq(CallSet)
      BY <1>2
    <3>2. a \in CallSet /\ b \in CallSet /\ r \in CallSet
      BY <1>1
    <3> DEFINE z == <<a>> \o f \o <<b>> \o <<r>>
    <3>3. z \in Seq(CallSet)
      BY <3>1, <3>2, ThreeAround
    <3>4. Len(z) = Len(f) + 3
      BY <3>1, <3>2, ThreeAround
    <3>5. z[1] = a
      BY <3>1, <3>2, ThreeAround
    <3>6. z[Len(f) + 2] = b
      BY <3>1, <3>2, ThreeAround
    <3>7. z[Len(f) + 3] = r
      BY <3>1, <3>2, ThreeAround
    <3>8. \A k \in 1..Len(f) : z[k + 1] = f[k]
      BY <3>1, <3>2, ThreeAround
    <3> HIDE DEF z
    <3>9. y = z
      BY <2>1 DEF z
    <3> QED
      BY <3>3, <3>4, <3>5, <3>6, <3>7, <3>8, <3>9
  <2>3. /\ y \in Seq(CallSet) /\ Len(y) = Len(p) + 3
        /\ y[1] = a /\ y[Len(p) + 2] = b /\ y[Len(p) + 3] = r
        /\ \A k \in 1..Len(p) : y[k + 1] = AppendOf(p[k])
    BY <1>2, <2>2
  <2> QED
    BY <1>7, <2>3 DEF a, b, r
<1> QED
  BY <1>5, <1>6, <1>7

EndsAs(c, end, text, ran) ==
    LET reply == Message("assistant", asked, FALSE, text, ran)
        answered == Answered(end, text, ran)
    IN  /\ chat[c].at = "asked" /\ todo[c] = <<>>
        /\ todo' = [todo EXCEPT ![c] = Ended(c, reply, answered)]
        /\ chat' = [chat EXCEPT ![c].at = IF end = "left" THEN "leaving" ELSE "idle",
                                ![c].shown = IF Remembered(end, text, ran) THEN Append(@, reply) ELSE @]
        /\ did' = IF ran /\ chat[c].id # None THEN [did EXCEPT ![chat[c].id] = @ \cup {asked}] ELSE did
        /\ UNCHANGED <<storeVars, asked, shared>>

\* The end of a turn keeps the store whole.
LEMMA TurnEndsKeepsStore ==
    ASSUME StoreInv, NEW c \in Chats, TurnEnds(c)
    PROVE  StoreInv'
<1> USE DEF StoreInv
<1>1. c \in Writers /\ chat[c] \in ChatSet /\ asked \in Nat /\ todo[c] = <<>> /\ chat[c].at = "asked"
  BY DEF TurnEnds, Writers, SavedShape
<1>2. PICK end \in {"done", "stopped", "failed", "left"}, text \in BOOLEAN, ran \in BOOLEAN :
        EndsAs(c, end, text, ran)
  BY DEF TurnEnds, EndsAs
<1> DEFINE reply == Message("assistant", asked, FALSE, text, ran)
           answered == Answered(end, text, ran)
           p == chat[c].pending
           y == Ended(c, reply, answered)
           at == IF end = "left" THEN "leaving" ELSE "idle"
           shown == IF Remembered(end, text, ran) THEN Append(chat[c].shown, reply) ELSE chat[c].shown
           x == [chat[c] EXCEPT !.at = at, !.shown = shown]
<1>3. /\ reply \in MessageSet /\ reply.of = asked /\ ~reply.hidden
      /\ answered \in BOOLEAN
  BY <1>1, <1>2 DEF Message, MessageSet, Roles, Answered
<1>4. p \in Seq(MessageSet) /\ chat[c].shown \in Seq(MessageSet) /\ chat[c].id \in 0..ids
  BY <1>1 DEF ChatSet, KeptOnce
<1>5. /\ todo' = [todo EXCEPT ![c] = y] /\ UNCHANGED <<storeVars, asked, shared>>
      /\ chat' = [chat EXCEPT ![c] = x]
  BY <1>1, <1>2 DEF SavedShape, EndsAs
<1>6. x \in ChatSet /\ x.at # "closed" /\ x.at # "asked" /\ x.id = chat[c].id /\ x.pending = p
  <2>1. shown \in Seq(MessageSet)
    <3> HIDE DEF reply
    <3> QED
      BY <1>3, <1>4
  <2>2. at \in {"idle", "leaving"}
    OBVIOUS
  <2> HIDE DEF shown, at
  <2> QED
    BY <1>1, <2>1, <2>2 DEF ChatSet
<1>7. /\ \/ y = <<>>
         \/ chat[c].id # None /\ y = <<Record>>
         \/ /\ chat[c].id # None /\ y \in Seq(CallSet) /\ DOMAIN y = 1..2 /\ y # <<>>
            /\ y[1] = AppendOf(reply) /\ y[2] = Record
         \/ /\ chat[c].id = None /\ y \in Seq(CallSet) /\ Len(y) = Len(p) + 3
            /\ y[1] = Start("Explanation") /\ y[Len(p) + 2] = AppendOf(reply) /\ y[Len(p) + 3] = Record
            /\ \A k \in 1..Len(p) : y[k + 1] = AppendOf(p[k])
  <2> HIDE DEF reply, answered, y
  <2>1. y = Ended(c, reply, answered)
    BY DEF y
  <2>2. p = chat[c].pending
    OBVIOUS
  <2> HIDE DEF p
  <2>3. \/ y = <<>> /\ (~Active(c) \/ (chat[c].id = None /\ (p = <<>> \/ ~answered)))
        \/ Active(c) /\ chat[c].id # None /\ ~answered /\ y = <<Record>>
        \/ /\ Active(c) /\ chat[c].id # None /\ answered
           /\ y \in Seq(CallSet) /\ DOMAIN y = 1..2 /\ y # <<>> /\ y[1] = AppendOf(reply) /\ y[2] = Record
        \/ /\ Active(c) /\ chat[c].id = None /\ answered /\ p # <<>>
           /\ y \in Seq(CallSet) /\ Len(y) = Len(p) + 3
           /\ y[1] = Start("Explanation") /\ y[Len(p) + 2] = AppendOf(reply) /\ y[Len(p) + 3] = Record
           /\ \A k \in 1..Len(p) : y[k + 1] = AppendOf(p[k])
    BY <1>3, <1>4, <2>1, <2>2, EndedOf
  <2> QED
    BY <2>3, Zenon
<1> HIDE DEF reply, answered, y, x
<1>8. /\ AppendOf(reply) \in CallSet /\ AppendOf(reply).call = "append" /\ AppendOf(reply).m = reply
      /\ Record \in CallSet /\ Record.call = "record"
      /\ Start("Explanation").call = "start" /\ Start("Explanation").title = "Explanation"
  BY <1>3, CallsOfTheStore DEF Titles
<1>9. RightCalls(chat[c], todo[c], asked)
  BY <1>1 DEF CallsAreRight
<1>10. asked \in 1..asked /\ reply.of \in 1..asked
  BY <1>1, <1>3, <1>9 DEF RightCalls, OfTheTurns
<1>11. /\ y \in Seq(CallSet) /\ StartsFirst(x, y) /\ (HiddenIn(y) # {} => x.id = None)
       /\ \A k \in DOMAIN y : y[k].call = "append" =>
             /\ y[k].m = reply \/ (k - 1 \in DOMAIN p /\ y[k].m = p[k - 1])
             /\ y[k].m.hidden => y[1].title = "Explanation"
  <2>1. CASE y = <<>>
    BY <2>1 DEF HiddenIn, StartsFirst
  <2>2. CASE chat[c].id # None /\ y = <<Record>>
    <3>1. y \in Seq(CallSet) /\ DOMAIN y = {1} /\ y[1] = Record /\ y # <<>>
      BY <1>8, <2>2, OneOf
    <3> QED
      BY <1>6, <1>8, <2>2, <3>1 DEF HiddenIn, StartsFirst
  <2>3. CASE /\ chat[c].id # None /\ y \in Seq(CallSet) /\ DOMAIN y = 1..2 /\ y # <<>>
             /\ y[1] = AppendOf(reply) /\ y[2] = Record
    <3> DEFINE a == AppendOf(reply)
               b == Record
    <3>1. a.call = "append" /\ a.m = reply /\ b.call = "record"
      BY <1>8
    <3>2. y \in Seq(CallSet) /\ DOMAIN y = 1..2 /\ y[1] = a /\ y[2] = b /\ y # <<>>
      BY <2>3
    <3> HIDE DEF a, b
    <3>3. \A k \in DOMAIN y : y[k] \in {a, b}
      BY <3>2
    <3>4. StartsFirst(x, y)
      BY <1>6, <2>3, <3>1, <3>2, <3>3 DEF StartsFirst
    <3>5. HiddenIn(y) = {}
      BY <1>3, <3>1, <3>3 DEF HiddenIn
    <3> QED
      BY <1>3, <3>1, <3>2, <3>3, <3>4, <3>5
  <2>4. CASE /\ chat[c].id = None /\ y \in Seq(CallSet) /\ Len(y) = Len(p) + 3
             /\ y[1] = Start("Explanation") /\ y[Len(p) + 2] = AppendOf(reply) /\ y[Len(p) + 3] = Record
             /\ \A k \in 1..Len(p) : y[k + 1] = AppendOf(p[k])
    <3> DEFINE n == Len(p)
    <3>1. n \in Nat /\ DOMAIN p = 1..n /\ DOMAIN y = 1..(n + 3) /\ Len(y) = n + 3
      BY <1>4, <2>4
    <3>2. /\ y[n + 2] = AppendOf(reply) /\ y[n + 3] = Record
          /\ \A k \in 1..n : y[k + 1] = AppendOf(p[k])
      BY <2>4
    <3>3. \A k \in 1..n : AppendOf(p[k]).call = "append" /\ AppendOf(p[k]).m = p[k]
      BY <1>4, CallsOfTheStore
    <3> HIDE DEF n
    <3>4. ASSUME NEW k \in DOMAIN y
          PROVE  \/ k = 1
                 \/ k = n + 2 \/ k = n + 3
                 \/ k - 1 \in 1..n /\ y[k] = AppendOf(p[k - 1])
      <4>1. CASE k = 1 \/ k = n + 2 \/ k = n + 3
        BY <4>1
      <4>2. CASE k # 1 /\ k # n + 2 /\ k # n + 3
        <5>1. k - 1 \in 1..n /\ (k - 1) + 1 = k
          BY <3>1, <4>2
        <5> QED
          BY <3>2, <5>1
      <4> QED
        BY <4>1, <4>2
    <3>5. ASSUME NEW k \in DOMAIN y, y[k].call = "append"
          PROVE  y[k].m = reply \/ (k - 1 \in DOMAIN p /\ y[k].m = p[k - 1])
      BY <1>8, <2>4, <3>1, <3>2, <3>3, <3>4, <3>5
    <3>6. ASSUME NEW k \in DOMAIN y, k # 1 PROVE y[k].call # "start"
      BY <1>8, <3>2, <3>3, <3>4, <3>6
    <3>7. y # <<>> /\ y[1].call = "start" /\ y[1].title = "Explanation" /\ x.id = None
      BY <1>6, <1>8, <2>4, <3>1
    <3> QED
      BY <2>4, <3>5, <3>6, <3>7 DEF StartsFirst
  <2> QED
    BY <1>7, <2>1, <2>2, <2>3, <2>4
<1>12. RightCalls(x, y, asked)
  <2>1. OfTheTurns(x, y, asked)
    BY <1>6, <1>9, <1>10, <1>11 DEF RightCalls, OfTheTurns
  <2>2. \A k \in DOMAIN p : p[k].role = "user" /\ (p[k].hidden => k = 1)
    BY <1>9 DEF RightCalls, OneToHide
  <2>3. ASSUME NEW k \in HiddenIn(y)
        PROVE  k = 2 /\ y[k].m.role = "user" /\ y[1].title = "Explanation"
    <3>1. k \in DOMAIN y /\ y[k].call = "append" /\ y[k].m.hidden
      BY DEF HiddenIn
    <3>2. k - 1 \in DOMAIN p /\ y[k].m = p[k - 1]
      BY <1>3, <1>11, <3>1
    <3>3. k \in Nat
      BY <1>11, <3>1
    <3> QED
      BY <1>11, <2>2, <3>1, <3>2, <3>3
  <2>4. OneToHide(x, y)
    BY <1>6, <2>2, <2>3 DEF OneToHide
  <2> QED
    BY <1>11, <2>1, <2>4 DEF RightCalls
<1>13. asked' \in Nat /\ asked' >= asked /\ failures' \in Nat /\ asked' = asked
  BY <1>1, <1>5 DEF SavedShape, storeVars
<1>14. Shrinks
  BY <1>5, SameShrinks DEF storeVars
<1> QED
  BY <1>1, <1>4, <1>5, <1>6, <1>11, <1>12, <1>13, <1>14, OneMovesTo

\* What is in a sequence of four.
LEMMA FourOf ==
    ASSUME NEW S, NEW a \in S, NEW b \in S, NEW d \in S, NEW r \in S, NEW y, y = <<a, b, d, r>>
    PROVE  /\ y \in Seq(S) /\ DOMAIN y = 1..4 /\ y # <<>>
           /\ y[1] = a /\ y[2] = b /\ y[3] = d /\ y[4] = r
<1>1. y \in Seq(S) /\ Len(y) = 4 /\ y[1] = a /\ y[2] = b /\ y[3] = d /\ y[4] = r
  OBVIOUS
<1> QED
  BY <1>1

\* A check-in keeps the store whole.
LEMMA ChecksInKeepsStore ==
    ASSUME StoreInv, ChecksIn
    PROVE  StoreInv'
<1> USE DEF StoreInv
<1> DEFINE of == asked + 1
           q == [Question(of) EXCEPT !.hidden = TRUE]
           m == Message("assistant", of, FALSE, TRUE, FALSE)
           a == Start("asked for")
           b == AppendOf(q)
           d == AppendOf(m)
           y == <<a, b, d, Record>>
<1>1. /\ Briefing \in Writers /\ Briefing \notin Chats /\ asked \in Nat /\ of \in Nat
      /\ asked' = of /\ UNCHANGED <<storeVars, shared>>
      /\ todo' = [todo EXCEPT ![Briefing] = y] /\ chat' = [chat EXCEPT ![Briefing] = Closed]
  <2>1. Briefing \in Writers /\ Briefing \notin Chats /\ asked \in Nat /\ of \in Nat
    BY SavedConstants DEF Writers, SavedShape
  <2>2. asked' = of /\ UNCHANGED <<storeVars, shared>>
    BY DEF ChecksIn
  <2>3. todo' = [todo EXCEPT ![Briefing] = y] /\ chat' = [chat EXCEPT ![Briefing] = Closed]
    BY Zenon DEF ChecksIn
  <2> QED
    BY <2>1, <2>2, <2>3
<1>2. /\ q \in MessageSet /\ q.of = of /\ q.role = "user" /\ q.hidden
      /\ m \in MessageSet /\ m.of = of /\ ~m.hidden
  BY <1>1, QuestionIsAMessage DEF Message, MessageSet, Roles
<1> HIDE DEF q, m
<1>3. /\ a \in CallSet /\ a.call = "start" /\ a.title = "asked for"
      /\ b \in CallSet /\ b.call = "append" /\ b.m = q
      /\ d \in CallSet /\ d.call = "append" /\ d.m = m
      /\ Record \in CallSet /\ Record.call = "record"
  BY <1>2, CallsOfTheStore DEF Titles
<1> HIDE DEF a, b, d
<1>4. /\ y \in Seq(CallSet) /\ DOMAIN y = 1..4 /\ y # <<>>
      /\ y[1] = a /\ y[2] = b /\ y[3] = d /\ y[4] = Record
  <2>1. a \in CallSet /\ b \in CallSet /\ d \in CallSet /\ Record \in CallSet /\ y = <<a, b, d, Record>>
    BY <1>3
  <2> HIDE DEF y
  <2> QED
    BY <2>1, FourOf
<1> HIDE DEF y
<1>5. \A k \in DOMAIN y : k = 1 \/ k = 2 \/ k = 3 \/ k = 4
  BY <1>4
<1>6. StartsFirst(Closed, y)
  BY <1>3, <1>4, <1>5, ClosedIsAChat DEF StartsFirst
<1>7. OfTheTurns(Closed, y, of)
  <2>1. of \in 1..of
    BY <1>1
  <2>2. \A k \in DOMAIN y : y[k].call = "append" => y[k].m.of \in 1..of
    BY <1>2, <1>3, <1>4, <1>5, <2>1
  <2> QED
    BY <2>2, ClosedIsAChat DEF OfTheTurns
<1>8. OneToHide(Closed, y)
  <2>1. ASSUME NEW k \in HiddenIn(y)
        PROVE  k = 2 /\ y[k].m.role = "user" /\ y[1].title # "first words"
    <3>1. k \in DOMAIN y /\ y[k].call = "append" /\ y[k].m.hidden
      BY DEF HiddenIn
    <3>2. k = 2
      BY <1>2, <1>3, <1>4, <1>5, <3>1
    <3> QED
      BY <1>2, <1>3, <1>4, <3>2
  <2>2. \A k \in DOMAIN Closed.pending : FALSE
    BY ClosedIsAChat
  <2> QED
    BY <2>1, <2>2 DEF OneToHide
<1>9. RightCalls(Closed, y, asked')
  BY <1>1, <1>6, <1>7, <1>8 DEF RightCalls
<1>10. asked' \in Nat /\ asked' >= asked /\ failures' \in Nat
  BY <1>1 DEF SavedShape, storeVars
<1>11. Shrinks
  BY <1>1, SameShrinks DEF storeVars
<1>12. Closed \in ChatSet /\ Closed.id = None /\ Closed.id \in 0..ids
  BY ClosedIsAChat DEF None, SavedShape
<1> QED
  BY <1>1, <1>4, <1>9, <1>10, <1>11, <1>12, OneMovesTo
-----------------------------------------------------------------------------
(* The store's calls. *)

\* The tail of a sequence: all but the first, each a place up.
LEMMA TailOf ==
    ASSUME NEW S, NEW y \in Seq(S), y # <<>>
    PROVE  /\ Tail(y) \in Seq(S) /\ Head(y) = y[1] /\ 1 \in DOMAIN y
           /\ \A k \in DOMAIN Tail(y) : k + 1 \in DOMAIN y /\ k + 1 # 1 /\ Tail(y)[k] = y[k + 1]
           /\ Tail(y) # <<>> => 1 \in DOMAIN Tail(y)
<1>1. Len(y) \in Nat /\ Len(y) # 0 /\ DOMAIN y = 1..Len(y) /\ Head(y) = y[1]
  OBVIOUS
<1>2. Tail(y) \in Seq(S) /\ Len(Tail(y)) = Len(y) - 1 /\ DOMAIN Tail(y) = 1..(Len(y) - 1)
  BY <1>1
<1>3. \A k \in 1..(Len(y) - 1) : Tail(y)[k] = y[k + 1]
  BY <1>1
<1>4. Tail(y) # <<>> => Len(y) - 1 # 0
  BY <1>2
<1> QED
  BY <1>1, <1>2, <1>3, <1>4

\* What is left to call stays right once the first call is made, of a chat
\* that has its conversation then.
LEMMA TailIsRight ==
    ASSUME NEW x, NEW n, NEW y \in Seq(CallSet), y # <<>>, RightCalls(x, y, n),
           NEW z, z.at = x.at, z.pending = x.pending \/ z.pending = <<>>, z.id # None
    PROVE  /\ Tail(y) \in Seq(CallSet) /\ RightCalls(z, Tail(y), n)
           /\ \A k \in HiddenIn(Tail(y)) : k + 1 \in HiddenIn(y) /\ k + 1 # 1
<1> DEFINE t == Tail(y)
<1>1. /\ t \in Seq(CallSet)
      /\ t # <<>> => 1 \in DOMAIN t
      /\ \A k \in DOMAIN t : k \in Nat /\ k + 1 \in DOMAIN y /\ k + 1 # 1 /\ t[k] = y[k + 1]
  <2>1. /\ t \in Seq(CallSet) /\ (t # <<>> => 1 \in DOMAIN t)
        /\ \A k \in DOMAIN t : k + 1 \in DOMAIN y /\ k + 1 # 1 /\ t[k] = y[k + 1]
    BY TailOf
  <2> HIDE DEF t
  <2>2. \A k \in DOMAIN t : k \in Nat
    BY <2>1
  <2> QED
    BY <2>1, <2>2
<1> HIDE DEF t
<1>2. \A k \in HiddenIn(t) : k + 1 \in HiddenIn(y) /\ k + 1 # 1 /\ t[k] = y[k + 1] /\ k \in Nat
  BY <1>1 DEF HiddenIn
<1>3. OfTheTurns(z, t, n)
  BY <1>1 DEF RightCalls, OfTheTurns
<1>4. StartsFirst(z, t)
  <2>1. \A k \in DOMAIN t : t[k].call # "start"
    BY <1>1 DEF RightCalls, StartsFirst
  <2> QED
    BY <1>1, <2>1 DEF StartsFirst
<1>5. OneToHide(z, t)
  <2>1. \A k \in DOMAIN z.pending : z.pending[k].role = "user" /\ (z.pending[k].hidden => k = 1)
    <3>1. CASE z.pending = x.pending
      BY <3>1 DEF RightCalls, OneToHide
    <3>2. CASE z.pending = <<>>
      BY <3>2
    <3> QED
      BY <3>1, <3>2
  <2>2. ASSUME NEW k \in HiddenIn(t), NEW l \in HiddenIn(t) PROVE k = l
    <3>1. k + 1 = l + 1
      BY <1>2 DEF RightCalls, OneToHide
    <3> QED
      BY <1>2, <3>1
  <2>3. ASSUME NEW k \in HiddenIn(t) PROVE t[k].m.role = "user" /\ t[1].call # "start"
    <3>1. 1 \in DOMAIN t
      <4>1. k \in DOMAIN t
        BY DEF HiddenIn
      <4>2. t # <<>>
        <5>1. DOMAIN <<>> = {}
          OBVIOUS
        <5> QED
          BY <4>1, <5>1, Zenon
      <4> QED
        BY <1>1, <4>2
    <3>2. t[1].call # "start"
      BY <1>1, <3>1 DEF RightCalls, StartsFirst
    <3> QED
      BY <1>2, <3>2 DEF RightCalls, OneToHide
  <2> QED
    BY <2>1, <2>2, <2>3 DEF OneToHide
<1> QED
  BY <1>1, <1>2, <1>3, <1>4, <1>5 DEF RightCalls, t

\* With nothing to call the calls are right.
LEMMA NothingLeftIsRight ==
    ASSUME NEW x, NEW n, NEW y, RightCalls(x, y, n), NEW z, z.at = x.at, z.pending = x.pending
    PROVE  RightCalls(z, <<>>, n) /\ HiddenIn(<<>>) = {}
<1>1. HiddenIn(<<>>) = {}
  BY DEF HiddenIn
<1>2. OfTheTurns(z, <<>>, n)
  BY DEF RightCalls, OfTheTurns
<1>3. StartsFirst(z, <<>>)
  BY DEF StartsFirst
<1>4. OneToHide(z, <<>>)
  BY <1>1 DEF RightCalls, OneToHide
<1> QED
  BY <1>1, <1>2, <1>3, <1>4 DEF RightCalls

\* Who makes a call has a conversation to make it of, or starts it.
LEMMA CallerIs ==
    ASSUME StoreInv, NEW w \in Writers, todo[w] # <<>>
    PROVE  /\ chat[w] \in ChatSet /\ todo[w] \in Seq(CallSet) /\ RightCalls(chat[w], todo[w], asked)
           /\ Head(todo[w]) = todo[w][1] /\ 1 \in DOMAIN todo[w] /\ todo[w][1] \in CallSet
           /\ w \in Chats => chat[w].at # "closed"
           /\ chat[w].id \in 0..ids
           /\ Head(todo[w]).call # "start" =>
                 chat[w].id # None /\ chat[w].id \in 1..ids /\ chat[w].id \in Ids
<1> USE DEF StoreInv
<1>1. chat[w] \in ChatSet /\ todo[w] \in Seq(CallSet) /\ RightCalls(chat[w], todo[w], asked) /\ chat[w].id \in 0..ids
  BY DEF SavedShape, CallsAreRight, KeptOnce
<1>2. Head(todo[w]) = todo[w][1] /\ 1 \in DOMAIN todo[w] /\ todo[w][1] \in CallSet
  BY <1>1, TailOf
<1>3. ASSUME Head(todo[w]).call # "start"
      PROVE  chat[w].id # None /\ chat[w].id \in 1..ids /\ chat[w].id \in Ids
  <2>1. chat[w].id # None
    BY <1>1, <1>2, <1>3 DEF RightCalls, StartsFirst
  <2>2. ids \in Nat /\ ids =< MaxConversations /\ MaxConversations \in Nat
    BY SavedConstants DEF SavedShape
  <2> QED
    BY <1>1, <2>1, <2>2 DEF None, Ids
<1> QED
  BY <1>1, <1>2, <1>3 DEF ClosedIsQuiet

\* One call is made, or all that is left is given up; the store keeps no more.
LEMMA CalledKeepsStore ==
    ASSUME StoreInv, Shrinks, NEW w \in Writers, todo[w] # <<>>,
           NEW x \in ChatSet, x.at = chat[w].at, x.id = chat[w].id, x.pending = chat[w].pending,
           NEW y, y = <<>> \/ (y = Tail(todo[w]) /\ Head(todo[w]).call # "start"),
           chat' = [chat EXCEPT ![w] = x], todo' = [todo EXCEPT ![w] = y],
           asked' = asked, failures' \in Nat
    PROVE  StoreInv'
<1>1. /\ todo[w] \in Seq(CallSet) /\ RightCalls(chat[w], todo[w], asked)
      /\ w \in Chats => chat[w].at # "closed"
      /\ chat[w].id \in 0..ids
      /\ Head(todo[w]).call # "start" => chat[w].id # None
  BY CallerIs
<1>2. /\ y \in Seq(CallSet) /\ RightCalls(x, y, asked)
      /\ HiddenIn(y) # {} => HiddenIn(todo[w]) # {}
  <2>1. CASE y = <<>>
    BY <1>1, <2>1, NothingLeftIsRight
  <2>2. CASE y = Tail(todo[w]) /\ Head(todo[w]).call # "start"
    <3>1. x.id # None
      BY <1>1, <2>2
    <3>2. /\ Tail(todo[w]) \in Seq(CallSet) /\ RightCalls(x, Tail(todo[w]), asked)
          /\ \A k \in HiddenIn(Tail(todo[w])) : k + 1 \in HiddenIn(todo[w]) /\ k + 1 # 1
      BY <1>1, <3>1, TailIsRight
    <3> QED
      BY <2>2, <3>2
  <2> QED
    BY <2>1, <2>2
<1>3. asked' \in Nat /\ asked' >= asked
  BY DEF StoreInv, SavedShape
<1>4. RightCalls(x, y, asked')
  BY <1>2
<1>5. (HiddenIn(y) # {} /\ x.id # None) => Hides(w) /\ x.id = chat[w].id
  BY <1>2 DEF Hides
<1>6. (w \in Chats /\ x.at = "closed") => y = <<>> /\ x.id = None
  BY <1>1
<1>7. x.id \in 0..ids /\ y \in Seq(CallSet)
  BY <1>1, <1>2
<1> QED
  BY <1>3, <1>4, <1>5, <1>6, <1>7, OneMovesTo

\* Recording a title keeps the store whole.
LEMMA RecordsKeepsStore ==
    ASSUME StoreInv, NEW w \in Writers, Records(w)
    PROVE  StoreInv'
<1>1. /\ todo[w] # <<>> /\ Head(todo[w]).call = "record" /\ todo' = [todo EXCEPT ![w] = Tail(todo[w])]
      /\ UNCHANGED <<kept, messages, title, chat, ids, asked, failures>>
  BY DEF Records, Called
<1>2. chat[w] \in ChatSet
  BY <1>1, CallerIs
<1>3. chat' = [chat EXCEPT ![w] = chat[w]] /\ failures' \in Nat
  BY <1>1 DEF StoreInv, SavedShape
<1>4. Shrinks
  BY <1>1, SameShrinks
<1> QED
  BY <1>1, <1>2, <1>3, <1>4, CalledKeepsStore

\* A store call that fails keeps the store whole.
LEMMA StoreFailsKeepsStore ==
    ASSUME StoreInv, NEW w \in Writers, StoreFails(w)
    PROVE  StoreInv'
<1> DEFINE y == IF GivesUpAfter(w, Head(todo[w]).call) THEN <<>> ELSE Tail(todo[w])
<1>1. /\ todo[w] # <<>> /\ todo' = [todo EXCEPT ![w] = y]
      /\ UNCHANGED <<kept, messages, title, chat, ids, asked>> /\ failures' = failures + 1
  BY DEF StoreFails, Called
<1>2. chat[w] \in ChatSet
  BY <1>1, CallerIs
<1>3. chat' = [chat EXCEPT ![w] = chat[w]] /\ failures' \in Nat
  BY <1>1 DEF StoreInv, SavedShape
<1>4. Shrinks
  BY <1>1, SameShrinks
<1>5. y = <<>> \/ (y = Tail(todo[w]) /\ Head(todo[w]).call # "start")
  BY DEF GivesUpAfter
<1> HIDE DEF y
<1> QED
  BY <1>1, <1>2, <1>3, <1>4, <1>5, CalledKeepsStore

\* Dropping the last question keeps the store whole.
LEMMA DropsKeepsStore ==
    ASSUME StoreInv, NEW w \in Writers, Drops(w)
    PROVE  StoreInv'
<1>1. /\ todo[w] # <<>> /\ Head(todo[w]).call = "drop" /\ todo' = [todo EXCEPT ![w] = Tail(todo[w])]
      /\ messages' = [messages EXCEPT ![chat[w].id] = UpToQuestion(messages[chat[w].id])]
      /\ UNCHANGED <<kept, title, chat, ids, asked, failures>>
  BY DEF Drops, Called
<1>2. chat[w] \in ChatSet /\ chat[w].id \in Ids
  BY <1>1, CallerIs
<1>3. chat' = [chat EXCEPT ![w] = chat[w]] /\ failures' \in Nat
  BY <1>1 DEF StoreInv, SavedShape
<1>4. Shrinks
  <2> DEFINE i == chat[w].id
             n == LastQuestion(messages[i])
             t == UpToQuestion(messages[i])
  <2>1. messages[i] \in Seq(MessageSet)
    BY <1>2 DEF StoreInv, SavedShape
  <2>2. /\ t \in Seq(MessageSet) /\ Len(t) = n /\ n \in 0..Len(messages[i])
        /\ \A k \in 1..n : t[k] = messages[i][k]
    BY <2>1, UpToQuestionOf
  <2> HIDE DEF n, t
  <2>3. \A k \in DOMAIN t : k \in DOMAIN messages[i] /\ t[k] = messages[i][k]
    BY <2>1, <2>2
  <2>4. messages[i] = <<>> => t = <<>>
    BY <2>2
  <2>5. messages' = [messages EXCEPT ![i] = t]
    BY <1>1 DEF t
  <2> HIDE DEF i
  <2>6. /\ messages \in [Ids -> Seq(MessageSet)] /\ i \in Ids
        /\ messages' \in [Ids -> Seq(MessageSet)] /\ messages'[i] = t
        /\ \A j \in Ids \ {i} : messages'[j] = messages[j]
    BY <1>2, <2>2, <2>5 DEF StoreInv, SavedShape, i
  <2>7. \A j \in Ids : \A k \in DOMAIN messages'[j] :
           k \in DOMAIN messages[j] /\ messages'[j][k] = messages[j][k]
    BY <2>3, <2>6
  <2>8. \A j \in Ids : j \in ToSet(kept) \/ messages'[j] = <<>>
    BY <2>4, <2>6 DEF StoreInv, NothingLeftBehind, IsKept
  <2> QED
    BY <1>1, <2>6, <2>7, <2>8 DEF Shrinks, StoreInv, SavedShape, KeptOnce
<1> QED
  BY <1>1, <1>2, <1>3, <1>4, CalledKeepsStore

\* From the app's list.
LEMMA StoreOnly ==
    ASSUME StoreInv, Shrinks, UNCHANGED <<chat, todo, asked, failures>>
    PROVE  StoreInv'
<1> DEFINE x == chat[Briefing]
           y == todo[Briefing]
<1>1. /\ Briefing \in Writers /\ Briefing \notin Chats /\ asked \in Nat /\ failures \in Nat
      /\ chat \in [Writers -> ChatSet] /\ todo \in [Writers -> Seq(CallSet)]
  BY SavedConstants DEF Writers, StoreInv, SavedShape
<1>2. x \in ChatSet /\ y \in Seq(CallSet) /\ chat' = [chat EXCEPT ![Briefing] = x] /\ todo' = [todo EXCEPT ![Briefing] = y]
  BY <1>1
<1>3. RightCalls(x, y, asked') /\ x.id \in 0..ids
  BY <1>1 DEF StoreInv, CallsAreRight, KeptOnce
<1>4. (HiddenIn(y) # {} /\ x.id # None) => Hides(Briefing) /\ x.id = chat[Briefing].id
  BY DEF Hides
<1>5. asked' \in Nat /\ asked' >= asked /\ failures' \in Nat
  BY <1>1
<1> HIDE DEF x, y
<1> QED
  BY <1>1, <1>2, <1>3, <1>4, <1>5, OneMovesTo

\* Deleting from the list, one or all, keeps the store whole.
LEMMA ListKeepsStore ==
    ASSUME StoreInv, FromTheList
    PROVE  StoreInv'
<1> USE DEF StoreInv
<1>1. /\ kept \in Seq(Ids) /\ IsInjective(kept) /\ Len(kept) \in Nat /\ Len(kept) =< Keep /\ messages \in [Ids -> Seq(MessageSet)]
      /\ title \in [Ids -> Titles] /\ \A j \in Ids : j \in ToSet(kept) \/ messages[j] = <<>>
  BY DEF SavedShape, KeptOnce, NothingLeftBehind, IsKept
<1>2. CASE DeletesAll
  <2>1. UNCHANGED <<title, chat, todo, ids, asked, failures>> /\ kept' = <<>> /\ messages' = [j \in Ids |-> <<>>]
    BY <1>2 DEF DeletesAll
  <2>2. /\ kept' \in Seq(Ids) /\ ToSet(kept') = {} /\ Len(kept') = 0 /\ IsInjective(kept')
    BY <2>1 DEF ToSet, IsInjective
  <2>3. messages' \in [Ids -> Seq(MessageSet)] /\ \A j \in Ids : messages'[j] = <<>>
    BY <2>1
  <2>4. Shrinks
    BY <1>1, <2>1, <2>2, <2>3 DEF Shrinks
  <2> QED
    BY <2>1, <2>4, StoreOnly
<1>3. ASSUME NEW i \in Listed, Deletes(i) PROVE StoreInv'
  <2>1. /\ UNCHANGED <<title, chat, todo, ids, asked, failures>>
        /\ kept' = Without(kept, i) /\ messages' = [messages EXCEPT ![i] = <<>>]
    BY <1>3 DEF Deletes
  <2>2. i \in ToSet(kept)
    BY DEF Listed
  <2>3. /\ Without(kept, i) \in Seq(Ids) /\ Len(Without(kept, i)) = Len(kept) - 1
        /\ ToSet(Without(kept, i)) = ToSet(kept) \ {i} /\ IsInjective(Without(kept, i))
    BY <1>1, <2>2, WithoutOf
  <2>4. /\ messages' \in [Ids -> Seq(MessageSet)]
        /\ \A j \in Ids : (j = i /\ messages'[j] = <<>>) \/ (j # i /\ messages'[j] = messages[j])
    <3>1. <<>> \in Seq(MessageSet)
      OBVIOUS
    <3> QED
      BY <1>1, <2>1, <3>1
  <2>5. Len(kept') =< Len(kept)
    BY <1>1, <2>1, <2>3
  <2>6. Shrinks
    BY <1>1, <2>1, <2>3, <2>4, <2>5 DEF Shrinks
  <2> QED
    BY <2>1, <2>6, StoreOnly
<1>4. ASSUME NEW i \in Listed, Renames(i) PROVE StoreInv'
  <2>1. UNCHANGED <<kept, messages, chat, todo, ids, asked, failures>> /\ title' = [title EXCEPT ![i] = "asked for"]
    BY <1>4 DEF Renames
  <2>2. title' \in [Ids -> Titles] /\ \A j \in Ids : title'[j] \in {title[j], "asked for"}
    BY <1>1, <2>1 DEF Titles
  <2>3. Len(kept') =< Len(kept) /\ ToSet(kept') \subseteq ToSet(kept) /\ IsInjective(kept') /\ kept' \in Seq(Ids)
    <3>1. kept' = kept
      BY <2>1
    <3>2. Len(kept') =< Len(kept)
      BY <1>1, <3>1
    <3>3. ToSet(kept') \subseteq ToSet(kept) /\ IsInjective(kept') /\ kept' \in Seq(Ids)
      BY <1>1, <3>1, Zenon
    <3> QED
      BY <3>2, <3>3
  <2>4. \A j \in Ids : j \in ToSet(kept') \/ messages'[j] = <<>>
    BY <1>1, <2>1
  <2>5. /\ messages' \in [Ids -> Seq(MessageSet)]
        /\ \A j \in Ids : \A k \in DOMAIN messages'[j] :
              k \in DOMAIN messages[j] /\ messages'[j][k] = messages[j][k]
    BY <1>1, <2>1
  <2>6. Shrinks
    BY <2>1, <2>2, <2>3, <2>4, <2>5 DEF Shrinks
  <2> QED
    BY <2>1, <2>6, StoreOnly
<1> QED
  BY <1>2, <1>3, <1>4 DEF FromTheList

\* What a hidden message is saved under.
LEMMA HiddenIsFirst ==
    ASSUME StoreInv, NEW w \in Writers, todo[w] # <<>>, Head(todo[w]).call = "append", Head(todo[w]).m.hidden
    PROVE  /\ Hides(w) /\ HiddenIn(Tail(todo[w])) = {} /\ Head(todo[w]).m.role = "user"
           /\ HiddenOf(chat[w].id) = {} /\ title[chat[w].id] # "first words"
           /\ \A v \in Writers : (Hides(v) /\ chat[v].id = chat[w].id) => v = w
<1>1. /\ todo[w] \in Seq(CallSet) /\ RightCalls(chat[w], todo[w], asked) /\ chat[w].id # None
      /\ Head(todo[w]) = todo[w][1] /\ 1 \in DOMAIN todo[w]
  BY CallerIs
<1>2. 1 \in HiddenIn(todo[w])
  BY <1>1 DEF HiddenIn
<1>3. Hides(w)
  BY <1>1, <1>2 DEF Hides
<1>4. /\ HiddenOf(chat[w].id) = {} /\ title[chat[w].id] # "first words"
      /\ \A v \in Writers : (Hides(v) /\ chat[v].id = chat[w].id) => v = w
  BY <1>3 DEF StoreInv, NoneHiddenYet
<1>5. /\ \A k \in HiddenIn(todo[w]) : k = 1
      /\ Head(todo[w]).m.role = "user"
  BY <1>1, <1>2 DEF RightCalls, OneToHide
<1>6. \A k \in HiddenIn(Tail(todo[w])) : k + 1 \in HiddenIn(todo[w]) /\ k + 1 # 1
  BY <1>1, TailIsRight
<1> QED
  BY <1>3, <1>4, <1>5, <1>6

\* Appending a message keeps the store whole.
LEMMA AppendsKeepsStore ==
    ASSUME StoreInv, NEW w \in Writers, Appends(w)
    PROVE  StoreInv'
<1> DEFINE m == Head(todo[w]).m
           y == Tail(todo[w])
<1>i. PICK i : i = chat[w].id
  OBVIOUS
<1>1. /\ todo[w] # <<>> /\ Head(todo[w]).call = "append" /\ UNCHANGED <<title, ids, asked, failures>>
  BY DEF Appends
<1>2. /\ chat[w] \in ChatSet /\ todo[w] \in Seq(CallSet) /\ RightCalls(chat[w], todo[w], asked)
      /\ Head(todo[w]) = todo[w][1] /\ 1 \in DOMAIN todo[w] /\ todo[w][1] \in CallSet
      /\ w \in Chats => chat[w].at # "closed"
      /\ i # None /\ i \in 1..ids /\ i \in Ids
  BY <1>1, <1>i, CallerIs
<1>3. CASE ~(Active(w) /\ Takes(i))
  <2> DEFINE x == [chat[w] EXCEPT !.off = TRUE]
             t == IF w = Briefing THEN <<>> ELSE Tail(todo[w])
  <2>1. /\ todo' = [todo EXCEPT ![w] = t] /\ UNCHANGED <<messages, kept>>
        /\ chat' = [chat EXCEPT ![w] = x]
    <3>1. chat' = [chat EXCEPT ![w].off = TRUE] /\ UNCHANGED <<messages, kept>>
      BY <1>3, <1>i DEF Appends
    <3>2. todo' = [todo EXCEPT ![w] = t]
      BY <1>3, <1>i DEF Appends, Called
    <3> QED
      BY <3>1, <3>2
  <2>2. x \in ChatSet /\ x.at = chat[w].at /\ x.id = chat[w].id /\ x.pending = chat[w].pending
    BY <1>2 DEF ChatSet
  <2>3. Shrinks
    BY <1>1, <2>1, SameShrinks
  <2>4. failures' \in Nat /\ asked' = asked
    BY <1>1 DEF StoreInv, SavedShape
  <2>5. t = <<>> \/ (t = Tail(todo[w]) /\ Head(todo[w]).call # "start")
    BY <1>1
  <2> HIDE DEF x, t
  <2> QED
    BY <1>1, <2>1, <2>2, <2>3, <2>4, <2>5, CalledKeepsStore
<1>4. CASE Active(w) /\ Takes(i)
  <2> USE DEF StoreInv
  <2>1. /\ messages' = [messages EXCEPT ![i] = Append(messages[i], m)]
        /\ kept' = <<i>> \o Without(kept, i) /\ UNCHANGED chat
        /\ todo' = [todo EXCEPT ![w] = y] /\ i \in ToSet(kept)
    BY <1>4, <1>i DEF Appends, Called, Takes, IsKept
  <2>2. m \in MessageSet /\ m.of \in 1..asked
    <3>1. m \in MessageSet
      BY <1>1, <1>2 DEF CallSet
    <3>2. m.of \in 1..asked
      BY <1>1, <1>2 DEF RightCalls, OfTheTurns
    <3> QED
      BY <3>1, <3>2
  <2>3. /\ y \in Seq(CallSet) /\ RightCalls(chat[w], y, asked)
        /\ \A k \in HiddenIn(y) : k + 1 \in HiddenIn(todo[w]) /\ k + 1 # 1
    BY <1>1, <1>2, <1>i, TailIsRight
  <2>4. m.hidden => /\ Hides(w) /\ HiddenIn(y) = {} /\ m.role = "user"
                    /\ HiddenOf(i) = {} /\ title[i] # "first words"
                    /\ \A v \in Writers : (Hides(v) /\ chat[v].id = i) => v = w
    BY <1>1, <1>i, HiddenIsFirst
  <2> HIDE DEF m, y
  <2>5. /\ kept \in Seq(Ids) /\ IsInjective(kept) /\ Len(kept) \in Nat /\ Len(kept) =< Keep
        /\ ToSet(kept) \subseteq 1..ids
    BY DEF SavedShape, KeptOnce
  <2>6. /\ kept' \in Seq(Ids) /\ Len(kept') = Len(kept) /\ ToSet(kept') = ToSet(kept) /\ IsInjective(kept')
    <3> DEFINE others == Without(kept, i)
    <3>1. /\ others \in Seq(Ids) /\ Len(others) = Len(kept) - 1
          /\ ToSet(others) = ToSet(kept) \ {i} /\ IsInjective(others)
      BY <2>1, <2>5, WithoutOf
    <3> HIDE DEF others
    <3>2. i \in Ids /\ i \notin ToSet(others)
      BY <1>2, <3>1
    <3>3. /\ <<i>> \o others \in Seq(Ids) /\ Len(<<i>> \o others) = Len(others) + 1
          /\ ToSet(<<i>> \o others) = ToSet(others) \cup {i}
          /\ IsInjective(<<i>> \o others)
      BY <3>1, <3>2, PutFirst
    <3>4. kept' = <<i>> \o others
      BY <2>1 DEF others
    <3>5. Len(kept') = Len(kept)
      BY <2>5, <3>1, <3>3, <3>4
    <3>6. ToSet(kept') = ToSet(kept)
      BY <2>1, <3>1, <3>3, <3>4
    <3> QED
      BY <3>3, <3>4, <3>5, <3>6
  <2>7. /\ messages \in [Ids -> Seq(MessageSet)] /\ i \in Ids /\ messages[i] \in Seq(MessageSet)
        /\ messages' \in [Ids -> Seq(MessageSet)] /\ messages'[i] = Append(messages[i], m)
        /\ \A j \in Ids \ {i} : messages'[j] = messages[j]
    <3>1. messages \in [Ids -> Seq(MessageSet)] /\ i \in Ids /\ messages[i] \in Seq(MessageSet)
      BY <1>2 DEF SavedShape
    <3>2. Append(messages[i], m) \in Seq(MessageSet)
      BY <2>2, <3>1
    <3> QED
      BY <2>1, <3>1, <3>2
  <2>8. /\ Len(messages[i]) \in Nat /\ DOMAIN messages[i] = 1..Len(messages[i])
        /\ DOMAIN messages'[i] = 1..(Len(messages[i]) + 1)
        /\ messages'[i][Len(messages[i]) + 1] = m
        /\ \A k \in 1..Len(messages[i]) : messages'[i][k] = messages[i][k]
    BY <2>2, <2>7
  <2>9. \A k \in DOMAIN messages'[i] :
            \/ k \in DOMAIN messages[i] /\ messages'[i][k] = messages[i][k]
            \/ k = Len(messages[i]) + 1 /\ messages'[i][k] = m
    BY <2>8
  <2>10. todo \in [Writers -> Seq(CallSet)] /\ todo' \in [Writers -> Seq(CallSet)] /\ todo'[w] = y
         /\ \A v \in Writers \ {w} : todo'[v] = todo[v]
    BY <2>1, <2>3 DEF SavedShape
  <2>11. SavedShape'
    BY <1>1, <2>1, <2>6, <2>7, <2>10 DEF SavedShape
  <2>12. CallsAreRight'
    <3> SUFFICES ASSUME NEW v \in Writers PROVE RightCalls(chat[v], todo[v], asked)'
      BY DEF CallsAreRight
    <3>1. RightCalls(chat[v], todo'[v], asked)
      BY <2>3, <2>10 DEF CallsAreRight
    <3>2. chat'[v] = chat[v] /\ asked' = asked
      BY <1>1, <2>1
    <3> QED
      BY <3>1, <3>2
  <2>13. ClosedIsQuiet'
    BY <1>2, <2>1, <2>10 DEF ClosedIsQuiet, Writers
  <2>14. KeptOnce'
    <3>1. Len(kept') =< Keep
      BY <2>5, <2>6
    <3>2. ToSet(kept') \subseteq 1..ids' /\ IsInjective(kept')
      BY <1>1, <2>5, <2>6
    <3>3. \A v \in Writers : chat'[v].id \in 0..ids'
      BY <1>1, <2>1 DEF KeptOnce
    <3> QED
      BY <3>1, <3>2, <3>3 DEF KeptOnce
  <2>15. AllDated'
    <3> SUFFICES ASSUME NEW j \in Ids, NEW k \in DOMAIN messages'[j] PROVE messages'[j][k].of \in 1..asked'
      BY DEF AllDated
    <3>1. CASE j = i
      BY <1>1, <2>2, <2>9, <3>1 DEF AllDated
    <3>2. CASE j # i
      BY <1>1, <2>7, <3>2 DEF AllDated
    <3> QED
      BY <3>1, <3>2
  <2>16. NothingLeftBehind'
    <3>1. \A j \in Ids : j \in ToSet(kept') \/ messages'[j] = <<>>
      BY <2>1, <2>6, <2>7 DEF NothingLeftBehind, IsKept
    <3> QED
      BY <3>1 DEF NothingLeftBehind, IsKept
  <2>17. /\ \A j \in Ids \ {i} : HiddenOf(j)' = HiddenOf(j)
         /\ \A k \in HiddenOf(i)' :
               \/ k \in HiddenOf(i) /\ messages'[i][k] = messages[i][k]
               \/ m.hidden /\ k = Len(messages[i]) + 1 /\ messages'[i][k] = m
    <3>1. ASSUME NEW j \in Ids \ {i} PROVE HiddenOf(j)' = HiddenOf(j)
      BY <2>7 DEF HiddenOf
    <3>2. \A k \in DOMAIN messages'[i] : messages'[i][k].hidden =>
             \/ k \in HiddenOf(i) /\ messages'[i][k] = messages[i][k]
             \/ m.hidden /\ k = Len(messages[i]) + 1 /\ messages'[i][k] = m
      BY <2>9 DEF HiddenOf
    <3> QED
      BY <3>1, <3>2 DEF HiddenOf
  <2>18. NoneHiddenYet'
    <3>1. ASSUME NEW v \in Writers, NEW u \in Writers, Hides(v)', Hides(u)', chat[u].id = chat[v].id
          PROVE  u = v /\ Hides(v)
      <4>1. Hides(v) /\ Hides(u)
        BY <2>1, <2>3, <2>10, <3>1 DEF Hides
      <4> QED
        BY <3>1, <4>1 DEF NoneHiddenYet
    <3>2. ASSUME NEW v \in Writers, Hides(v)', NEW j, j = chat[v].id
          PROVE  HiddenOf(j)' = {} /\ title'[j] # "first words"
      <4>1. Hides(v)
        BY <3>1, <3>2
      <4>2. HiddenOf(j) = {} /\ title[j] # "first words" /\ j \in Ids
        <5>1. j \in 0..ids /\ j # 0 /\ ids \in Nat /\ ids =< MaxConversations /\ MaxConversations \in Nat
          BY <3>2, <4>1, SavedConstants DEF KeptOnce, Hides, None, SavedShape
        <5>2. j \in Ids
          BY <5>1 DEF Ids
        <5> QED
          BY <3>2, <4>1, <5>2 DEF NoneHiddenYet
      <4>3. CASE j # i
        BY <1>1, <2>17, <4>2, <4>3
      <4>4. CASE j = i /\ ~m.hidden
        BY <1>1, <2>17, <4>2, <4>4
      <4>5. CASE j = i /\ m.hidden
        <5>1. v = w
          BY <2>4, <3>2, <4>1, <4>5
        <5>2. HiddenIn(y) # {}
          BY <2>10, <3>2, <5>1 DEF Hides
        <5> QED
          BY <2>4, <4>5, <5>2
      <4> QED
        BY <4>3, <4>4, <4>5
    <3>3. ASSUME NEW v \in Writers, Hides(v)'
          PROVE  (HiddenOf(chat[v].id) = {} /\ title[chat[v].id] # "first words")'
      <4>1. PICK j : j = chat[v].id
        OBVIOUS
      <4>2. HiddenOf(j)' = {} /\ title'[j] # "first words"
        BY <3>2, <3>3, <4>1
      <4>3. chat'[v].id = j
        BY <2>1, <4>1
      <4> QED
        BY <4>2, <4>3
    <3>4. \A v \in Writers : chat'[v].id = chat[v].id
      BY <2>1
    <3> QED
      BY <3>1, <3>3, <3>4 DEF NoneHiddenYet
  <2>19. OneIsHidden'
    <3> SUFFICES ASSUME NEW j \in Ids
                 PROVE  /\ \A k, l \in HiddenOf(j)' : k = l
                        /\ \A k \in HiddenOf(j)' : messages'[j][k].role = "user" /\ title'[j] # "first words"
      BY DEF OneIsHidden
    <3>1. /\ \A k, l \in HiddenOf(j) : k = l
          /\ \A k \in HiddenOf(j) : messages[j][k].role = "user" /\ title[j] # "first words"
      BY DEF OneIsHidden
    <3>2. CASE j # i
      BY <1>1, <2>7, <2>17, <3>1, <3>2
    <3>3. CASE j = i /\ ~m.hidden
      BY <1>1, <2>17, <3>1, <3>3
    <3>4. CASE j = i /\ m.hidden
      <4>1. /\ HiddenOf(i) = {} /\ title[i] # "first words" /\ m.role = "user"
        BY <2>4, <3>4
      <4>2. \A k \in HiddenOf(i)' : k = Len(messages[i]) + 1 /\ messages'[i][k] = m
        BY <2>17, <4>1
      <4> QED
        BY <1>1, <3>4, <4>1, <4>2
    <3> QED
      BY <3>2, <3>3, <3>4
  <2> QED
    BY <2>11, <2>12, <2>13, <2>14, <2>15, <2>16, <2>18, <2>19
<1> QED
  BY <1>3, <1>4

\* Starting a conversation keeps the store whole.
LEMMA StartsKeepsStore ==
    ASSUME StoreInv, NEW w \in Writers, Starts(w)
    PROVE  StoreInv'
<1> USE DEF StoreInv
<1> DEFINE y == Tail(todo[w])
<1>1. PICK n : n = ids + 1
  OBVIOUS
<1>2. PICK t : t \in {"asked for", Head(todo[w]).title} /\ title' = [title EXCEPT ![n] = t]
  BY <1>1 DEF Starts, NewId
<1>3. /\ todo[w] # <<>> /\ Head(todo[w]).call = "start" /\ ids < MaxConversations
      /\ ids' = n /\ kept' = <<n>> \o Recent(kept)
      /\ messages' = [j \in Ids |-> IF j \in Stale(kept) THEN <<>> ELSE messages[j]]
      /\ todo' = [todo EXCEPT ![w] = y] /\ UNCHANGED <<asked, failures>>
  BY <1>1 DEF Starts, NewId, Called
<1>4. /\ chat[w] \in ChatSet /\ todo[w] \in Seq(CallSet) /\ RightCalls(chat[w], todo[w], asked)
      /\ Head(todo[w]) = todo[w][1] /\ 1 \in DOMAIN todo[w] /\ todo[w][1] \in CallSet
      /\ w \in Chats => chat[w].at # "closed"
  BY <1>3, CallerIs
<1>5. /\ ids \in Nat /\ n \in Nat /\ n =< MaxConversations /\ n # None /\ n \in Ids /\ n \notin 0..ids
      /\ \A k \in 0..ids : k \in 0..n /\ k # n
      /\ \A k \in 1..ids : k \in 1..n
      /\ n \in 1..n /\ n \in 0..n
  BY <1>1, <1>3, SavedConstants DEF SavedShape, Ids, None
<1> DEFINE x == [chat[w] EXCEPT !.id = n, !.pending = <<>>]
<1>6. chat' = [chat EXCEPT ![w] = x]
  <2>1. chat' = [chat EXCEPT ![w].id = n, ![w].pending = <<>>]
    BY <1>1 DEF Starts, NewId
  <2> QED
    BY <2>1 DEF SavedShape
<1>7. x \in ChatSet /\ x.id = n /\ x.pending = <<>> /\ x.at = chat[w].at
  <2>1. <<>> \in Seq(MessageSet)
    OBVIOUS
  <2> QED
    BY <1>4, <1>5, <2>1 DEF ChatSet
<1> HIDE DEF x
<1>8. /\ y \in Seq(CallSet) /\ RightCalls(x, y, asked)
      /\ \A k \in HiddenIn(y) : k + 1 \in HiddenIn(todo[w])
  BY <1>3, <1>4, <1>5, <1>7, TailIsRight
<1>9. t \in Titles /\ (HiddenIn(y) # {} => t # "first words")
  <2>1. Head(todo[w]).title \in Titles
    BY <1>3, <1>4 DEF CallSet
  <2>2. HiddenIn(todo[w]) # {} => Head(todo[w]).title # "first words"
    BY <1>3, <1>4 DEF RightCalls, OneToHide
  <2> QED
    BY <1>2, <1>8, <2>1, <2>2 DEF Titles
<1> HIDE DEF y
<1>10. /\ chat' \in [Writers -> ChatSet] /\ todo' \in [Writers -> Seq(CallSet)]
       /\ chat'[w] = x /\ todo'[w] = y
       /\ \A v \in Writers \ {w} : chat'[v] = chat[v] /\ todo'[v] = todo[v]
  BY <1>3, <1>6, <1>7, <1>8 DEF SavedShape
<1>11. /\ title' \in [Ids -> Titles] /\ title'[n] = t
       /\ \A j \in Ids \ {n} : title'[j] = title[j]
  BY <1>2, <1>5, <1>9 DEF SavedShape
<1>12. /\ messages' \in [Ids -> Seq(MessageSet)]
       /\ \A j \in Ids : (j \in Stale(kept) /\ messages'[j] = <<>>) \/ (j \notin Stale(kept) /\ messages'[j] = messages[j])
  <2>1. messages \in [Ids -> Seq(MessageSet)] /\ <<>> \in Seq(MessageSet)
    BY DEF SavedShape
  <2> QED
    BY <1>3, <2>1
<1>13. /\ kept \in Seq(Ids) /\ IsInjective(kept) /\ ToSet(kept) \subseteq 1..ids
       /\ Keep \in Nat \ {0}
  BY SavedConstants DEF SavedShape, KeptOnce
<1>14. /\ kept' \in Seq(Ids) /\ Len(kept') =< Keep /\ IsInjective(kept')
       /\ ToSet(kept') = (ToSet(kept) \ Stale(kept)) \cup {n}
  <2> DEFINE others == Recent(kept)
  <2>1. /\ others \in Seq(Ids) /\ Len(others) < Keep /\ ToSet(others) = ToSet(kept) \ Stale(kept)
        /\ IsInjective(others)
    BY <1>13, RecentOf
  <2> HIDE DEF others
  <2>2. n \notin ToSet(others)
    BY <1>5, <1>13, <2>1
  <2>3. /\ <<n>> \o others \in Seq(Ids) /\ Len(<<n>> \o others) = Len(others) + 1
        /\ ToSet(<<n>> \o others) = ToSet(others) \cup {n}
        /\ IsInjective(<<n>> \o others)
    BY <1>5, <2>1, <2>2, PutFirst
  <2>4. kept' = <<n>> \o others
    BY <1>3 DEF others
  <2>5. Len(others) \in Nat
    BY <2>1
  <2>6. Len(kept') =< Keep
    BY <1>13, <2>1, <2>3, <2>4, <2>5
  <2> QED
    BY <2>1, <2>3, <2>4, <2>6
<1>15. /\ messages[n] = <<>> /\ messages'[n] = <<>>
  <2>1. n \notin ToSet(kept)
    BY <1>5, <1>13
  <2>2. messages[n] = <<>>
    BY <1>5, <2>1 DEF NothingLeftBehind, IsKept
  <2> QED
    BY <1>5, <1>12, <2>2
<1>16. SavedShape'
  BY <1>3, <1>5, <1>10, <1>11, <1>12, <1>14 DEF SavedShape
<1>17. CallsAreRight'
  <2> SUFFICES ASSUME NEW v \in Writers PROVE RightCalls(chat[v], todo[v], asked)'
    BY DEF CallsAreRight
  <2>1. RightCalls(chat'[v], todo'[v], asked)
    BY <1>8, <1>10 DEF CallsAreRight
  <2> QED
    BY <1>3, <2>1
<1>18. ClosedIsQuiet'
  BY <1>4, <1>7, <1>10 DEF ClosedIsQuiet, Writers
<1>19. KeptOnce'
  <2>1. ToSet(kept') \subseteq 1..n
    BY <1>5, <1>13, <1>14
  <2>2. \A v \in Writers : chat'[v].id \in 0..n
    BY <1>5, <1>7, <1>10 DEF KeptOnce
  <2> QED
    BY <1>3, <1>14, <2>1, <2>2 DEF KeptOnce
<1>20. AllDated'
  <2> SUFFICES ASSUME NEW j \in Ids, NEW k \in DOMAIN messages'[j] PROVE messages'[j][k].of \in 1..asked'
    BY DEF AllDated
  <2>1. messages'[j] # <<>>
    OBVIOUS
  <2>2. messages'[j] = messages[j]
    BY <1>12, <2>1
  <2> QED
    BY <1>3, <2>2 DEF AllDated
<1>21. NothingLeftBehind'
  <2>1. \A j \in Ids : j \in ToSet(kept') \/ messages'[j] = <<>>
    BY <1>12, <1>14 DEF NothingLeftBehind, IsKept
  <2> QED
    BY <2>1 DEF NothingLeftBehind, IsKept
<1>22. /\ \A j \in Ids : \A k \in HiddenOf(j)' : k \in HiddenOf(j) /\ messages'[j][k] = messages[j][k]
       /\ HiddenOf(n)' = {}
  <2>1. ASSUME NEW j \in Ids, NEW k \in DOMAIN messages'[j] PROVE k \in DOMAIN messages[j] /\ messages'[j][k] = messages[j][k]
    <3>1. messages'[j] # <<>>
      OBVIOUS
    <3> QED
      BY <1>12, <3>1
  <2>2. DOMAIN messages'[n] = {}
    BY <1>15
  <2> QED
    BY <2>1, <2>2 DEF HiddenOf
<1>23. NoneHiddenYet'
  <2>1. ASSUME NEW v \in Writers, v # w, Hides(v)'
        PROVE  Hides(v) /\ chat'[v].id = chat[v].id /\ chat[v].id \in Ids /\ chat[v].id # n
    <3>1. Hides(v) /\ chat'[v].id = chat[v].id /\ chat[v].id # None
      BY <1>10, <2>1 DEF Hides
    <3>2. chat[v].id \in 0..ids
      BY DEF KeptOnce
    <3>3. chat[v].id \in Ids /\ chat[v].id # n
      BY <1>1, <1>3, <1>5, <3>1, <3>2, SavedConstants DEF None, Ids
    <3> QED
      BY <3>1, <3>3
  <2>2. ASSUME NEW v \in Writers, NEW u \in Writers, Hides(v)', Hides(u)', chat'[u].id = chat'[v].id
        PROVE  u = v
    <3>1. CASE v # w /\ u # w
      <4>1. Hides(v) /\ Hides(u) /\ chat[u].id = chat[v].id
        BY <2>1, <2>2, <3>1
      <4> QED
        BY <4>1 DEF NoneHiddenYet
    <3>2. CASE (v = w /\ u # w) \/ (v # w /\ u = w)
      <4>1. chat'[w].id = n
        BY <1>7, <1>10
      <4> QED
        BY <2>1, <2>2, <3>2, <4>1
    <3> QED
      BY <3>1, <3>2
  <2>3. ASSUME NEW v \in Writers, Hides(v)', NEW j, j = chat'[v].id
        PROVE  HiddenOf(j)' = {} /\ title'[j] # "first words"
    <3>1. CASE v = w
      <4>1. j = n /\ HiddenIn(y) # {}
        BY <1>7, <1>10, <2>3, <3>1 DEF Hides
      <4> QED
        BY <1>9, <1>11, <1>22, <4>1
    <3>2. CASE v # w
      <4>1. Hides(v) /\ j = chat[v].id /\ j \in Ids /\ j # n
        BY <2>1, <2>3, <3>2
      <4>2. HiddenOf(j) = {} /\ title[j] # "first words"
        BY <4>1 DEF NoneHiddenYet
      <4> QED
        BY <1>11, <1>22, <4>1, <4>2
    <3> QED
      BY <3>1, <3>2
  <2>4. ASSUME NEW v \in Writers, Hides(v)'
        PROVE  (HiddenOf(chat[v].id) = {} /\ title[chat[v].id] # "first words")'
    <3>1. PICK j : j = chat'[v].id
      OBVIOUS
    <3>2. HiddenOf(j)' = {} /\ title'[j] # "first words"
      BY <2>3, <2>4, <3>1
    <3> QED
      BY <3>1, <3>2
  <2> QED
    BY <2>2, <2>4 DEF NoneHiddenYet
<1>24. OneIsHidden'
  <2> SUFFICES ASSUME NEW j \in Ids
               PROVE  /\ \A k, l \in HiddenOf(j)' : k = l
                      /\ \A k \in HiddenOf(j)' : messages'[j][k].role = "user" /\ title'[j] # "first words"
    BY DEF OneIsHidden
  <2>1. /\ \A k, l \in HiddenOf(j) : k = l
        /\ \A k \in HiddenOf(j) : messages[j][k].role = "user" /\ title[j] # "first words"
    BY DEF OneIsHidden
  <2>2. CASE j = n
    BY <1>22, <2>2
  <2>3. CASE j # n
    <3>1. title'[j] = title[j]
      BY <1>11, <2>3
    <3>2. \A k \in HiddenOf(j)' : k \in HiddenOf(j) /\ messages'[j][k] = messages[j][k]
      BY <1>22
    <3>3. \A k, l \in HiddenOf(j)' : k = l
      BY <2>1, <3>2
    <3>4. \A k \in HiddenOf(j)' : messages'[j][k].role = "user" /\ title'[j] # "first words"
      BY <2>1, <3>1, <3>2
    <3> QED
      BY <3>3, <3>4
  <2> QED
    BY <2>2, <2>3
<1> QED
  BY <1>16, <1>17, <1>18, <1>19, <1>20, <1>21, <1>23, <1>24
-----------------------------------------------------------------------------
\* The store's invariant holds at first.
LEMMA StoreInit ==
    ASSUME SavedInit
    PROVE  StoreInv
<1> USE DEF SavedInit
<1>1. /\ kept = <<>> /\ ids = 0 /\ asked = 0 /\ failures = 0
      /\ \A i \in Ids : messages[i] = <<>> /\ title[i] = "none"
      /\ \A w \in Writers : chat[w] = Closed /\ todo[w] = <<>>
  OBVIOUS
<1>2. SavedShape
  <2>1. <<>> \in Seq(Ids) /\ <<>> \in Seq(MessageSet) /\ <<>> \in Seq(CallSet) /\ "none" \in Titles
    BY DEF Titles
  <2>2. 0 =< MaxConversations
    BY SavedConstants
  <2>3. messages \in [Ids -> Seq(MessageSet)] /\ title \in [Ids -> Titles]
    BY <2>1
  <2>4. chat \in [Writers -> ChatSet] /\ todo \in [Writers -> Seq(CallSet)]
    BY <2>1, ClosedIsAChat
  <2> QED
    BY <2>1, <2>2, <2>3, <2>4 DEF SavedShape
<1>3. \A w \in Writers : chat[w].pending = <<>> /\ chat[w].at = "closed" /\ chat[w].id = None
  BY <1>1, ClosedIsAChat
<1>4. CallsAreRight
  <2> SUFFICES ASSUME NEW w \in Writers PROVE RightCalls(chat[w], todo[w], asked)
    BY DEF CallsAreRight
  <2> QED
    BY <1>1, <1>3, QuietIsRight
<1>5. ClosedIsQuiet
  BY <1>1, <1>3 DEF ClosedIsQuiet, Writers
<1>6. KeptOnce
  <2>1. ToSet(<<>>) = {} /\ Len(<<>>) = 0 /\ IsInjective(<<>>)
    BY DEF ToSet, IsInjective
  <2>2. 0 =< Keep
    BY SavedConstants
  <2> QED
    BY <1>1, <1>3, <2>1, <2>2 DEF KeptOnce, None
<1>7. AllDated /\ NothingLeftBehind
  BY <1>1 DEF AllDated, NothingLeftBehind
<1>8. NoneHiddenYet
  BY <1>3 DEF NoneHiddenYet, Hides
<1>9. OneIsHidden
  BY <1>1 DEF OneIsHidden, HiddenOf
<1> QED
  BY <1>2, <1>4, <1>5, <1>6, <1>7, <1>8, <1>9 DEF StoreInv

\* Every step of the chat keeps the store's invariant.
LEMMA StoreStep ==
    ASSUME StoreInv, [SavedNext]_savedVars
    PROVE  StoreInv'
<1>1. CASE UNCHANGED savedVars
  <2>1. UNCHANGED <<kept, messages, title, chat, todo, ids, asked, failures>>
    BY <1>1 DEF savedVars
  <2> QED
    BY <2>1, SameShrinks, StoreOnly
<1>2. ASSUME NEW c \in Chats, Opens(c) \/ Leaves(c) \/ Asks(c) \/ Retries(c) \/ TurnEnds(c)
      PROVE  StoreInv'
  BY <1>2, OpensKeepsStore, LeavesKeepsStore, AsksKeepsStore, RetriesKeepsStore, TurnEndsKeepsStore
<1>3. CASE ChecksIn
  BY <1>3, ChecksInKeepsStore
<1>4. ASSUME NEW w \in Writers, Starts(w) \/ Appends(w) \/ Records(w) \/ Drops(w) \/ StoreFails(w)
      PROVE  StoreInv'
  BY <1>4, StartsKeepsStore, AppendsKeepsStore, RecordsKeepsStore, DropsKeepsStore, StoreFailsKeepsStore
<1>5. CASE FromTheList
  BY <1>5, ListKeepsStore
<1> QED
  BY <1>1, <1>2, <1>3, <1>4, <1>5 DEF SavedNext

(* The store is whole, always: messages are only kept with their           *)
(* conversation, and at most a conversation's first question is hidden and *)
(* its title is not taken from it, through deletions, pruning, failures    *)
(* and several writers of one conversation (store.go:143-225).             *)
THEOREM StoreIsWholeHolds == SavedSpec => []StoreIsWhole
<1>1. SavedInit => StoreInv
  BY StoreInit
<1>2. StoreInv /\ [SavedNext]_savedVars => StoreInv'
  BY StoreStep
<1>3. StoreInv => StoreIsWhole
  <2> SUFFICES ASSUME StoreInv PROVE StoreIsWhole
    OBVIOUS
  <2>1. \A i \in Ids : \A m \in ToSet(messages[i]) : m.of \in 1..asked
    BY DEF StoreInv, AllDated, ToSet
  <2>2. SavedTypeOK
    BY <2>1 DEF SavedTypeOK, StoreInv, KeptOnce
  <2> QED
    BY <2>2 DEF StoreIsWhole, StoreInv
<1> QED
  BY <1>1, <1>2, <1>3, PTL DEF SavedSpec
-----------------------------------------------------------------------------
(* A chat reopens as it was. *)

\* Of calls that start a conversation, one saves something the app shows; a
\* chat that was deleted had been one; what waits for the first reply is of a
\* chat the app opened; and what is asked is shown.
ShownIn(y) == {k \in DOMAIN y : y[k].call = "append" /\ ~y[k].m.hidden}
ToShow(x, y) ==
    /\ (y # <<>> /\ y[1].call = "start") => ShownIn(y) # {}
    /\ x.off => x.id # None
    /\ x.pending # <<>> => x.context /\ x.id = None
    /\ x.at = "asked" => x.shown # <<>>
CallsShow == \A w \in Writers : ToShow(chat[w], todo[w])

OffIsGone == \A w \in Writers : chat[w].off => ~IsKept(chat[w].id)

\* What is kept shows something, or is about to.
AboutToShow(i) == \E w \in Writers : chat[w].id = i /\ ShownIn(todo[w]) # {}
Shows == failures = 0 => \A i \in ToSet(kept) \ redone : Shown(i) # {} \/ AboutToShow(i)

\* Who else may write to what a chat has open.
Writing(v) == v \in Chats \/ todo[v] # <<>>
SharedAreNoted ==
    \A c \in Chats, v \in Writers :
        (v # c /\ chat[c].id # None /\ chat[v].id = chat[c].id /\ Writing(v)) => chat[c].id \in shared

\* What the app shows is what is saved and what is about to be.
Alike(m, n) == m.role = n.role /\ m.of = n.of /\ m.text = n.text /\ m.ran = n.ran
AllAlike(ms, ns) == Len(ms) = Len(ns) /\ \A k \in DOMAIN ms : Alike(ms[k], ns[k])
Appending(y) == IF y # <<>> /\ y[Len(y)].call = "record" THEN Len(y) - 1 ELSE Len(y)
\* With `from' calls before its appends, these are what is shown after `ms'.
Ending(ms, y, from, ns) ==
    /\ Len(ns) = Len(ms) + Appending(y) - from
    /\ \A k \in DOMAIN ms : Alike(ms[k], ns[k])
    /\ \A k \in (from + 1)..Appending(y) :
          y[k].call = "append" /\ Alike(y[k].m, ns[Len(ms) + k - from])
Agrees(x, y) ==
    IF x.id = None
    THEN IF y = <<>> THEN AllAlike(x.pending, x.shown) ELSE Ending(<<>>, y, 1, x.shown)
    ELSE IsKept(x.id) /\ x.id \notin shared =>
         IF y # <<>> /\ y[1].call = "drop"
         THEN /\ Len(y) = 1 /\ AllAlike(UpToQuestion(messages[x.id]), x.shown)
              /\ RanIn(ToSet(messages[x.id])) \subseteq RanIn(ToSet(UpToQuestion(messages[x.id])))
         ELSE Ending(messages[x.id], y, 0, x.shown)
AgreesOpen == failures = 0 =>
    \A c \in Chats : chat[c].at \in {"idle", "asked"} => Agrees(chat[c], todo[c])

ShowInv == CallsShow /\ OffIsGone /\ Shows /\ SharedAreNoted /\ AgreesOpen

\* No calls, nothing about to be shown.
LEMMA NothingShown == ShownIn(<<>>) = {}
  BY DEF ShownIn

\* No calls, nothing about to be appended.
LEMMA NothingAppended == Appending(<<>>) = 0
<1>1. Len(<<>>) = 0
  OBVIOUS
<1> QED
  BY <1>1 DEF Appending

\* With nothing left to call, what is saved is what is shown.
LEMMA EndingNone ==
    ASSUME NEW ms \in Seq(MessageSet), NEW ns \in Seq(MessageSet)
    PROVE  Ending(ms, <<>>, 0, ns) <=> AllAlike(ms, ns)
<1>1. Len(ms) \in Nat /\ Len(ns) \in Nat
  OBVIOUS
<1>2. (0 + 1)..0 = {}
  OBVIOUS
<1> QED
  BY <1>1, <1>2, NothingAppended DEF Ending, AllAlike

\* A chat agrees still when what it has open is kept no longer, or unchanged.
LEMMA AgreesOn ==
    ASSUME NEW x, NEW y, Agrees(x, y), shared \subseteq shared',
           (x.id # None /\ x.id \in ToSet(kept') /\ x.id \notin shared')
               => x.id \in ToSet(kept) /\ messages'[x.id] = messages[x.id]
    PROVE  Agrees(x, y)'
<1>1. CASE x.id = None
  BY <1>1 DEF Agrees
<1>2. CASE x.id # None /\ ~(x.id \in ToSet(kept') /\ x.id \notin shared')
  BY <1>2 DEF Agrees, IsKept
<1>3. CASE x.id # None /\ x.id \in ToSet(kept') /\ x.id \notin shared'
  <2>1. IsKept(x.id) /\ x.id \notin shared /\ messages'[x.id] = messages[x.id]
    BY <1>3 DEF IsKept
  <2> QED
    BY <1>3, <2>1 DEF Agrees
<1> QED
  BY <1>1, <1>2, <1>3

\* What one handler or call does keeps the invariant when it leaves its own
\* chat in agreement, and what the others have open alone.
LEMMA OneShows ==
    ASSUME ShowInv, NEW w \in Writers, NEW x, NEW y,
           chat' = [chat EXCEPT ![w] = x], todo' = [todo EXCEPT ![w] = y],
           chat \in [Writers -> ChatSet], todo \in [Writers -> Seq(CallSet)],
           shared \subseteq shared', Shows', failures' = 0 => failures = 0, ToShow(x, y),
           x.off => x.id \notin ToSet(kept'),
           \A v \in Writers \ {w} : chat[v].id \in ToSet(kept') => chat[v].id \in ToSet(kept),
           \A v \in Writers \ {w} :
               (x.id # None /\ chat[v].id = x.id /\ (w \in Chats \/ y # <<>>) /\ Writing(v)) => x.id \in shared',
           (failures' = 0 /\ w \in Chats /\ x.at \in {"idle", "asked"}) => Agrees(x, y)',
           \A c \in Chats \ {w} :
               (/\ failures' = 0 /\ chat[c].id # None
                /\ chat[c].id \in ToSet(kept') /\ chat[c].id \notin shared')
               => messages'[chat[c].id] = messages[chat[c].id]
    PROVE  ShowInv'
<1> USE DEF ShowInv
<1>1. /\ chat'[w] = x /\ todo'[w] = y
      /\ \A v \in Writers \ {w} : chat'[v] = chat[v] /\ todo'[v] = todo[v]
  OBVIOUS
<1>2. CallsShow'
  <2> SUFFICES ASSUME NEW v \in Writers PROVE ToShow(chat'[v], todo'[v])
    BY DEF CallsShow
  <2> QED
    BY <1>1 DEF CallsShow
<1>3. OffIsGone'
  <2> SUFFICES ASSUME NEW v \in Writers, chat'[v].off PROVE chat'[v].id \notin ToSet(kept')
    BY DEF OffIsGone, IsKept
  <2> QED
    BY <1>1 DEF OffIsGone, IsKept
<1>4. SharedAreNoted'
  <2> SUFFICES ASSUME NEW c \in Chats, NEW v \in Writers, v # c, chat'[c].id # None, chat'[v].id = chat'[c].id,
                      v \in Chats \/ todo'[v] # <<>>
               PROVE  chat'[c].id \in shared'
    BY DEF SharedAreNoted, Writing
  <2>1. c \in Writers
    BY DEF Writers
  <2>2. CASE c = w
    <3>1. v \in Writers \ {w} /\ Writing(v) /\ chat[v].id = x.id /\ x.id # None
      BY <1>1, <2>2 DEF Writing
    <3> QED
      BY <1>1, <2>2, <3>1
  <2>3. CASE v = w
    <3>1. c \in Writers \ {w} /\ Writing(c) /\ chat[c].id = x.id /\ x.id # None
      BY <1>1, <2>1, <2>3 DEF Writing
    <3>2. w \in Chats \/ y # <<>>
      BY <1>1, <2>3
    <3> QED
      BY <1>1, <3>1, <3>2
  <2>4. CASE c # w /\ v # w
    <3>1. chat[c].id # None /\ chat[v].id = chat[c].id /\ Writing(v)
      BY <1>1, <2>1, <2>4 DEF Writing
    <3> QED
      BY <1>1, <2>1, <2>4, <3>1 DEF SharedAreNoted
  <2> QED
    BY <2>2, <2>3, <2>4
<1>5. AgreesOpen'
  <2> SUFFICES ASSUME failures' = 0, NEW c \in Chats, chat'[c].at \in {"idle", "asked"}
               PROVE  Agrees(chat[c], todo[c])'
    BY DEF AgreesOpen
  <2>1. failures = 0 /\ c \in Writers
    BY DEF Writers
  <2>2. PICK u : u = chat'[c]
    OBVIOUS
  <2>3. PICK z : z = todo'[c]
    OBVIOUS
  <2>4. Agrees(u, z)'
    <3>1. CASE c = w
      <4>1. u = x /\ z = y /\ x.at \in {"idle", "asked"}
        BY <1>1, <2>2, <2>3, <3>1
      <4>2. Agrees(x, y)'
        BY <2>1, <3>1, <4>1
      <4> QED
        BY <4>1, <4>2
    <3>2. CASE c # w
      <4>1. u = chat[c] /\ z = todo[c]
        BY <1>1, <2>1, <2>2, <2>3, <3>2
      <4>2. Agrees(u, z)
        BY <1>1, <2>1, <3>2, <4>1 DEF AgreesOpen
      <4>3. (u.id # None /\ u.id \in ToSet(kept') /\ u.id \notin shared')
               => u.id \in ToSet(kept) /\ messages'[u.id] = messages[u.id]
        BY <2>1, <3>2, <4>1
      <4> QED
        BY <4>2, <4>3, AgreesOn
    <3> QED
      BY <3>1, <3>2
  <2> QED
    BY <2>2, <2>3, <2>4
<1> QED
  BY <1>2, <1>3, <1>4, <1>5

\* A handler that had no call left shows as much.
LEMMA HandlerStillShows ==
    ASSUME ShowInv, NEW w \in Writers, todo[w] = <<>>,
           UNCHANGED <<kept, messages, failures, redone>>,
           \A v \in Writers \ {w} : chat'[v] = chat[v] /\ todo'[v] = todo[v]
    PROVE  Shows'
<1> SUFFICES ASSUME failures' = 0, NEW i \in ToSet(kept') \ redone' PROVE (Shown(i) # {} \/ AboutToShow(i))'
  BY DEF Shows
<1>1. Shown(i) # {} \/ AboutToShow(i)
  BY DEF ShowInv, Shows
<1>2. Shown(i)' = Shown(i)
  BY DEF Shown, Get
<1>3. CASE AboutToShow(i)
  <2>1. PICK v \in Writers : chat[v].id = i /\ ShownIn(todo[v]) # {}
    BY <1>3 DEF AboutToShow
  <2>2. v # w
    BY <2>1, NothingShown
  <2>3. chat'[v].id = i /\ ShownIn(todo'[v]) # {}
    BY <2>1, <2>2
  <2> QED
    BY <2>3 DEF AboutToShow
<1> QED
  BY <1>1, <1>2, <1>3

\* What a handler of a chat leaves shown and to be called.
LEMMA HandlerShows ==
    ASSUME StoreInv, ShowInv, NEW c \in Chats, todo[c] = <<>>, NEW x, NEW y,
           UNCHANGED <<kept, messages, failures, redone>>, shared \subseteq shared',
           chat' = [chat EXCEPT ![c] = x], todo' = [todo EXCEPT ![c] = y],
           ToShow(x, y), x.off => ~IsKept(x.id),
           \/ x.id = None \/ x.id = chat[c].id
           \/ \A v \in Writers \ {c} : (chat[v].id = x.id /\ Writing(v)) => x.id \in shared',
           (failures = 0 /\ x.at \in {"idle", "asked"}) => Agrees(x, y)'
    PROVE  ShowInv'
<1>1. chat \in [Writers -> ChatSet] /\ todo \in [Writers -> Seq(CallSet)] /\ c \in Writers
  BY DEF StoreInv, SavedShape, Writers
<1>2. \A v \in Writers \ {c} : chat'[v] = chat[v] /\ todo'[v] = todo[v]
  BY <1>1
<1>3. Shows'
  BY <1>1, <1>2, HandlerStillShows
<1>4. ASSUME NEW v \in Writers \ {c}, x.id # None, chat[v].id = x.id, Writing(v)
      PROVE  x.id \in shared'
  <2>1. CASE x.id = chat[c].id
    BY <1>4, <2>1 DEF ShowInv, SharedAreNoted
  <2>2. CASE \A u \in Writers \ {c} : (chat[u].id = x.id /\ Writing(u)) => x.id \in shared'
    BY <1>4, <2>2
  <2> QED
    BY <1>4, <2>1, <2>2
<1>5. x.off => x.id \notin ToSet(kept')
  BY DEF IsKept
<1>6. /\ \A v \in Writers \ {c} : chat[v].id \in ToSet(kept') => chat[v].id \in ToSet(kept)
      /\ \A d \in Chats \ {c} : messages'[chat[d].id] = messages[chat[d].id]
      /\ failures' = 0 => failures = 0
  OBVIOUS
<1> QED
  BY <1>1, <1>3, <1>4, <1>5, <1>6, OneShows

\* What is kept is a conversation.
LEMMA KeptIsOne ==
    ASSUME StoreInv, NEW i \in ToSet(kept)
    PROVE  i \in Ids /\ i # None /\ messages[i] \in Seq(MessageSet)
<1>1. i \in 1..ids /\ ids \in Nat /\ ids =< MaxConversations /\ MaxConversations \in Nat
  BY SavedConstants DEF StoreInv, KeptOnce, SavedShape
<1>2. i \in Ids /\ i # None
  BY <1>1 DEF Ids, None
<1> QED
  BY <1>2 DEF StoreInv, SavedShape

\* When a chat that has its conversation agrees with what is saved.
LEMMA SavedAgrees ==
    ASSUME NEW x, NEW y, x.id # None, y # <<>> => y[1].call # "drop",
           (x.id \in ToSet(kept') /\ x.id \notin shared') => Ending(messages'[x.id], y, 0, x.shown)
    PROVE  Agrees(x, y)'
<1>1. ~(y # <<>> /\ y[1].call = "drop")
  OBVIOUS
<1>2. CASE ~(x.id \in ToSet(kept') /\ x.id \notin shared')
  BY <1>2 DEF Agrees, IsKept
<1>3. CASE Ending(messages'[x.id], y, 0, x.shown)
  BY <1>1, <1>3 DEF Agrees
<1> QED
  BY <1>2, <1>3

\* Opening a chat keeps what shows.
LEMMA OpensShows ==
    ASSUME StoreInv, ShowInv, NEW c \in Chats, Opens(c)
    PROVE  ShowInv'
<1>1. /\ todo[c] = <<>> /\ UNCHANGED <<kept, messages, failures, redone>> /\ todo \in [Writers -> Seq(CallSet)]
      /\ todo' = [todo EXCEPT ![c] = <<>>] /\ c \in Writers
  BY DEF Opens, Writers, StoreInv, SavedShape, ClosedIsQuiet, storeVars
<1>2. CASE \E context \in BOOLEAN : /\ chat' = [chat EXCEPT ![c] = [Closed EXCEPT !.at = "idle", !.context = context]]
                                    /\ UNCHANGED shared
  <2>1. PICK context \in BOOLEAN : /\ chat' = [chat EXCEPT ![c] = [Closed EXCEPT !.at = "idle", !.context = context]]
                                   /\ UNCHANGED shared
    BY <1>2
  <2>10. PICK x : x = [Closed EXCEPT !.at = "idle", !.context = context]
    OBVIOUS
  <2>2. x.id = None /\ x.pending = <<>> /\ x.shown = <<>> /\ x.at = "idle" /\ ~x.off
    BY <2>10 DEF Closed
  <2>3. chat' = [chat EXCEPT ![c] = x]
    BY <2>1, <2>10
  <2>4. ToShow(x, <<>>)
    BY <2>2 DEF ToShow
  <2>5. Agrees(x, <<>>)'
    BY <2>2 DEF Agrees, AllAlike
  <2>6. shared \subseteq shared'
    BY <2>1
  <2> QED
    BY <1>1, <2>2, <2>3, <2>4, <2>5, <2>6, HandlerShows
<1>3. CASE \E i \in Listed : /\ chat' = [chat EXCEPT ![c] = [Closed EXCEPT !.at = "idle", !.id = i, !.shown = Get(i)]]
                             /\ shared' = IF todo[Briefing] # <<>> \/ \E w \in Chats : Holds(w, i) THEN shared \cup {i} ELSE shared
  <2>1. PICK i \in Listed : /\ chat' = [chat EXCEPT ![c] = [Closed EXCEPT !.at = "idle", !.id = i, !.shown = Get(i)]]
                            /\ shared' = IF todo[Briefing] # <<>> \/ \E w \in Chats : Holds(w, i) THEN shared \cup {i} ELSE shared
    BY <1>3
  <2>11. PICK x : x = [Closed EXCEPT !.at = "idle", !.id = i, !.shown = Get(i)]
    OBVIOUS
  <2>2. x.id = i /\ x.pending = <<>> /\ x.shown = messages[i] /\ x.at = "idle" /\ ~x.off
    BY <2>11 DEF Closed, Get
  <2>3. chat' = [chat EXCEPT ![c] = x]
    BY <2>1, <2>11
  <2>4. ToShow(x, <<>>)
    BY <2>2 DEF ToShow
  <2>5. i \in Ids /\ i # None /\ messages[i] \in Seq(MessageSet)
    <3>1. i \in 1..ids /\ ids \in Nat /\ ids =< MaxConversations /\ MaxConversations \in Nat
      BY SavedConstants DEF Listed, StoreInv, KeptOnce, SavedShape
    <3>2. i \in Ids /\ i # None
      BY <3>1 DEF Ids, None
    <3> QED
      BY <3>2 DEF StoreInv, SavedShape
  <2>6. Agrees(x, <<>>)'
    <3>1. AllAlike(messages[i], messages[i])
      BY DEF AllAlike, Alike
    <3>2. Ending(messages[i], <<>>, 0, messages[i])
      BY <2>5, <3>1, EndingNone
    <3>3. messages'[x.id] = messages[i] /\ x.shown = messages[i]
      BY <1>1, <2>2
    <3>4. Ending(messages'[x.id], <<>>, 0, x.shown)
      BY <3>2, <3>3
    <3>5. x.id # None
      BY <2>2, <2>5
    <3> QED
      BY <3>4, <3>5, SavedAgrees
  <2>7. shared \subseteq shared'
    BY <2>1
  <2>8. ASSUME NEW v \in Writers \ {c}, chat[v].id = x.id, Writing(v) PROVE x.id \in shared'
    <3>1. CASE v \in Chats
      <4>1. chat[v].at # "closed"
        BY <2>2, <2>5, <2>8, <3>1 DEF StoreInv, ClosedIsQuiet
      <4>2. Holds(v, i)
        BY <2>2, <2>8, <4>1 DEF Holds
      <4> QED
        BY <2>1, <2>2, <3>1, <4>2
    <3>2. CASE v \notin Chats
      <4>1. v = Briefing /\ todo[Briefing] # <<>>
        BY <2>8, <3>2 DEF Writers, Writing
      <4> QED
        BY <2>1, <2>2, <4>1
    <3> QED
      BY <3>1, <3>2
  <2>9. \A v \in Writers \ {c} : (chat[v].id = x.id /\ Writing(v)) => x.id \in shared'
    BY <2>8
  <2>10. x.off => ~IsKept(x.id)
    BY <2>2
  <2> HIDE DEF IsKept
  <2> QED
    BY <1>1, <2>3, <2>4, <2>6, <2>7, <2>9, <2>10, HandlerShows
<1>4. \/ \E context \in BOOLEAN : /\ chat' = [chat EXCEPT ![c] = [Closed EXCEPT !.at = "idle", !.context = context]]
                                  /\ UNCHANGED shared
      \/ \E i \in Listed : /\ chat' = [chat EXCEPT ![c] = [Closed EXCEPT !.at = "idle", !.id = i, !.shown = Get(i)]]
                           /\ shared' = IF todo[Briefing] # <<>> \/ \E w \in Chats : Holds(w, i) THEN shared \cup {i} ELSE shared
  BY Zenon DEF Opens
<1> QED
  BY <1>2, <1>3, <1>4

\* Leaving a chat keeps what shows.
LEMMA LeavesShows ==
    ASSUME StoreInv, ShowInv, NEW c \in Chats, Leaves(c)
    PROVE  ShowInv'
<1>1. /\ todo[c] = <<>> /\ UNCHANGED <<kept, messages, failures, redone, shared>>
      /\ todo \in [Writers -> Seq(CallSet)] /\ c \in Writers
      /\ todo' = [todo EXCEPT ![c] = <<>>] /\ chat' = [chat EXCEPT ![c] = Closed]
  BY DEF Leaves, Writers, StoreInv, SavedShape, storeVars
<1>2. ToShow(Closed, <<>>)
  BY ClosedIsAChat DEF ToShow
<1>3. shared \subseteq shared'
  BY <1>1
<1> QED
  BY <1>1, <1>2, <1>3, ClosedIsAChat, HandlerShows

\* One message more, on both sides.
LEMMA OneMoreAlike ==
    ASSUME NEW ms \in Seq(MessageSet), NEW ns \in Seq(MessageSet), AllAlike(ms, ns),
           NEW m \in MessageSet, NEW n \in MessageSet, Alike(m, n)
    PROVE  AllAlike(Append(ms, m), Append(ns, n))
<1> DEFINE a == Append(ms, m)
           b == Append(ns, n)
<1>1. /\ Len(ms) \in Nat /\ Len(ns) = Len(ms) /\ Len(a) = Len(ms) + 1 /\ Len(b) = Len(ms) + 1
      /\ DOMAIN a = 1..(Len(ms) + 1) /\ a[Len(ms) + 1] = m /\ b[Len(ms) + 1] = n
      /\ \A k \in 1..Len(ms) : a[k] = ms[k] /\ b[k] = ns[k] /\ Alike(ms[k], ns[k])
  BY DEF AllAlike
<1> HIDE DEF a, b
<1>2. ASSUME NEW k \in DOMAIN a PROVE Alike(a[k], b[k])
  BY <1>1
<1> QED
  BY <1>1, <1>2 DEF AllAlike, a, b

\* What is to be appended to what is saved is the last of what is shown.
LEMMA OneToAppend ==
    ASSUME NEW ms \in Seq(MessageSet), NEW ns \in Seq(MessageSet), AllAlike(ms, ns),
           NEW m \in MessageSet, NEW y, y # <<>>, y[1] = AppendOf(m),
           DOMAIN y = {1} \/ (DOMAIN y = 1..2 /\ y[2] = Record), y \in Seq(CallSet)
    PROVE  Ending(ms, y, 0, Append(ns, m))
<1> DEFINE b == Append(ns, m)
<1>1. /\ Len(ms) \in Nat /\ DOMAIN ms = 1..Len(ms) /\ Len(b) = Len(ms) + 1 /\ b[Len(ms) + 1] = m
      /\ \A k \in 1..Len(ms) : b[k] = ns[k] /\ Alike(ms[k], ns[k])
  BY DEF AllAlike
<1>2. y[1].call = "append" /\ y[1].m = m /\ Alike(m, m)
  BY CallsOfTheStore DEF Alike
<1>3. Appending(y) = 1
  <2>1. CASE DOMAIN y = {1}
    <3>1. Len(y) = 1
      BY <2>1
    <3> QED
      BY <1>2, <3>1 DEF Appending
  <2>2. CASE DOMAIN y = 1..2 /\ y[2] = Record
    <3>1. Len(y) = 2
      BY <2>2
    <3>2. y[Len(y)].call = "record"
      BY <2>2, <3>1, CallsOfTheStore
    <3> QED
      BY <3>1, <3>2 DEF Appending
  <2> QED
    BY <2>1, <2>2
<1> HIDE DEF b
<1>4. ASSUME NEW k \in (0 + 1)..1
      PROVE  y[k].call = "append" /\ Alike(y[k].m, b[Len(ms) + k - 0])
  <2>1. k = 1 /\ Len(ms) + k - 0 = Len(ms) + 1
    BY <1>1
  <2> QED
    BY <1>1, <1>2, <2>1
<1>5. Len(b) = Len(ms) + 1 - 0
  BY <1>1
<1> QED
  BY <1>1, <1>3, <1>4, <1>5 DEF Ending, b

\* What starts a conversation with its first message.
LEMMA StartedWithOne ==
    ASSUME NEW f \in MessageSet, NEW m \in MessageSet, Alike(f, m),
           NEW y \in Seq(CallSet), DOMAIN y = 1..2, y # <<>>, y[2] = AppendOf(f)
    PROVE  Ending(<<>>, y, 1, <<m>>)
<1>1. Len(y) = 2 /\ y[2].call = "append" /\ y[2].m = f
  BY CallsOfTheStore
<1>2. Appending(y) = 2
  BY <1>1 DEF Appending
<1> DEFINE b == <<m>>
<1>3. Len(b) = 1 /\ b[1] = m /\ Len(<<>>) = 0 /\ DOMAIN <<>> = {}
  OBVIOUS
<1> HIDE DEF b
<1>4. ASSUME NEW k \in (1 + 1)..2
      PROVE  y[k].call = "append" /\ Alike(y[k].m, b[0 + k - 1])
  <2>1. k = 2 /\ 0 + k - 1 = 1
    OBVIOUS
  <2> QED
    BY <1>1, <1>3, <2>1
<1>5. Len(b) = 0 + 2 - 1
  BY <1>3
<1> QED
  BY <1>2, <1>3, <1>4, <1>5 DEF Ending, b

\* Asking keeps what shows.
LEMMA AsksShows ==
    ASSUME StoreInv, ShowInv, NEW c \in Chats, Asks(c)
    PROVE  ShowInv'
<1> DEFINE m == Question(asked + 1)
           h == [m EXCEPT !.hidden = IsContext(c)]
           f == [m EXCEPT !.hidden = chat[c].context]
           waits == Active(c) /\ chat[c].id = None /\ WaitsForReply(c)
           to == [chat[c] EXCEPT !.at = "asked", !.shown = Append(@, m),
                                 !.pending = IF waits THEN Append(@, h) ELSE @]
           calls == Said(c, m)
           was == chat[c].shown
           pending == chat[c].pending
<1>1. /\ c \in Writers /\ chat[c] \in ChatSet /\ asked \in Nat /\ todo[c] = <<>> /\ chat[c].at = "idle"
      /\ was \in Seq(MessageSet) /\ pending \in Seq(MessageSet)
  BY DEF Asks, AtRest, Writers, StoreInv, SavedShape, ChatSet
<1>14. PICK x : x = to
  OBVIOUS
<1>15. PICK y : y = calls
  OBVIOUS
<1>2. /\ todo' = [todo EXCEPT ![c] = y] /\ UNCHANGED <<kept, messages, failures, redone, shared>>
      /\ chat' = [chat EXCEPT ![c] = x]
  BY <1>1, <1>14, <1>15 DEF Asks, StoreInv, SavedShape, storeVars
<1>3. /\ m \in MessageSet /\ h \in MessageSet /\ f \in MessageSet /\ f.hidden = chat[c].context
      /\ Alike(h, m) /\ Alike(f, m)
  <2>1. asked + 1 \in Nat /\ chat[c].context \in BOOLEAN
    BY <1>1 DEF ChatSet
  <2>2. (h = [m EXCEPT !.hidden = TRUE]) \/ h = [m EXCEPT !.hidden = FALSE]
    BY DEF IsContext
  <2>3. m \in MessageSet /\ h \in MessageSet /\ f \in MessageSet /\ f.hidden = chat[c].context
    BY <2>1, <2>2, QuestionIsAMessage
  <2>4. /\ h.role = m.role /\ h.of = m.of /\ h.text = m.text /\ h.ran = m.ran
        /\ f.role = m.role /\ f.of = m.of /\ f.text = m.text /\ f.ran = m.ran
    BY DEF Question, Message
  <2> QED
    BY <2>3, <2>4 DEF Alike
<1> HIDE DEF m, h, f
<1>4. /\ x.at = "asked" /\ x.id = chat[c].id /\ x.context = chat[c].context /\ x.off = chat[c].off
      /\ x.pending = (IF waits THEN Append(pending, h) ELSE pending)
      /\ x.shown = Append(was, m)
  BY <1>1, <1>14 DEF ChatSet
<1>5. y = <<>> \/ (y = <<AppendOf(m)>> /\ chat[c].id # None)
      \/ (y = <<Start("first words"), AppendOf(f)>> /\ chat[c].id = None /\ ~WaitsForReply(c) /\ ~f.hidden)
  BY <1>3, <1>15 DEF Said, WaitsForReply, f
<1>6. /\ chat[c].id = None /\ Active(c) /\ WaitsForReply(c) => y = <<>>
      /\ chat[c].id = None /\ Active(c) /\ ~WaitsForReply(c) => y = <<Start("first words"), AppendOf(f)>>
      /\ chat[c].id # None => y = IF Active(c) THEN <<AppendOf(m)>> ELSE <<>>
  BY <1>15 DEF Said, WaitsForReply, f
<1> HIDE DEF to, calls
<1>7. y = <<Start("first words"), AppendOf(f)>> =>
         y \in Seq(CallSet) /\ DOMAIN y = 1..2 /\ y[2] = AppendOf(f) /\ y # <<>>
  <2> DEFINE a == Start("first words")
             b == AppendOf(f)
  <2>1. a \in CallSet /\ b \in CallSet
    BY <1>3, CallsOfTheStore DEF Titles
  <2> HIDE DEF a, b
  <2>2. y = <<a, b>> => y \in Seq(CallSet) /\ DOMAIN y = 1..2 /\ y[2] = b /\ y # <<>>
    BY <2>1, PairOf
  <2> QED
    BY <2>2 DEF a, b
<1>8. y = <<AppendOf(m)>> => y \in Seq(CallSet) /\ DOMAIN y = {1} /\ y[1] = AppendOf(m) /\ y # <<>>
  <2> DEFINE a == AppendOf(m)
  <2>1. a \in CallSet
    BY <1>3, CallsOfTheStore
  <2> HIDE DEF a
  <2>2. y = <<a>> => y \in Seq(CallSet) /\ DOMAIN y = {1} /\ y[1] = a /\ y # <<>>
    BY <2>1, OneOf
  <2> QED
    BY <2>2 DEF a
<1>9. ToShow(chat[c], todo[c])
  BY <1>1 DEF ShowInv, CallsShow
<1>10. ToShow(x, y)
  <2>1. (y # <<>> /\ y[1].call = "start") => ShownIn(y) # {}
    <3>1. CASE y = <<>>
      BY <3>1
    <3>2. CASE y = <<AppendOf(m)>>
      BY <1>3, <1>8, <3>2, CallsOfTheStore
    <3>3. CASE y = <<Start("first words"), AppendOf(f)>> /\ ~f.hidden
      <4>1. 2 \in DOMAIN y /\ y[2].call = "append" /\ ~y[2].m.hidden
        <5>1. DOMAIN y = 1..2 /\ y[2] = AppendOf(f)
          BY <1>7, <3>3
        <5>2. AppendOf(f).call = "append" /\ AppendOf(f).m = f
          BY <1>3, CallsOfTheStore
        <5>3. ~f.hidden
          BY <3>3, Zenon
        <5>4. 2 \in DOMAIN y
          BY <5>1
        <5> QED
          BY <5>1, <5>2, <5>3, <5>4
      <4> QED
        BY <4>1 DEF ShownIn
    <3> QED
      BY <1>5, <3>1, <3>2, <3>3
  <2>2. x.shown # <<>>
    BY <1>1, <1>3, <1>4
  <2>3. x.off => x.id # None
    BY <1>4, <1>9 DEF ToShow
  <2>4. x.pending # <<>> => x.context /\ x.id = None
    BY <1>4, <1>9 DEF ToShow, WaitsForReply
  <2> QED
    BY <2>1, <2>2, <2>3, <2>4 DEF ToShow
<1>11. x.off => ~IsKept(x.id)
  BY <1>1, <1>4 DEF ShowInv, OffIsGone
<1>12. ASSUME failures = 0 PROVE Agrees(x, y)'
  <2>1. Agrees(chat[c], <<>>)
    BY <1>1, <1>12 DEF ShowInv, AgreesOpen
  <2>2. CASE chat[c].id = None
    <3>1. Active(c) /\ AllAlike(pending, was)
      BY <1>9, <2>1, <2>2 DEF Active, ToShow, Agrees
    <3>2. CASE WaitsForReply(c)
      <4>1. y = <<>> /\ x.pending = Append(pending, h)
        BY <1>4, <1>6, <2>2, <3>1, <3>2
      <4>2. AllAlike(Append(pending, h), Append(was, m))
        BY <1>1, <1>3, <3>1, OneMoreAlike
      <4>3. AllAlike(x.pending, x.shown)
        BY <1>4, <4>1, <4>2
      <4> QED
        BY <1>4, <2>2, <4>1, <4>3 DEF Agrees
    <3>3. CASE ~WaitsForReply(c)
      <4>1. y = <<Start("first words"), AppendOf(f)>>
        BY <1>6, <2>2, <3>1, <3>3
      <4>2. pending = <<>>
        BY <1>9, <3>3 DEF ToShow, WaitsForReply
      <4>3. was = <<>>
        BY <1>1, <3>1, <4>2 DEF AllAlike
      <4>4. x.shown = <<m>>
        BY <1>3, <1>4, <4>3
      <4>5. Ending(<<>>, y, 1, <<m>>)
        <5>1. y \in Seq(CallSet) /\ DOMAIN y = 1..2 /\ y[2] = AppendOf(f) /\ y # <<>>
          BY <1>7, <4>1
        <5> HIDE DEF was, pending, waits
        <5> QED
          BY <1>3, <5>1, StartedWithOne
      <4> QED
        BY <1>4, <1>7, <2>2, <4>1, <4>4, <4>5 DEF Agrees
    <3> QED
      BY <3>2, <3>3
  <2>3. CASE chat[c].id # None /\ ~Active(c)
    <3>1. ~IsKept(x.id)
      BY <1>4, <1>11, <2>3 DEF Active
    <3>2. y = <<>>
      BY <1>6, <2>3
    <3>3. x.id \notin ToSet(kept') /\ x.id # None
      BY <1>2, <1>4, <2>3, <3>1 DEF IsKept
    <3> QED
      BY <3>2, <3>3, SavedAgrees
  <2>4. CASE chat[c].id # None /\ Active(c)
    <3>1. y = <<AppendOf(m)>> /\ x.id # None /\ y # <<>> /\ y[1].call = "append"
      BY <1>3, <1>4, <1>6, <1>8, <2>4, CallsOfTheStore
    <3>2. ASSUME x.id \in ToSet(kept'), x.id \notin shared'
          PROVE  Ending(messages'[x.id], y, 0, x.shown)
      <4>1. PICK ms : ms = messages[chat[c].id]
        OBVIOUS
      <4>2. ms \in Seq(MessageSet)
        BY <1>1, <1>2, <1>4, <3>2, <4>1, KeptIsOne
      <4>3. Ending(ms, <<>>, 0, was)
        BY <1>2, <1>4, <2>1, <3>1, <3>2, <4>1 DEF Agrees, IsKept
      <4>4. AllAlike(ms, was)
        BY <1>1, <4>2, <4>3, EndingNone
      <4>5. Alike(m, m)
        BY DEF Alike
      <4>6. y \in Seq(CallSet) /\ DOMAIN y = {1} /\ y[1] = AppendOf(m) /\ y # <<>>
        BY <1>8, <3>1
      <4>7. Ending(ms, y, 0, Append(was, m))
        <5> HIDE DEF was, pending, waits
        <5> QED
          BY <1>1, <1>3, <4>2, <4>4, <4>6, OneToAppend
      <4> QED
        BY <1>2, <1>4, <4>1, <4>7
    <3>3. y # <<>> => y[1].call # "drop"
      BY <3>1
    <3> QED
      BY <3>1, <3>2, <3>3, SavedAgrees
  <2> QED
    BY <2>2, <2>3, <2>4
<1>13. shared \subseteq shared'
  BY <1>2
<1> HIDE DEF IsKept
<1> QED
  BY <1>1, <1>2, <1>4, <1>10, <1>11, <1>12, <1>13, HandlerShows

\* Alike up to the last question when alike.
LEMMA UpToQuestionAlike ==
    ASSUME NEW ms \in Seq(MessageSet), NEW ns \in Seq(MessageSet), AllAlike(ms, ns)
    PROVE  AllAlike(UpToQuestion(ms), UpToQuestion(ns))
<1> DEFINE i == LastQuestion(ms)
           j == LastQuestion(ns)
           a == UpToQuestion(ms)
           b == UpToQuestion(ns)
<1>1. /\ i \in 0..Len(ms) /\ a \in Seq(MessageSet) /\ Len(a) = i
      /\ \A k \in 1..i : a[k] = ms[k]
      /\ i # 0 => ms[i].role = "user"
      /\ \A k \in DOMAIN ms : ms[k].role = "user" => k =< i
  BY UpToQuestionOf
<1>2. /\ j \in 0..Len(ns) /\ b \in Seq(MessageSet) /\ Len(b) = j
      /\ \A k \in 1..j : b[k] = ns[k]
      /\ j # 0 => ns[j].role = "user"
      /\ \A k \in DOMAIN ns : ns[k].role = "user" => k =< j
  BY UpToQuestionOf
<1> HIDE DEF i, j, a, b
<1>3. PICK n \in Nat : n = Len(ms) /\ n = Len(ns) /\ DOMAIN ms = 1..n /\ DOMAIN ns = 1..n
  BY DEF AllAlike
<1>4. \A k \in 1..n : Alike(ms[k], ns[k])
  BY <1>3 DEF AllAlike
<1>5. \A k \in 1..n : ms[k].role = ns[k].role
  BY <1>4 DEF Alike
<1>6. i \in 0..n /\ j \in 0..n
  BY <1>1, <1>2, <1>3
<1>7. i =< j
  <2>1. CASE i = 0
    BY <1>3, <1>6, <2>1
  <2>2. CASE i # 0
    <3>1. i \in 1..n
      BY <1>3, <1>6, <2>2
    <3>2. ns[i].role = "user"
      BY <1>1, <1>5, <2>2, <3>1
    <3> QED
      BY <1>2, <1>3, <3>1, <3>2
  <2> QED
    BY <2>1, <2>2
<1>8. j =< i
  <2>1. CASE j = 0
    BY <1>3, <1>6, <2>1
  <2>2. CASE j # 0
    <3>1. j \in 1..n
      BY <1>3, <1>6, <2>2
    <3>2. ms[j].role = "user"
      BY <1>2, <1>5, <2>2, <3>1
    <3> QED
      BY <1>1, <1>3, <3>1, <3>2
  <2> QED
    BY <2>1, <2>2
<1>9. i = j /\ \A k \in 1..i : k \in 1..n
  BY <1>3, <1>6, <1>7, <1>8
<1>10. ASSUME NEW k \in DOMAIN a PROVE Alike(a[k], b[k])
  <2>1. k \in 1..i
    BY <1>1
  <2> QED
    BY <1>1, <1>2, <1>4, <1>9, <2>1
<1>11. Len(a) = Len(b)
  BY <1>1, <1>2, <1>9
<1> QED
  BY <1>10, <1>11 DEF AllAlike, a, b

\* A transcript of questions ends with one.
LEMMA OnlyQuestions ==
    ASSUME NEW ms \in Seq(MessageSet), NEW ns \in Seq(MessageSet), AllAlike(ms, ns),
           \A k \in DOMAIN ms : ms[k].role = "user"
    PROVE  AllAlike(ms, UpToQuestion(ns))
<1> DEFINE b == UpToQuestion(ns)
<1>1. /\ LastQuestion(ns) \in 0..Len(ns) /\ Len(b) = LastQuestion(ns)
      /\ \A k \in 1..LastQuestion(ns) : b[k] = ns[k]
      /\ \A k \in DOMAIN ns : ns[k].role = "user" => k =< LastQuestion(ns)
  BY UpToQuestionOf
<1> HIDE DEF b
<1>2. PICK j : j = LastQuestion(ns)
  OBVIOUS
<1>3. PICK n \in Nat : n = Len(ms) /\ n = Len(ns) /\ DOMAIN ms = 1..n /\ DOMAIN ns = 1..n
  BY DEF AllAlike
<1>4. \A k \in 1..n : Alike(ms[k], ns[k]) /\ ns[k].role = "user"
  BY <1>3 DEF AllAlike, Alike
<1>5. j \in 0..n /\ \A k \in 1..n : k =< j
  BY <1>1, <1>2, <1>3, <1>4
<1>6. j = n
  <2>1. CASE n = 0
    BY <1>5, <2>1
  <2>2. CASE n # 0
    <3>1. n \in 1..n
      BY <1>3, <2>2
    <3> QED
      BY <1>3, <1>5, <3>1
  <2> QED
    BY <2>1, <2>2
<1>7. Len(b) = n /\ \A k \in 1..n : b[k] = ns[k]
  BY <1>1, <1>2, <1>6
<1> QED
  BY <1>3, <1>4, <1>7 DEF AllAlike, b

\* Where nothing shown after the last question ran, nothing saved after it did.
LEMMA NoneRanSince ==
    ASSUME NEW ms \in Seq(MessageSet), NEW ns \in Seq(MessageSet), AllAlike(ms, ns),
           ~AnyRan(SubSeq(ns, LastQuestion(ns) + 1, Len(ns)))
    PROVE  RanIn(ToSet(ms)) \subseteq RanIn(ToSet(UpToQuestion(ms)))
<1> DEFINE i == LastQuestion(ms)
           j == LastQuestion(ns)
           a == UpToQuestion(ms)
           rest == SubSeq(ns, j + 1, Len(ns))
<1>1. /\ i \in 0..Len(ms) /\ a \in Seq(MessageSet) /\ Len(a) = i
      /\ \A k \in 1..i : a[k] = ms[k]
  BY UpToQuestionOf
<1>2. j \in 0..Len(ns) /\ Len(UpToQuestion(ns)) = j
  BY UpToQuestionOf
<1>3. j = i
  <2>1. AllAlike(a, UpToQuestion(ns))
    BY UpToQuestionAlike
  <2> HIDE DEF i, j, a
  <2> QED
    BY <1>1, <1>2, <2>1 DEF AllAlike
<1>4. \A k \in DOMAIN rest : ~rest[k].ran
  BY DEF AnyRan
<1>5. /\ Len(ms) = Len(ns) /\ Len(ms) \in Nat /\ DOMAIN ms = 1..Len(ms)
      /\ \A k \in DOMAIN ms : ms[k].ran = ns[k].ran
  BY DEF AllAlike, Alike
<1>6. \A k \in 1..(Len(ns) - j) : k \in DOMAIN rest /\ rest[k] = ns[j + k]
  <2> HIDE DEF i, a, j
  <2> QED
    BY <1>2, <1>5
<1> HIDE DEF i, j, a, rest
<1>7. ASSUME NEW k \in DOMAIN ms, ms[k].ran PROVE k \in DOMAIN a /\ a[k] = ms[k]
  <2>1. CASE k =< i
    BY <1>1, <1>5, <2>1
  <2>2. CASE ~(k =< i)
    <3>1. k - j \in 1..(Len(ns) - j) /\ j + (k - j) = k
      BY <1>1, <1>3, <1>5, <2>2
    <3>2. ~ns[k].ran
      BY <1>4, <1>6, <3>1
    <3> QED
      BY <1>5, <1>7, <3>2
  <2> QED
    BY <2>1, <2>2
<1>8. \A m \in ToSet(ms) : m.ran => m \in ToSet(a)
  BY <1>7 DEF ToSet
<1> QED
  BY <1>8 DEF RanIn, a

\* A retry keeps what shows.
LEMMA RetriesShows ==
    ASSUME StoreInv, ShowInv, NEW c \in Chats, Retries(c)
    PROVE  ShowInv'
<1> DEFINE to == [chat[c] EXCEPT !.at = "asked", !.shown = UpToQuestion(@)]
           calls == IF Active(c) /\ chat[c].id # None THEN <<Drop>> ELSE <<>>
           was == chat[c].shown
           pending == chat[c].pending
<1>1. /\ c \in Writers /\ chat[c] \in ChatSet /\ todo[c] = <<>> /\ chat[c].at = "idle" /\ LastQuestion(was) # 0
      /\ was \in Seq(MessageSet) /\ pending \in Seq(MessageSet)
  BY DEF Retries, AtRest, Writers, StoreInv, SavedShape, ChatSet
<1>13. PICK x : x = to
  OBVIOUS
<1>14. PICK y : y = calls
  OBVIOUS
<1>2. /\ todo' = [todo EXCEPT ![c] = y] /\ UNCHANGED <<kept, messages, failures, redone, shared>>
      /\ chat' = [chat EXCEPT ![c] = x]
  BY <1>1, <1>13, <1>14 DEF Retries, StoreInv, SavedShape, storeVars
<1>3. /\ x.at = "asked" /\ x.id = chat[c].id /\ x.context = chat[c].context /\ x.off = chat[c].off
      /\ x.pending = pending /\ x.shown = UpToQuestion(was)
  BY <1>1, <1>13 DEF ChatSet
<1>4. UpToQuestion(was) # <<>>
  <2>1. Len(UpToQuestion(was)) = LastQuestion(was)
    BY <1>1, UpToQuestionOf
  <2> HIDE DEF was
  <2> QED
    BY <1>1, <2>1
<1>5. y = <<>> \/ (y = <<Drop>> /\ chat[c].id # None /\ Active(c))
  BY <1>14
<1>6. (chat[c].id # None /\ Active(c)) \/ y = <<>>
  BY <1>14
<1> HIDE DEF to
<1>7. y = <<Drop>> => y # <<>> /\ Len(y) = 1 /\ y[1].call = "drop" /\ y \in Seq(CallSet)
  <2> DEFINE a == Drop
  <2>1. a \in CallSet /\ a.call = "drop"
    BY CallsOfTheStore
  <2> HIDE DEF a
  <2>2. y = <<a>> => y \in Seq(CallSet) /\ DOMAIN y = {1} /\ y[1] = a /\ y # <<>> /\ Len(y) = 1
    BY <2>1, OneOf
  <2> QED
    BY <2>1, <2>2 DEF a
<1>8. ToShow(chat[c], todo[c])
  BY <1>1 DEF ShowInv, CallsShow
<1>9. ToShow(x, y)
  <2>1. ~(y # <<>> /\ y[1].call = "start")
    BY <1>5, <1>7
  <2>2. x.shown # <<>>
    BY <1>3, <1>4
  <2> QED
    BY <1>3, <1>8, <2>1, <2>2 DEF ToShow
<1>10. x.off => ~IsKept(x.id)
  BY <1>1, <1>3 DEF ShowInv, OffIsGone
<1>11. ASSUME failures = 0 PROVE Agrees(x, y)'
  <2>1. Agrees(chat[c], <<>>)
    BY <1>1, <1>11 DEF ShowInv, AgreesOpen
  <2>2. CASE chat[c].id = None
    <3>1. AllAlike(pending, was) /\ y = <<>>
      BY <1>5, <2>1, <2>2 DEF Agrees
    <3>2. \A k \in DOMAIN pending : pending[k].role = "user"
      BY <1>1 DEF StoreInv, CallsAreRight, RightCalls, OneToHide
    <3>3. AllAlike(pending, UpToQuestion(was))
      BY <1>1, <3>1, <3>2, OnlyQuestions
    <3>4. AllAlike(x.pending, x.shown)
      BY <1>3, <3>3
    <3> QED
      BY <1>3, <2>2, <3>1, <3>4 DEF Agrees
  <2>3. CASE chat[c].id # None /\ ~(x.id \in ToSet(kept') /\ x.id \notin shared')
    BY <1>3, <2>3 DEF Agrees, IsKept
  <2>4. CASE chat[c].id # None /\ x.id \in ToSet(kept') /\ x.id \notin shared'
    <3>1. y = <<Drop>>
      BY <1>2, <1>3, <1>10, <1>14, <2>4 DEF Active, IsKept
    <3>2. PICK ms : ms = messages[chat[c].id]
      OBVIOUS
    <3>3. ms \in Seq(MessageSet)
      BY <1>2, <1>3, <2>4, <3>2, KeptIsOne
    <3>4. Ending(ms, <<>>, 0, was)
      BY <1>2, <1>3, <2>1, <2>4, <3>2 DEF Agrees, IsKept
    <3>5. AllAlike(ms, was)
      BY <1>1, <3>3, <3>4, EndingNone
    <3>6. AllAlike(UpToQuestion(ms), UpToQuestion(was))
      BY <1>1, <3>3, <3>5, UpToQuestionAlike
    <3>7. AllAlike(UpToQuestion(messages'[x.id]), x.shown)
      BY <1>2, <1>3, <3>2, <3>6
    <3>8. RanIn(ToSet(ms)) \subseteq RanIn(ToSet(UpToQuestion(ms)))
      <4>1. ~AnyRan(SubSeq(was, LastQuestion(was) + 1, Len(was)))
        BY DEF Retries
      <4> QED
        BY <1>1, <3>3, <3>5, <4>1, NoneRanSince
    <3>9. RanIn(ToSet(messages'[x.id])) \subseteq RanIn(ToSet(UpToQuestion(messages'[x.id])))
      BY <1>2, <1>3, <3>2, <3>8
    <3> QED
      BY <1>3, <1>7, <2>4, <3>1, <3>7, <3>9 DEF Agrees
  <2> QED
    BY <2>2, <2>3, <2>4
<1>12. shared \subseteq shared'
  BY <1>2
<1> HIDE DEF IsKept
<1> QED
  BY <1>1, <1>2, <1>3, <1>9, <1>10, <1>11, <1>12, HandlerShows

\* A turn recorded appends nothing.
LEMMA OnlyRecords ==
    ASSUME NEW ms \in Seq(MessageSet), NEW ns \in Seq(MessageSet), NEW y, y # <<>>, Len(y) = 1, y[1].call = "record"
    PROVE  Ending(ms, y, 0, ns) <=> AllAlike(ms, ns)
<1>1. Appending(y) = 0
  BY DEF Appending
<1>2. Len(ms) \in Nat /\ Len(ns) \in Nat /\ (0 + 1)..0 = {}
  OBVIOUS
<1> QED
  BY <1>1, <1>2 DEF Ending, AllAlike

\* What starts a conversation with all that waited for the first reply.
LEMMA StartedWithAll ==
    ASSUME NEW p \in Seq(MessageSet), NEW was \in Seq(MessageSet), AllAlike(p, was), NEW reply \in MessageSet,
           NEW y \in Seq(CallSet), Len(y) = Len(p) + 3,
           y[Len(p) + 2] = AppendOf(reply), y[Len(p) + 3] = Record,
           \A k \in 1..Len(p) : y[k + 1] = AppendOf(p[k])
    PROVE  Ending(<<>>, y, 1, Append(was, reply))
<1> DEFINE b == Append(was, reply)
<1>1. PICK n \in Nat : n = Len(p) /\ n = Len(was) /\ DOMAIN p = 1..n
  BY DEF AllAlike
<1>2. Len(b) = n + 1 /\ b[n + 1] = reply /\ \A k \in 1..n : b[k] = was[k]
  BY <1>1
<1> HIDE DEF b
<1>3. \A k \in 1..n : Alike(p[k], b[k])
  BY <1>1, <1>2 DEF AllAlike
<1>4. y # <<>> /\ Len(y) = n + 3 /\ y[n + 3].call = "record"
  BY <1>1, CallsOfTheStore
<1>5. Appending(y) = n + 2
  BY <1>1, <1>4 DEF Appending
<1>6. y[n + 2].call = "append" /\ y[n + 2].m = reply /\ Alike(reply, reply)
  BY <1>1, CallsOfTheStore DEF Alike
<1>7. ASSUME NEW k \in (1 + 1)..(n + 2)
      PROVE  y[k].call = "append" /\ Alike(y[k].m, b[0 + k - 1])
  <2>1. CASE k = n + 2
    <3>1. 0 + k - 1 = n + 1
      BY <1>1, <2>1
    <3> QED
      BY <1>2, <1>6, <2>1, <3>1
  <2>2. CASE k # n + 2
    <3>1. PICK l \in 1..n : l + 1 = k /\ 0 + k - 1 = l
      <4>1. k - 1 \in 1..n /\ (k - 1) + 1 = k /\ 0 + k - 1 = k - 1
        BY <1>1, <2>2
      <4> QED
        BY <4>1
    <3>2. y[k] = AppendOf(p[l])
      BY <1>1, <3>1
    <3>3. p[l] \in MessageSet
      BY <1>1
    <3>4. y[k].call = "append" /\ y[k].m = p[l]
      BY <3>2, <3>3, CallsOfTheStore
    <3> QED
      BY <1>3, <3>1, <3>4
  <2> QED
    BY <2>1, <2>2
<1>8. Len(b) = 0 + (n + 2) - 1 /\ Len(<<>>) = 0 /\ DOMAIN <<>> = {}
  BY <1>1, <1>2
<1> QED
  BY <1>5, <1>7, <1>8 DEF Ending, b

\* The end of a turn keeps what shows.
LEMMA TurnEndsShows ==
    ASSUME StoreInv, ShowInv, NEW c \in Chats, TurnEnds(c)
    PROVE  ShowInv'
<1>1. c \in Writers /\ chat[c] \in ChatSet /\ asked \in Nat /\ todo[c] = <<>> /\ chat[c].at = "asked"
  BY DEF TurnEnds, Writers, StoreInv, SavedShape
<1>2. PICK end \in {"done", "stopped", "failed", "left"}, text \in BOOLEAN, ran \in BOOLEAN :
        EndsAs(c, end, text, ran)
  BY DEF TurnEnds, EndsAs
<1> DEFINE reply == Message("assistant", asked, FALSE, text, ran)
           answered == Answered(end, text, ran)
           p == chat[c].pending
           was == chat[c].shown
           calls == Ended(c, reply, answered)
           at == IF end = "left" THEN "leaving" ELSE "idle"
           shown == IF Remembered(end, text, ran) THEN Append(was, reply) ELSE was
           to == [chat[c] EXCEPT !.at = at, !.shown = shown]
<1>3. reply \in MessageSet /\ ~reply.hidden /\ answered \in BOOLEAN
  BY <1>1, <1>2 DEF Message, MessageSet, Roles, Answered
<1>4. p \in Seq(MessageSet) /\ was \in Seq(MessageSet)
  BY <1>1 DEF ChatSet
<1>16. PICK x : x = to
  OBVIOUS
<1>17. PICK y : y = calls
  OBVIOUS
<1>5. /\ todo' = [todo EXCEPT ![c] = y] /\ UNCHANGED <<kept, messages, failures, redone, shared>>
      /\ chat' = [chat EXCEPT ![c] = x]
  BY <1>1, <1>2, <1>16, <1>17 DEF StoreInv, SavedShape, EndsAs, storeVars
<1>6. /\ x.at = at /\ x.id = chat[c].id /\ x.context = chat[c].context /\ x.off = chat[c].off
      /\ x.pending = p /\ x.shown = shown
  BY <1>1, <1>16 DEF ChatSet
<1>7. at # "asked" /\ (at = "idle" => shown = IF answered THEN Append(was, reply) ELSE was)
  BY <1>2 DEF Remembered, Answered
<1>8. \/ y = <<>> /\ (~Active(c) \/ (chat[c].id = None /\ (p = <<>> \/ ~answered)))
      \/ Active(c) /\ chat[c].id # None /\ ~answered /\ y = <<Record>>
      \/ /\ Active(c) /\ chat[c].id # None /\ answered
         /\ y \in Seq(CallSet) /\ DOMAIN y = 1..2 /\ y # <<>> /\ y[1] = AppendOf(reply) /\ y[2] = Record
      \/ /\ Active(c) /\ chat[c].id = None /\ answered /\ p # <<>>
         /\ y \in Seq(CallSet) /\ Len(y) = Len(p) + 3
         /\ y[1] = Start("Explanation") /\ y[Len(p) + 2] = AppendOf(reply) /\ y[Len(p) + 3] = Record
         /\ \A k \in 1..Len(p) : y[k + 1] = AppendOf(p[k])
  <2> HIDE DEF reply, answered
  <2>1. y = Ended(c, reply, answered)
    BY <1>17
  <2> QED
    BY <1>3, <1>4, <2>1, EndedOf
<1> HIDE DEF reply, answered, calls, to, at, shown
<1>9. ToShow(chat[c], todo[c])
  BY <1>1 DEF ShowInv, CallsShow
<1>10. y = <<Record>> => y # <<>> /\ Len(y) = 1 /\ y[1].call = "record"
  <2> DEFINE a == Record
  <2>1. a \in CallSet /\ a.call = "record"
    BY CallsOfTheStore
  <2> HIDE DEF a
  <2>2. y = <<a>> => y[1] = a /\ y # <<>> /\ Len(y) = 1
    OBVIOUS
  <2> QED
    BY <2>1, <2>2 DEF a
<1>11. AppendOf(reply).call = "append" /\ AppendOf(reply).m = reply /\ Start("Explanation").call = "start"
  BY <1>3, CallsOfTheStore DEF Titles
<1>12. ToShow(x, y)
  <2>1. ASSUME y # <<>>, y[1].call = "start" PROVE ShownIn(y) # {}
    <3>1. y \in Seq(CallSet) /\ Len(y) = Len(p) + 3 /\ y[Len(p) + 2] = AppendOf(reply)
      BY <1>8, <1>10, <1>11, <2>1
    <3>2. Len(p) + 2 \in DOMAIN y
      BY <1>4, <3>1
    <3> QED
      BY <1>3, <1>11, <3>1, <3>2 DEF ShownIn
  <2> QED
    BY <1>6, <1>7, <1>9, <2>1 DEF ToShow
<1>13. x.off => ~IsKept(x.id)
  BY <1>1, <1>6 DEF ShowInv, OffIsGone
<1>14. ASSUME failures = 0, x.at \in {"idle", "asked"} PROVE Agrees(x, y)'
  <2>1. x.at = "idle" /\ x.shown = IF answered THEN Append(was, reply) ELSE was
    BY <1>6, <1>7, <1>14
  <2>2. Agrees(chat[c], <<>>)
    BY <1>1, <1>14 DEF ShowInv, AgreesOpen
  <2>3. CASE chat[c].id = None
    <3>1. Active(c) /\ AllAlike(p, was) /\ was # <<>>
      BY <1>1, <1>9, <2>2, <2>3 DEF Active, ToShow, Agrees
    <3>2. p # <<>>
      BY <1>4, <3>1 DEF AllAlike
    <3>3. CASE ~answered
      <4>1. y = <<>> /\ x.shown = was
        BY <1>8, <2>1, <2>3, <3>3
      <4> QED
        BY <1>6, <2>3, <3>1, <4>1 DEF Agrees
    <3>4. CASE answered
      <4>1. /\ y \in Seq(CallSet) /\ Len(y) = Len(p) + 3
            /\ y[Len(p) + 2] = AppendOf(reply) /\ y[Len(p) + 3] = Record
            /\ \A k \in 1..Len(p) : y[k + 1] = AppendOf(p[k])
        BY <1>8, <2>3, <3>1, <3>2, <3>4
      <4>2. Ending(<<>>, y, 1, Append(was, reply))
        <5> HIDE DEF p, was
        <5> QED
          BY <1>3, <1>4, <3>1, <4>1, StartedWithAll
      <4>3. x.shown = Append(was, reply) /\ y # <<>> /\ x.id = None
        <5>1. Len(y) # 0
          BY <1>4, <4>1
        <5> QED
          BY <1>6, <2>1, <2>3, <3>4, <5>1
      <4> QED
        BY <4>2, <4>3 DEF Agrees
    <3> QED
      BY <1>3, <3>3, <3>4
  <2>4. CASE chat[c].id # None /\ ~(x.id \in ToSet(kept') /\ x.id \notin shared')
    BY <1>6, <2>4 DEF Agrees, IsKept
  <2>5. CASE chat[c].id # None /\ x.id \in ToSet(kept') /\ x.id \notin shared'
    <3>1. Active(c)
      BY <1>5, <1>6, <1>13, <2>5 DEF Active, IsKept
    <3>2. PICK ms : ms = messages[chat[c].id]
      OBVIOUS
    <3>3. ms \in Seq(MessageSet)
      BY <1>5, <1>6, <2>5, <3>2, KeptIsOne
    <3>4. Ending(ms, <<>>, 0, was)
      BY <1>5, <1>6, <2>2, <2>5, <3>2 DEF Agrees, IsKept
    <3>5. AllAlike(ms, was)
      BY <1>4, <3>3, <3>4, EndingNone
    <3>6. messages'[x.id] = ms /\ x.id # None
      BY <1>5, <1>6, <2>5, <3>2
    <3>7. CASE ~answered
      <4>1. y = <<Record>> /\ x.shown = was
        BY <1>8, <2>1, <2>5, <3>1, <3>7
      <4>2. Ending(ms, y, 0, was)
        BY <1>4, <1>10, <3>3, <3>5, <4>1, OnlyRecords
      <4>3. Ending(messages'[x.id], y, 0, x.shown)
        BY <3>6, <4>1, <4>2
      <4>4. y # <<>> => y[1].call # "drop"
        BY <1>10, <4>1
      <4> QED
        BY <3>6, <4>3, <4>4, SavedAgrees
    <3>8. CASE answered
      <4>1. y \in Seq(CallSet) /\ DOMAIN y = 1..2 /\ y # <<>> /\ y[1] = AppendOf(reply) /\ y[2] = Record
        BY <1>8, <2>5, <3>1, <3>8
      <4>2. Ending(ms, y, 0, Append(was, reply))
        <5> HIDE DEF p, was
        <5> QED
          BY <1>3, <1>4, <3>3, <3>5, <4>1, OneToAppend
      <4>3. Ending(messages'[x.id], y, 0, x.shown)
        BY <2>1, <3>6, <3>8, <4>2
      <4>4. y # <<>> => y[1].call # "drop"
        BY <1>11, <4>1
      <4> QED
        BY <3>6, <4>3, <4>4, SavedAgrees
    <3> QED
      BY <1>3, <3>7, <3>8
  <2> QED
    BY <2>3, <2>4, <2>5
<1>15. shared \subseteq shared'
  BY <1>5
<1> HIDE DEF IsKept
<1> QED
  BY <1>1, <1>5, <1>6, <1>12, <1>13, <1>14, <1>15, HandlerShows

\* A check-in keeps what shows.
LEMMA ChecksInShows ==
    ASSUME StoreInv, ShowInv, ChecksIn
    PROVE  ShowInv'
<1> DEFINE of == asked + 1
           q == [Question(of) EXCEPT !.hidden = TRUE]
           m == Message("assistant", of, FALSE, TRUE, FALSE)
           a == Start("asked for")
           b == AppendOf(q)
           d == AppendOf(m)
<1>1. PICK y : y = <<a, b, d, Record>>
  OBVIOUS
<1>2. /\ Briefing \in Writers /\ Briefing \notin Chats /\ of \in Nat
      /\ chat \in [Writers -> ChatSet] /\ todo \in [Writers -> Seq(CallSet)]
  BY SavedConstants DEF Writers, StoreInv, SavedShape
<1>3. todo[Briefing] = <<>> /\ UNCHANGED <<kept, messages, failures, redone, shared>>
  BY DEF ChecksIn, storeVars
<1>4. todo' = [todo EXCEPT ![Briefing] = y] /\ chat' = [chat EXCEPT ![Briefing] = Closed]
  BY <1>1, Zenon DEF ChecksIn
<1>5. q \in MessageSet /\ m \in MessageSet /\ ~m.hidden
  BY <1>2, QuestionIsAMessage DEF Message, MessageSet, Roles
<1> HIDE DEF q, m
<1>6. /\ a \in CallSet /\ b \in CallSet /\ Record \in CallSet
      /\ d \in CallSet /\ d.call = "append" /\ d.m = m
  BY <1>5, CallsOfTheStore DEF Titles
<1> HIDE DEF a, b, d
<1>7. y \in Seq(CallSet) /\ DOMAIN y = 1..4 /\ y[3] = d
  BY <1>1, <1>6, FourOf
<1>8. ToShow(Closed, y)
  <2>1. 3 \in DOMAIN y /\ y[3].call = "append" /\ ~y[3].m.hidden
    BY <1>5, <1>6, <1>7
  <2>2. ShownIn(y) # {}
    BY <2>1 DEF ShownIn
  <2> QED
    BY <2>2, ClosedIsAChat DEF ToShow
<1>9. \A v \in Writers \ {Briefing} : chat'[v] = chat[v] /\ todo'[v] = todo[v]
  BY <1>2, <1>4
<1>10. Shows'
  BY <1>2, <1>3, <1>9, HandlerStillShows
<1>11. ~Closed.off /\ Closed.id = None
  BY ClosedIsAChat
<1> QED
  BY <1>2, <1>3, <1>4, <1>8, <1>10, <1>11, OneShows
-----------------------------------------------------------------------------
\* The calls that follow the first.
LEMMA RestOf ==
    ASSUME NEW S, NEW y \in Seq(S), y # <<>>
    PROVE  /\ Tail(y) \in Seq(S) /\ Len(Tail(y)) = Len(y) - 1 /\ Len(y) \in Nat \ {0}
           /\ \A k \in 1..(Len(y) - 1) : Tail(y)[k] = y[k + 1]
           /\ Len(y) = 1 => Tail(y) = <<>>
<1>1. Len(y) \in Nat \ {0}
  OBVIOUS
<1>2. Tail(y) \in Seq(S) /\ Len(Tail(y)) = Len(y) - 1 /\ \A k \in 1..(Len(y) - 1) : Tail(y)[k] = y[k + 1]
  BY <1>1
<1>3. Len(y) = 1 => Len(Tail(y)) = 0
  BY <1>2
<1>4. ASSUME NEW s \in Seq(S), Len(s) = 0 PROVE s = <<>>
  BY <1>4
<1> QED
  BY <1>1, <1>2, <1>3, <1>4

\* What is shown by a call after the first is still to be shown once the first is made.
LEMMA TailStillShows ==
    ASSUME NEW y \in Seq(CallSet), y # <<>>, NEW k \in ShownIn(y), k # 1
    PROVE  ShownIn(Tail(y)) # {}
<1>1. k \in 1..Len(y) /\ y[k].call = "append" /\ ~y[k].m.hidden /\ Len(y) \in Nat
  BY DEF ShownIn
<1> DEFINE t == Tail(y)
<1>2. /\ t \in Seq(CallSet) /\ Len(t) = Len(y) - 1
      /\ \A l \in 1..(Len(y) - 1) : t[l] = y[l + 1]
  BY RestOf
<1> HIDE DEF t
<1>3. k - 1 \in 1..(Len(y) - 1) /\ (k - 1) + 1 = k
  BY <1>1
<1>4. k - 1 \in DOMAIN t /\ t[k - 1] = y[k]
  BY <1>1, <1>2, <1>3
<1>5. k - 1 \in ShownIn(t)
  BY <1>1, <1>4 DEF ShownIn
<1> QED
  BY <1>5 DEF t

\* One call fewer that appends.
LEMMA AppendingTail ==
    ASSUME NEW y \in Seq(CallSet), y # <<>>, y[1].call # "record"
    PROVE  Appending(Tail(y)) = Appending(y) - 1 /\ Appending(y) \in Nat \ {0}
<1> DEFINE t == Tail(y)
<1>1. /\ t \in Seq(CallSet) /\ Len(t) = Len(y) - 1 /\ Len(y) \in Nat \ {0}
      /\ \A k \in 1..(Len(y) - 1) : t[k] = y[k + 1]
      /\ Len(y) = 1 => t = <<>>
  BY RestOf
<1> HIDE DEF t
<1>2. CASE Len(y) = 1
  <2>1. Appending(y) = 1
    BY <1>2 DEF Appending
  <2> QED
    BY <1>1, <1>2, <2>1, NothingAppended DEF t
<1>3. CASE Len(y) # 1
  <2>1. Len(t) \in 1..(Len(y) - 1) /\ Len(t) + 1 = Len(y) /\ t # <<>>
    BY <1>1, <1>3
  <2>2. t[Len(t)] = y[Len(y)]
    BY <1>1, <2>1
  <2>3. Appending(t) = Appending(y) - 1 /\ Appending(y) \in Nat \ {0}
    BY <1>1, <1>3, <2>1, <2>2 DEF Appending
  <2> QED
    BY <2>3 DEF t
<1> QED
  BY <1>2, <1>3

\* What is called after the first of these is no drop.
LEMMA NoDropNext ==
    ASSUME NEW y \in Seq(CallSet), y # <<>>,
           \A k \in 2..Appending(y) : y[k].call = "append"
    PROVE  Tail(y) # <<>> => Tail(y)[1].call # "drop"
<1> DEFINE t == Tail(y)
<1>1. /\ Len(y) \in Nat \ {0} /\ Len(y) = 1 => t = <<>>
      /\ \A k \in 1..(Len(y) - 1) : t[k] = y[k + 1]
  BY RestOf
<1> HIDE DEF t
<1>2. ASSUME t # <<>> PROVE t[1].call # "drop"
  <2>5. Len(y) # 1 /\ Len(y) \in Nat \ {0}
    BY <1>1, <1>2
  <2>6. \A n \in Nat \ {0} : n # 1 => 1 \in 1..(n - 1) /\ n >= 2
    OBVIOUS
  <2>1. Len(y) >= 2 /\ 1 \in 1..(Len(y) - 1) /\ Len(y) \in Nat
    BY <2>5, <2>6
  <2>2. t[1] = y[2]
    BY <1>1, <2>1
  <2>3. CASE Appending(y) = Len(y)
    <3>1. 2 \in 2..Appending(y)
      BY <1>1, <2>1, <2>3
    <3> QED
      BY <2>2, <3>1
  <2>4. CASE Appending(y) = Len(y) - 1 /\ y[Len(y)].call = "record"
    <3>1. CASE Len(y) = 2
      BY <2>2, <2>4, <3>1
    <3>2. CASE Len(y) # 2
      <4>1. 2 \in 2..Appending(y)
        <5>1. \A n \in Nat : (n >= 2 /\ n # 2) => 2 \in 2..(n - 1)
          OBVIOUS
        <5> QED
          BY <2>1, <2>4, <3>2, <5>1
      <4> QED
        BY <2>2, <4>1
    <3> QED
      BY <3>1, <3>2
  <2> QED
    BY <2>3, <2>4 DEF Appending
<1> QED
  BY <1>2 DEF t

\* Once the conversation is started, all that is shown is to be appended.
LEMMA StartedEnding ==
    ASSUME NEW y \in Seq(CallSet), y # <<>>, y[1].call = "start", NEW ns \in Seq(MessageSet), Ending(<<>>, y, 1, ns)
    PROVE  Ending(<<>>, Tail(y), 0, ns) /\ (Tail(y) # <<>> => Tail(y)[1].call # "drop")
<1> DEFINE t == Tail(y)
<1>1. PICK n \in Nat : n = Appending(y) /\ Appending(t) = n - 1
  BY AppendingTail
<1>2. /\ t \in Seq(CallSet) /\ Len(y) \in Nat \ {0}
      /\ \A k \in 1..(Len(y) - 1) : t[k] = y[k + 1]
  BY RestOf
<1> HIDE DEF t
<1>3. n =< Len(y)
  BY <1>1, <1>2 DEF Appending
<1>4. Len(<<>>) = 0 /\ DOMAIN <<>> = {}
  OBVIOUS
<1>5. /\ Len(ns) = n - 1
      /\ \A k \in 2..n : y[k].call = "append" /\ Alike(y[k].m, ns[k - 1])
  <2>1. Len(ns) = Len(<<>>) + n - 1
    BY <1>1 DEF Ending
  <2>2. ASSUME NEW k \in 2..n PROVE y[k].call = "append" /\ Alike(y[k].m, ns[k - 1])
    <3>1. k \in (1 + 1)..n /\ 0 + k - 1 = k - 1
      OBVIOUS
    <3>2. y[k].call = "append" /\ Alike(y[k].m, ns[0 + k - 1])
      BY <1>1, <1>4, <3>1 DEF Ending
    <3> QED
      BY <3>1, <3>2
  <2> QED
    BY <1>1, <1>4, <2>1, <2>2
<1>6. ASSUME NEW k \in (0 + 1)..(n - 1)
      PROVE  t[k].call = "append" /\ Alike(t[k].m, ns[0 + k - 0])
  <2>1. k + 1 \in 2..n /\ (k + 1) - 1 = k /\ k \in 1..(Len(y) - 1) /\ 0 + k - 0 = k
    BY <1>1, <1>2, <1>3
  <2>2. y[k + 1].call = "append" /\ Alike(y[k + 1].m, ns[k])
    BY <1>5, <2>1
  <2> QED
    BY <1>2, <2>1, <2>2
<1>7. Len(ns) = 0 + (n - 1) - 0
  BY <1>1, <1>5
<1>8. Ending(<<>>, t, 0, ns)
  BY <1>1, <1>4, <1>6, <1>7 DEF Ending
<1>9. Tail(y) # <<>> => Tail(y)[1].call # "drop"
  BY <1>1, <1>5, NoDropNext
<1> QED
  BY <1>8, <1>9 DEF t

\* Once the first of what is to be appended is.
LEMMA MovedEnding ==
    ASSUME NEW y \in Seq(CallSet), y # <<>>, y[1].call = "append", y[1].m \in MessageSet,
           NEW ms \in Seq(MessageSet), NEW ns \in Seq(MessageSet), Ending(ms, y, 0, ns)
    PROVE  Ending(Append(ms, y[1].m), Tail(y), 0, ns) /\ (Tail(y) # <<>> => Tail(y)[1].call # "drop")
<1> DEFINE t == Tail(y)
           a == Append(ms, y[1].m)
<1>1. PICK n \in Nat \ {0} : n = Appending(y) /\ Appending(t) = n - 1
  BY AppendingTail
<1>2. /\ t \in Seq(CallSet) /\ Len(y) \in Nat \ {0}
      /\ \A k \in 1..(Len(y) - 1) : t[k] = y[k + 1]
  BY RestOf
<1>3. PICK l \in Nat : l = Len(ms)
  OBVIOUS
<1>4. /\ Len(a) = l + 1 /\ DOMAIN a = 1..(l + 1) /\ a[l + 1] = y[1].m
      /\ \A k \in 1..l : a[k] = ms[k]
  BY <1>3
<1> HIDE DEF t, a
<1>5. n =< Len(y)
  BY <1>1, <1>2 DEF Appending
<1>6. /\ Len(ns) = l + n - 0
      /\ \A k \in 1..l : Alike(ms[k], ns[k])
      /\ \A k \in (0 + 1)..n : y[k].call = "append" /\ Alike(y[k].m, ns[l + k - 0])
  BY <1>1, <1>3 DEF Ending
<1>7. \A k \in 1..n : y[k].call = "append" /\ Alike(y[k].m, ns[l + k])
  <2> SUFFICES ASSUME NEW k \in 1..n PROVE y[k].call = "append" /\ Alike(y[k].m, ns[l + k])
    OBVIOUS
  <2>1. k \in (0 + 1)..n /\ l + k - 0 = l + k
    OBVIOUS
  <2> QED
    BY <1>6, <2>1
<1>8. ASSUME NEW k \in DOMAIN a PROVE Alike(a[k], ns[k])
  <2>1. CASE k = l + 1
    <3>1. Alike(y[1].m, ns[l + 1])
      BY <1>1, <1>7
    <3> QED
      BY <1>4, <2>1, <3>1
  <2>2. CASE k # l + 1
    <3>1. k \in 1..l
      BY <1>3, <1>4, <2>2
    <3> QED
      BY <1>4, <1>6, <3>1
  <2> QED
    BY <2>1, <2>2
<1>9. ASSUME NEW k \in (0 + 1)..(n - 1)
      PROVE  t[k].call = "append" /\ Alike(t[k].m, ns[(l + 1) + k - 0])
  <2>1. k + 1 \in 1..n /\ k \in 1..(Len(y) - 1) /\ (l + 1) + k - 0 = l + (k + 1)
    BY <1>1, <1>2, <1>3, <1>5
  <2>2. y[k + 1].call = "append" /\ Alike(y[k + 1].m, ns[l + (k + 1)])
    BY <1>7, <2>1
  <2> QED
    BY <1>2, <2>1, <2>2
<1>10. Len(ns) = (l + 1) + (n - 1) - 0
  BY <1>1, <1>3, <1>6
<1>11. Ending(a, t, 0, ns)
  BY <1>1, <1>4, <1>8, <1>9, <1>10 DEF Ending
<1>12. Tail(y) # <<>> => Tail(y)[1].call # "drop"
  <2>1. \A k \in 2..n : k \in 1..n
    BY <1>1
  <2> QED
    BY <1>1, <1>7, <2>1, NoDropNext
<1> QED
  BY <1>11, <1>12 DEF t, a

\* With a turn to record and nothing before it, nothing is to be appended.
LEMMA RecordedEnding ==
    ASSUME NEW y \in Seq(CallSet), y # <<>>, y[1].call = "record",
           NEW ms \in Seq(MessageSet), NEW ns \in Seq(MessageSet), Ending(ms, y, 0, ns)
    PROVE  Tail(y) = <<>> /\ Ending(ms, <<>>, 0, ns)
<1>1. Len(y) \in Nat \ {0} /\ (Len(y) = 1 => Tail(y) = <<>>)
  BY RestOf
<1>2. Len(y) = 1
  <2> SUFFICES ASSUME Len(y) # 1 PROVE FALSE
    OBVIOUS
  <2>1. 1 \in (0 + 1)..Appending(y)
    <3>1. Appending(y) \in {Len(y), Len(y) - 1}
      BY DEF Appending
    <3>2. \A n \in Nat \ {0} : n # 1 => 1 \in (0 + 1)..n /\ 1 \in (0 + 1)..(n - 1)
      OBVIOUS
    <3> QED
      BY <1>1, <3>1, <3>2
  <2>2. y[1].call = "append"
    BY <2>1 DEF Ending
  <2> QED
    BY <2>2
<1>3. AllAlike(ms, ns)
  BY <1>2, OnlyRecords
<1> QED
  BY <1>1, <1>2, <1>3, EndingNone
-----------------------------------------------------------------------------
\* Who shares a conversation with one that calls.
LEMMA SharedWithCaller ==
    ASSUME ShowInv, NEW w \in Writers, NEW v \in Writers \ {w}, todo[w] # <<>>,
           chat[v].id # None, chat[v].id = chat[w].id, w \in Chats \/ v \in Chats, Writing(v)
    PROVE  chat[w].id \in shared
<1>1. Writing(w)
  BY DEF Writing
<1>2. CASE w \in Chats
  BY <1>2 DEF ShowInv, SharedAreNoted
<1>3. CASE v \in Chats
  BY <1>1, <1>3 DEF ShowInv, SharedAreNoted
<1> QED
  BY <1>2, <1>3

\* What is kept still shows something, or is about to, when that holds of
\* what the call is made of.
LEMMA StillShows ==
    ASSUME ShowInv, NEW w \in Writers, chat'[w].id = chat[w].id,
           \A v \in Writers \ {w} : chat'[v] = chat[v] /\ todo'[v] = todo[v],
           failures' = 0 => failures = 0,
           \A j \in ToSet(kept') \ redone' :
              /\ j \in ToSet(kept) \ redone /\ Shown(j) \subseteq Shown(j)'
              /\ (j = chat[w].id /\ ShownIn(todo[w]) # {}) => ShownIn(todo'[w]) # {} \/ Shown(j)' # {}
    PROVE  Shows'
<1> SUFFICES ASSUME failures' = 0, NEW j \in ToSet(kept') \ redone' PROVE (Shown(j) # {} \/ AboutToShow(j))'
  BY DEF Shows
<1>1. Shown(j) # {} \/ AboutToShow(j)
  BY DEF ShowInv, Shows
<1>2. CASE Shown(j) # {}
  BY <1>2
<1>3. CASE AboutToShow(j)
  <2>1. PICK v \in Writers : chat[v].id = j /\ ShownIn(todo[v]) # {}
    BY <1>3 DEF AboutToShow
  <2>2. CASE v = w
    <3>1. ShownIn(todo'[w]) # {} \/ Shown(j)' # {}
      BY <2>1, <2>2
    <3> QED
      BY <2>1, <2>2, <3>1 DEF AboutToShow
  <2>3. CASE v # w
    <3>1. chat'[v].id = j /\ ShownIn(todo'[v]) # {}
      BY <2>1, <2>3
    <3> QED
      BY <3>1 DEF AboutToShow
  <2> QED
    BY <2>2, <2>3
<1> QED
  BY <1>1, <1>2, <1>3

\* What a call, of a chat that has its conversation, leaves.
LEMMA CallShows ==
    ASSUME StoreInv, ShowInv, NEW w \in Writers, todo[w] # <<>>, Head(todo[w]).call # "start",
           NEW x, x.id = chat[w].id, x.pending = chat[w].pending, x.context = chat[w].context,
           x.at = chat[w].at, x.shown = chat[w].shown, x.off => x.id \notin ToSet(kept'),
           NEW y, y = <<>> \/ y = Tail(todo[w]),
           chat' = [chat EXCEPT ![w] = x], todo' = [todo EXCEPT ![w] = y], shared' = shared,
           ToSet(kept') \subseteq ToSet(kept), Shows', failures' = 0 => failures = 0,
           (failures' = 0 /\ w \in Chats /\ x.at \in {"idle", "asked"}) => Agrees(x, y)',
           \A j \in ToSet(kept') \ {chat[w].id} : messages'[j] = messages[j]
    PROVE  ShowInv'
<1>1. /\ chat \in [Writers -> ChatSet] /\ todo \in [Writers -> Seq(CallSet)]
      /\ chat[w].id # None /\ RightCalls(chat[w], todo[w], asked)
  BY CallerIs DEF StoreInv, SavedShape
<1>2. ToShow(chat[w], todo[w])
  BY DEF ShowInv, CallsShow
<1>3. ~(y # <<>> /\ y[1].call = "start")
  <2>1. CASE y = <<>>
    BY <2>1
  <2>2. CASE y = Tail(todo[w])
    <3>1. ASSUME y # <<>> PROVE y[1].call # "start"
      <4> DEFINE t == todo[w]
      <4>1. /\ Tail(t) # <<>> => 1 \in DOMAIN Tail(t)
            /\ \A k \in DOMAIN Tail(t) : k + 1 \in DOMAIN t /\ k + 1 # 1 /\ Tail(t)[k] = t[k + 1]
        BY <1>1, TailOf
      <4>2. \A k \in DOMAIN t : k # 1 => t[k].call # "start"
        BY <1>1 DEF RightCalls, StartsFirst
      <4> HIDE DEF t
      <4>3. Tail(t) # <<>> => Tail(t)[1].call # "start"
        BY <4>1, <4>2
      <4> QED
        BY <2>2, <3>1, <4>3 DEF t
    <3> QED
      BY <3>1
  <2> QED
    BY <2>1, <2>2
<1>4. ToShow(x, y)
  BY <1>1, <1>2, <1>3 DEF ToShow
<1>5. ASSUME NEW v \in Writers \ {w}, x.id # None, chat[v].id = x.id, w \in Chats \/ y # <<>>, Writing(v)
      PROVE  x.id \in shared'
  <2>1. w \in Chats \/ v \in Chats
    BY DEF Writers
  <2> QED
    BY <1>5, <2>1, SharedWithCaller
<1>6. ASSUME NEW c \in Chats \ {w}, chat[c].id # None, chat[c].id \in ToSet(kept'), chat[c].id \notin shared'
      PROVE  messages'[chat[c].id] = messages[chat[c].id]
  <2>1. c \in Writers \ {w} /\ Writing(c)
    BY DEF Writers, Writing
  <2>2. chat[c].id # chat[w].id
    BY <1>6, <2>1, SharedWithCaller
  <2> QED
    BY <1>6, <2>2
<1>7. \A v \in Writers \ {w} :
         (x.id # None /\ chat[v].id = x.id /\ (w \in Chats \/ y # <<>>) /\ Writing(v)) => x.id \in shared'
  BY <1>5
<1>8. \A c \in Chats \ {w} :
         (/\ failures' = 0 /\ chat[c].id # None
          /\ chat[c].id \in ToSet(kept') /\ chat[c].id \notin shared')
         => messages'[chat[c].id] = messages[chat[c].id]
  BY <1>6
<1>9. \A v \in Writers \ {w} : chat[v].id \in ToSet(kept') => chat[v].id \in ToSet(kept)
  OBVIOUS
<1>10. shared \subseteq shared'
  OBVIOUS
<1> QED
  BY <1>1, <1>4, <1>7, <1>8, <1>9, <1>10, OneShows

\* Recording a title keeps what shows.
LEMMA RecordsShows ==
    ASSUME StoreInv, ShowInv, NEW w \in Writers, Records(w)
    PROVE  ShowInv'
<1>1. /\ todo[w] # <<>> /\ Head(todo[w]).call = "record"
      /\ UNCHANGED <<kept, messages, chat, failures, shared, redone>>
  BY DEF Records
<1>2. PICK x : x = chat[w]
  OBVIOUS
<1>3. PICK t : t = todo[w]
  OBVIOUS
<1>4. PICK y : y = Tail(todo[w])
  OBVIOUS
<1>5. /\ todo' = [todo EXCEPT ![w] = y] /\ chat' = [chat EXCEPT ![w] = x]
      /\ todo \in [Writers -> Seq(CallSet)]
  BY <1>2, <1>4 DEF Records, Called, StoreInv, SavedShape
<1>6. /\ x \in ChatSet /\ t \in Seq(CallSet) /\ t # <<>> /\ t[1].call = "record" /\ y = Tail(t)
      /\ x.id # None /\ x.id \in Ids
  BY <1>1, <1>2, <1>3, <1>4, CallerIs
<1>7. \A v \in Writers \ {w} : chat'[v] = chat[v] /\ todo'[v] = todo[v]
  BY <1>1, <1>5
<1>8. todo'[w] = y /\ chat'[w].id = chat[w].id
  BY <1>1, <1>5
<1>9. ShownIn(t) # {} => ShownIn(y) # {}
  <2> SUFFICES ASSUME NEW k \in ShownIn(t) PROVE ShownIn(y) # {}
    OBVIOUS
  <2>1. k # 1
    BY <1>6 DEF ShownIn
  <2> QED
    BY <1>6, <2>1, TailStillShows
<1>10. Shows'
  <2>1. ASSUME NEW j PROVE Shown(j) \subseteq Shown(j)'
    BY <1>1 DEF Shown, Get
  <2> QED
    BY <1>1, <1>3, <1>7, <1>8, <1>9, <2>1, StillShows
<1>11. ASSUME failures' = 0, w \in Chats, x.at \in {"idle", "asked"} PROVE Agrees(x, y)'
  <2>1. Agrees(x, t)
    BY <1>1, <1>2, <1>3, <1>11 DEF ShowInv, AgreesOpen
  <2>2. ASSUME x.id \in ToSet(kept'), x.id \notin shared' PROVE y = <<>> /\ Ending(messages'[x.id], y, 0, x.shown)
    <3>1. PICK ms \in Seq(MessageSet) : ms = messages[x.id]
      BY <1>6 DEF StoreInv, SavedShape
    <3>2. x.shown \in Seq(MessageSet)
      BY <1>6 DEF ChatSet
    <3>3. Ending(ms, t, 0, x.shown)
      BY <1>1, <1>6, <2>1, <2>2, <3>1 DEF Agrees, IsKept
    <3>4. Tail(t) = <<>> /\ Ending(ms, <<>>, 0, x.shown)
      BY <1>6, <3>2, <3>3, RecordedEnding
    <3> QED
      BY <1>1, <1>6, <3>1, <3>4
  <2>3. CASE x.id \in ToSet(kept') /\ x.id \notin shared'
    BY <1>6, <2>2, <2>3, SavedAgrees
  <2>4. CASE ~(x.id \in ToSet(kept') /\ x.id \notin shared')
    BY <1>6, <2>4 DEF Agrees, IsKept
  <2> QED
    BY <2>3, <2>4
<1>12. x.off => x.id \notin ToSet(kept')
  BY <1>1, <1>2 DEF ShowInv, OffIsGone, IsKept
<1>13. \A j \in ToSet(kept') \ {chat[w].id} : messages'[j] = messages[j]
  BY <1>1
<1> HIDE DEF IsKept
<1> QED
  BY <1>1, <1>2, <1>4, <1>5, <1>10, <1>11, <1>12, <1>13, CallShows

\* Dropping the last question keeps what shows.
LEMMA DropsShows ==
    ASSUME StoreInv, ShowInv, NEW w \in Writers, Drops(w)
    PROVE  ShowInv'
<1>1. /\ todo[w] # <<>> /\ Head(todo[w]).call = "drop"
      /\ UNCHANGED <<kept, chat, failures, shared>>
      /\ messages' = [messages EXCEPT ![chat[w].id] = UpToQuestion(@)] /\ redone' = redone \cup {chat[w].id}
  BY DEF Drops
<1>2. PICK x : x = chat[w]
  OBVIOUS
<1>3. PICK t : t = todo[w]
  OBVIOUS
<1>4. PICK y : y = Tail(todo[w])
  OBVIOUS
<1>5. /\ todo' = [todo EXCEPT ![w] = y] /\ chat' = [chat EXCEPT ![w] = x]
      /\ todo \in [Writers -> Seq(CallSet)] /\ messages \in [Ids -> Seq(MessageSet)]
  BY <1>2, <1>4 DEF Drops, Called, StoreInv, SavedShape
<1>6. /\ x \in ChatSet /\ t \in Seq(CallSet) /\ t # <<>> /\ t[1].call = "drop" /\ y = Tail(t)
      /\ x.id # None /\ x.id \in Ids
  BY <1>1, <1>2, <1>3, <1>4, CallerIs
<1>7. \A v \in Writers \ {w} : chat'[v] = chat[v] /\ todo'[v] = todo[v]
  BY <1>1, <1>5
<1>8. todo'[w] = y /\ chat'[w].id = chat[w].id
  BY <1>1, <1>5
<1>9. \A j \in ToSet(kept') \ {chat[w].id} : messages'[j] = messages[j]
  <2>1. ToSet(kept') \subseteq Ids
    BY <1>1, KeptIsOne
  <2> QED
    BY <1>1, <1>5, <2>1
<1>10. Shows'
  <2>1. ASSUME NEW j \in ToSet(kept') \ redone'
        PROVE  j \in ToSet(kept) \ redone /\ j # chat[w].id /\ Shown(j) \subseteq Shown(j)'
    <3>1. messages'[j] = messages[j] /\ j # chat[w].id
      BY <1>1, <1>9
    <3> QED
      BY <1>1, <3>1 DEF Shown, Get
  <2>2. \A j \in ToSet(kept') \ redone' :
              /\ j \in ToSet(kept) \ redone /\ Shown(j) \subseteq Shown(j)'
              /\ (j = chat[w].id /\ ShownIn(todo[w]) # {}) => ShownIn(todo'[w]) # {} \/ Shown(j)' # {}
    BY <2>1
  <2>3. failures' = 0 => failures = 0
    BY <1>1
  <2> QED
    BY <1>7, <1>8, <2>2, <2>3, StillShows
<1>11. ASSUME failures' = 0, w \in Chats, x.at \in {"idle", "asked"} PROVE Agrees(x, y)'
  <2>1. Agrees(x, t)
    BY <1>1, <1>2, <1>3, <1>11 DEF ShowInv, AgreesOpen
  <2>2. ASSUME x.id \in ToSet(kept'), x.id \notin shared' PROVE y = <<>> /\ Ending(messages'[x.id], y, 0, x.shown)
    <3>1. PICK ms \in Seq(MessageSet) : ms = messages[x.id]
      BY <1>5, <1>6
    <3>2. x.shown \in Seq(MessageSet)
      BY <1>6 DEF ChatSet
    <3>3. Len(t) = 1 /\ AllAlike(UpToQuestion(ms), x.shown)
      BY <1>1, <1>6, <2>1, <2>2, <3>1 DEF Agrees, IsKept
    <3>4. PICK us \in Seq(MessageSet) : us = UpToQuestion(ms)
      BY UpToQuestionOf
    <3>5. Ending(us, <<>>, 0, x.shown)
      BY <3>2, <3>3, <3>4, EndingNone
    <3>6. y = <<>>
      BY <1>6, <3>3, RestOf
    <3>7. messages'[x.id] = us
      BY <1>1, <1>2, <1>5, <1>6, <3>1, <3>4
    <3> QED
      BY <3>5, <3>6, <3>7
  <2>3. CASE x.id \in ToSet(kept') /\ x.id \notin shared'
    BY <1>6, <2>2, <2>3, SavedAgrees
  <2>4. CASE ~(x.id \in ToSet(kept') /\ x.id \notin shared')
    BY <1>6, <2>4 DEF Agrees, IsKept
  <2> QED
    BY <2>3, <2>4
<1>12. x.off => x.id \notin ToSet(kept')
  BY <1>1, <1>2 DEF ShowInv, OffIsGone, IsKept
<1>13. Head(todo[w]).call # "start" /\ ToSet(kept') \subseteq ToSet(kept)
  BY <1>1
<1> HIDE DEF IsKept
<1> QED
  BY <1>1, <1>2, <1>4, <1>5, <1>9, <1>10, <1>11, <1>12, <1>13, CallShows

\* Appending a message keeps what shows.
LEMMA AppendsShows ==
    ASSUME StoreInv, ShowInv, NEW w \in Writers, Appends(w)
    PROVE  ShowInv'
<1>1. /\ todo[w] # <<>> /\ Head(todo[w]).call = "append" /\ Head(todo[w]).call # "start"
      /\ UNCHANGED <<failures, shared, redone>>
  BY DEF Appends
<1>2. PICK i : i = chat[w].id
  OBVIOUS
<1>3. PICK t : t = todo[w]
  OBVIOUS
<1>4. /\ chat[w] \in ChatSet /\ t \in Seq(CallSet) /\ t # <<>> /\ t[1].call = "append" /\ t[1] \in CallSet
      /\ i # None /\ i \in Ids
      /\ chat \in [Writers -> ChatSet] /\ todo \in [Writers -> Seq(CallSet)] /\ messages \in [Ids -> Seq(MessageSet)]
  BY <1>1, <1>2, <1>3, CallerIs DEF StoreInv, SavedShape
<1>5. ASSUME NEW j PROVE messages'[j] = messages[j] => Shown(j) \subseteq Shown(j)'
  BY DEF Shown, Get
<1>6. CASE ~(Active(w) /\ Takes(i))
  <2>1. PICK y : y = IF w = Briefing THEN <<>> ELSE Tail(todo[w])
    OBVIOUS
  <2>2. PICK x : x = [chat[w] EXCEPT !.off = TRUE]
    OBVIOUS
  <2>3. /\ chat' = [chat EXCEPT ![w] = x] /\ todo' = [todo EXCEPT ![w] = y] /\ UNCHANGED <<messages, kept>>
    BY <1>2, <1>4, <1>6, <2>1, <2>2 DEF Appends, Called
  <2>4. /\ x.id = chat[w].id /\ x.pending = chat[w].pending /\ x.context = chat[w].context
        /\ x.at = chat[w].at /\ x.shown = chat[w].shown
    BY <1>4, <2>2 DEF ChatSet
  <2>5. x.id \notin ToSet(kept')
    BY <1>2, <1>6, <2>3, <2>4 DEF Active, Takes, IsKept, ShowInv, OffIsGone
  <2>6. /\ \A v \in Writers \ {w} : chat'[v] = chat[v] /\ todo'[v] = todo[v]
        /\ chat'[w].id = chat[w].id
    BY <1>4, <2>3, <2>4
  <2>7. \A j \in ToSet(kept') \ redone' :
              /\ j \in ToSet(kept) \ redone /\ Shown(j) \subseteq Shown(j)'
              /\ (j = chat[w].id /\ ShownIn(todo[w]) # {}) => ShownIn(todo'[w]) # {} \/ Shown(j)' # {}
    BY <1>1, <1>5, <2>3, <2>4, <2>5
  <2>8. failures' = 0 => failures = 0
    BY <1>1
  <2>9. Shows'
    BY <2>6, <2>7, <2>8, StillShows
  <2>10. Agrees(x, y)'
    BY <1>2, <1>4, <2>4, <2>5 DEF Agrees, IsKept
  <2>11. \A j \in ToSet(kept') \ {chat[w].id} : messages'[j] = messages[j]
    BY <2>3
  <2>12. y = <<>> \/ y = Tail(todo[w])
    BY <2>1
  <2>13. ToSet(kept') \subseteq ToSet(kept)
    BY <2>3
  <2> QED
    BY <1>1, <2>3, <2>4, <2>5, <2>8, <2>9, <2>10, <2>11, <2>12, <2>13, CallShows
<1>7. CASE Active(w) /\ Takes(i)
  <2>1. PICK y : y = Tail(todo[w])
    OBVIOUS
  <2>2. PICK x : x = chat[w]
    OBVIOUS
  <2>3. PICK m : m = t[1].m
    OBVIOUS
  <2>4. /\ messages' = [messages EXCEPT ![i] = Append(messages[i], m)]
        /\ kept' = <<i>> \o Without(kept, i) /\ i \in ToSet(kept)
        /\ chat' = chat /\ todo' = [todo EXCEPT ![w] = y]
    BY <1>1, <1>2, <1>3, <1>4, <1>7, <2>1, <2>3, CallerIs DEF Appends, Called, Takes, IsKept
  <2>5. m \in MessageSet
    BY <1>4, <2>3 DEF CallSet
  <2>6. ToSet(kept') = ToSet(kept)
    <3> DEFINE s == Without(kept, i)
    <3>1. kept \in Seq(Ids) /\ IsInjective(kept)
      BY DEF StoreInv, SavedShape, KeptOnce
    <3>2. s \in Seq(Ids) /\ ToSet(s) = ToSet(kept) \ {i} /\ IsInjective(s)
      BY <2>4, <3>1, WithoutOf
    <3> HIDE DEF s
    <3>3. i \in Ids /\ i \notin ToSet(s)
      BY <1>4, <3>2
    <3>4. ToSet(<<i>> \o s) = ToSet(s) \cup {i}
      BY <3>2, <3>3, PutFirst
    <3> QED
      BY <2>4, <3>2, <3>4 DEF s
  <2>7. messages'[i] = Append(messages[i], m) /\ \A j \in Ids \ {i} : messages'[j] = messages[j]
    BY <1>4, <2>4
  <2>8. \A j \in ToSet(kept') \ {i} : messages'[j] = messages[j]
    BY <2>6, <2>7, KeptIsOne
  <2>9. /\ \A k \in DOMAIN messages[i] : k \in DOMAIN messages'[i] /\ messages'[i][k] = messages[i][k]
        /\ \E k \in DOMAIN messages'[i] : messages'[i][k] = m
    <3>1. messages[i] \in Seq(MessageSet)
      BY <1>4
    <3>2. Len(messages[i]) + 1 \in DOMAIN messages'[i] /\ messages'[i][Len(messages[i]) + 1] = m
      BY <2>5, <2>7, <3>1
    <3> QED
      BY <2>5, <2>7, <3>1, <3>2
  <2>10. Shown(i) \subseteq Shown(i)' /\ (~m.hidden => Shown(i)' # {})
    <3>1. Shown(i) \subseteq Shown(i)'
      BY <2>9 DEF Shown, Get, ToSet
    <3>2. m \in ToSet(messages'[i])
      BY <2>9 DEF ToSet
    <3> QED
      BY <3>1, <3>2 DEF Shown, Get
  <2>11. ShownIn(t) # {} => ShownIn(y) # {} \/ ~m.hidden
    <3> SUFFICES ASSUME NEW k \in ShownIn(t), m.hidden PROVE ShownIn(y) # {}
      OBVIOUS
    <3>1. k # 1
      BY <2>3 DEF ShownIn
    <3> QED
      BY <1>3, <1>4, <2>1, <3>1, TailStillShows
  <2>12. /\ chat'[w].id = chat[w].id /\ todo'[w] = y
         /\ \A v \in Writers \ {w} : chat'[v] = chat[v] /\ todo'[v] = todo[v]
    BY <1>4, <2>4
  <2>13. \A j \in ToSet(kept') \ redone' :
              /\ j \in ToSet(kept) \ redone /\ Shown(j) \subseteq Shown(j)'
              /\ (j = chat[w].id /\ ShownIn(todo[w]) # {}) => ShownIn(todo'[w]) # {} \/ Shown(j)' # {}
    <3> SUFFICES ASSUME NEW j \in ToSet(kept') \ redone'
                 PROVE  /\ j \in ToSet(kept) \ redone /\ Shown(j) \subseteq Shown(j)'
                        /\ (j = chat[w].id /\ ShownIn(todo[w]) # {}) => ShownIn(todo'[w]) # {} \/ Shown(j)' # {}
      OBVIOUS
    <3>1. j \in ToSet(kept) \ redone
      BY <1>1, <2>6
    <3>2. CASE j = i
      BY <1>2, <1>3, <2>10, <2>11, <2>12, <3>1, <3>2
    <3>3. CASE j # i
      BY <1>2, <1>5, <2>8, <3>1, <3>3
    <3> QED
      BY <3>2, <3>3
  <2>14. failures' = 0 => failures = 0
    BY <1>1
  <2>15. Shows'
    BY <2>12, <2>13, <2>14, StillShows
  <2>16. ASSUME failures' = 0, w \in Chats, x.at \in {"idle", "asked"} PROVE Agrees(x, y)'
    <3>1. Agrees(x, t)
      BY <1>1, <1>3, <2>2, <2>16 DEF ShowInv, AgreesOpen
    <3>2. x.id = i /\ x.shown \in Seq(MessageSet)
      BY <1>2, <1>4, <2>2 DEF ChatSet
    <3>3. CASE ~(x.id \in ToSet(kept') /\ x.id \notin shared')
      BY <1>4, <3>2, <3>3 DEF Agrees, IsKept
    <3>4. CASE x.id \in ToSet(kept') /\ x.id \notin shared'
      <4>1. PICK ms \in Seq(MessageSet) : ms = messages[i]
        BY <1>4
      <4>2. Ending(ms, t, 0, x.shown)
        BY <1>1, <1>4, <2>6, <3>1, <3>2, <3>4, <4>1 DEF Agrees, IsKept
      <4>3. Ending(Append(ms, t[1].m), Tail(t), 0, x.shown) /\ (Tail(t) # <<>> => Tail(t)[1].call # "drop")
        BY <1>4, <2>3, <2>5, <3>2, <4>2, MovedEnding
      <4>4. messages'[x.id] = Append(ms, t[1].m) /\ y = Tail(t)
        BY <1>3, <2>1, <2>3, <2>7, <3>2, <4>1
      <4>5. Ending(messages'[x.id], y, 0, x.shown) /\ (y # <<>> => y[1].call # "drop") /\ x.id # None
        BY <1>4, <3>2, <4>3, <4>4
      <4> QED
        BY <4>5, SavedAgrees
    <3> QED
      BY <3>3, <3>4
  <2>17. x.off => x.id \notin ToSet(kept')
    BY <2>2, <1>7 DEF Active
  <2>18. chat' = [chat EXCEPT ![w] = x]
    BY <1>4, <2>2, <2>4
  <2>19. ToSet(kept') \subseteq ToSet(kept) /\ \A j \in ToSet(kept') \ {chat[w].id} : messages'[j] = messages[j]
    BY <1>2, <2>6, <2>8
  <2>20. todo' = [todo EXCEPT ![w] = y]
    BY <2>4
  <2> QED
    BY <1>1, <2>1, <2>2, <2>14, <2>15, <2>16, <2>17, <2>18, <2>19, <2>20, CallShows
<1> QED
  BY <1>6, <1>7

\* A store call that fails keeps what shows.
LEMMA StoreFailsShows ==
    ASSUME StoreInv, ShowInv, NEW w \in Writers, StoreFails(w)
    PROVE  ShowInv'
<1>1. PICK y : y = IF GivesUpAfter(w, Head(todo[w]).call) THEN <<>> ELSE Tail(todo[w])
  OBVIOUS
<1>2. PICK x : x = chat[w]
  OBVIOUS
<1>3. /\ todo[w] # <<>> /\ todo' = [todo EXCEPT ![w] = y] /\ chat' = [chat EXCEPT ![w] = x]
      /\ UNCHANGED <<kept, messages, chat, shared>> /\ failures' # 0
      /\ chat \in [Writers -> ChatSet] /\ todo \in [Writers -> Seq(CallSet)]
  BY <1>1, <1>2 DEF StoreFails, Called, StoreInv, SavedShape
<1>4. Shows'
  BY <1>3 DEF Shows
<1>5. x.off => x.id \notin ToSet(kept')
  BY <1>2, <1>3 DEF ShowInv, OffIsGone, IsKept
<1>6. CASE Head(todo[w]).call # "start"
  <2>1. y = <<>> \/ y = Tail(todo[w])
    BY <1>1
  <2>2. ToSet(kept') \subseteq ToSet(kept) /\ \A j \in ToSet(kept') \ {chat[w].id} : messages'[j] = messages[j]
    BY <1>3
  <2> QED
    BY <1>2, <1>3, <1>4, <1>5, <1>6, <2>1, <2>2, CallShows
<1>7. CASE Head(todo[w]).call = "start"
  <2>1. y = <<>>
    BY <1>1, <1>7 DEF GivesUpAfter
  <2>2. ToShow(x, y)
    BY <1>2, <2>1 DEF ShowInv, CallsShow, ToShow
  <2>3. x.id = None
    BY <1>2, <1>3, <1>7, CallerIs DEF RightCalls, StartsFirst
  <2>4. shared \subseteq shared' /\ \A v \in Writers \ {w} : chat[v].id \in ToSet(kept') => chat[v].id \in ToSet(kept)
    BY <1>3
  <2> QED
    BY <1>3, <1>4, <1>5, <2>2, <2>3, <2>4, OneShows
<1> QED
  BY <1>6, <1>7

\* A deletion keeps no more than was kept, and what is kept as it was.
LEMMA FromTheListKeeps ==
    ASSUME StoreInv, FromTheList
    PROVE  /\ UNCHANGED <<chat, todo, failures, shared, redone>>
           /\ \A j \in ToSet(kept') : j \in ToSet(kept) /\ messages'[j] = messages[j]
<1>1. /\ kept \in Seq(Ids) /\ IsInjective(kept) /\ messages \in [Ids -> Seq(MessageSet)]
      /\ \A j \in ToSet(kept) : j \in Ids
  BY KeptIsOne DEF StoreInv, SavedShape, KeptOnce
<1>2. CASE DeletesAll
  <2>1. ToSet(kept') = {}
    BY <1>2 DEF DeletesAll, ToSet
  <2> QED
    BY <1>2, <2>1 DEF DeletesAll
<1>3. ASSUME NEW i \in Listed, Deletes(i)
      PROVE  /\ UNCHANGED <<chat, todo, failures, shared, redone>>
             /\ \A j \in ToSet(kept') : j \in ToSet(kept) /\ messages'[j] = messages[j]
  <2>1. ToSet(Without(kept, i)) = ToSet(kept) \ {i}
    BY <1>1, WithoutOf DEF Listed
  <2>2. kept' = Without(kept, i) /\ messages' = [messages EXCEPT ![i] = <<>>]
    BY <1>3 DEF Deletes
  <2> HIDE DEF Without
  <2>3. \A j \in ToSet(kept') : j \in ToSet(kept) /\ messages'[j] = messages[j]
    BY <1>1, <2>1, <2>2
  <2> QED
    BY <1>3, <2>3 DEF Deletes
<1>4. ASSUME NEW i \in Listed, Renames(i)
      PROVE  /\ UNCHANGED <<chat, todo, failures, shared, redone>>
             /\ \A j \in ToSet(kept') : j \in ToSet(kept) /\ messages'[j] = messages[j]
  BY <1>4 DEF Renames
<1> QED
  BY <1>2, <1>3, <1>4 DEF FromTheList

\* What the invariant says stays so when all that was kept and isn't is gone.
LEMMA ListShows ==
    ASSUME ShowInv, NEW w \in Writers, chat \in [Writers -> ChatSet], todo \in [Writers -> Seq(CallSet)],
           UNCHANGED <<chat, todo, failures, shared, redone>>,
           \A j \in ToSet(kept') : j \in ToSet(kept) /\ messages'[j] = messages[j]
    PROVE  ShowInv'
<1> USE DEF ShowInv
<1>1. CallsShow'
  BY DEF CallsShow
<1>2. OffIsGone'
  BY DEF OffIsGone, IsKept
<1>3. SharedAreNoted'
  BY DEF SharedAreNoted, Writing
<1>4. Shows'
  <2> SUFFICES ASSUME failures' = 0, NEW j \in ToSet(kept') \ redone' PROVE (Shown(j) # {} \/ AboutToShow(j))'
    BY DEF Shows
  <2>1. Shown(j)' = Shown(j) /\ (AboutToShow(j) => AboutToShow(j)')
    BY DEF Shown, Get, AboutToShow
  <2>2. Shown(j) # {} \/ AboutToShow(j)
    BY DEF Shows
  <2> QED
    BY <2>1, <2>2
<1>5. AgreesOpen'
  <2> SUFFICES ASSUME failures' = 0, NEW c \in Chats, chat'[c].at \in {"idle", "asked"}
               PROVE  Agrees(chat[c], todo[c])'
    BY DEF AgreesOpen
  <2>1. PICK x : x = chat[c]
    OBVIOUS
  <2>2. PICK y : y = todo[c]
    OBVIOUS
  <2>3. Agrees(x, y)
    BY <2>1, <2>2 DEF AgreesOpen
  <2>4. Agrees(x, y)'
    BY <2>3, AgreesOn
  <2>5. chat'[c] = x /\ todo'[c] = y
    BY <2>1, <2>2
  <2> QED
    BY <2>4, <2>5
<1> QED
  BY <1>1, <1>2, <1>3, <1>4, <1>5

\* Starting a conversation keeps what shows.
LEMMA StartsShows ==
    ASSUME StoreInv, ShowInv, NEW w \in Writers, Starts(w)
    PROVE  ShowInv'
<1>1. PICK n : n = ids + 1
  OBVIOUS
<1>2. PICK t : t = todo[w]
  OBVIOUS
<1>3. PICK y : y = Tail(todo[w])
  OBVIOUS
<1>4. PICK x : x = [chat[w] EXCEPT !.id = n, !.pending = <<>>]
  OBVIOUS
<1>5. /\ t # <<>> /\ t \in Seq(CallSet) /\ y = Tail(t) /\ t[1].call = "start" /\ t[1] \in CallSet
      /\ chat[w] \in ChatSet /\ RightCalls(chat[w], t, asked) /\ Head(t) = t[1]
      /\ ids < MaxConversations /\ UNCHANGED <<failures, shared, redone>>
  BY <1>2, <1>3, CallerIs DEF Starts
<1>6. /\ kept' = <<n>> \o Recent(kept)
      /\ messages' = [j \in Ids |-> IF j \in Stale(kept) THEN <<>> ELSE messages[j]]
      /\ todo' = [todo EXCEPT ![w] = y] /\ chat' = [chat EXCEPT ![w] = x]
      /\ chat \in [Writers -> ChatSet] /\ todo \in [Writers -> Seq(CallSet)]
  <2>1. chat \in [Writers -> ChatSet] /\ todo \in [Writers -> Seq(CallSet)]
    BY DEF StoreInv, SavedShape
  <2>2. chat' = [chat EXCEPT ![w].id = n, ![w].pending = <<>>]
    BY <1>1 DEF Starts, NewId
  <2>3. chat' = [chat EXCEPT ![w] = x]
    BY <1>4, <2>1, <2>2
  <2> QED
    BY <1>1, <1>3, <2>1, <2>3 DEF Starts, NewId, Called
<1>7. /\ n # None /\ n \in Ids /\ n \notin ToSet(kept) /\ \A v \in Writers : chat[v].id # n
  <2>1. ids \in Nat /\ n \notin 0..ids /\ n \notin 1..ids /\ n # None /\ n \in Ids
    BY <1>1, <1>5, SavedConstants DEF StoreInv, SavedShape, Ids, None
  <2> QED
    BY <2>1 DEF StoreInv, KeptOnce
<1>8. /\ x.id = n /\ x.pending = <<>> /\ x.context = chat[w].context /\ x.at = chat[w].at
      /\ x.shown = chat[w].shown /\ x.off = chat[w].off /\ x.shown \in Seq(MessageSet)
  BY <1>4, <1>5 DEF ChatSet
<1>9. chat[w].id = None
  BY <1>5 DEF RightCalls, StartsFirst
<1>10. ToShow(chat[w], t)
  BY <1>2 DEF ShowInv, CallsShow
<1>11. ToSet(kept') = (ToSet(kept) \ Stale(kept)) \cup {n}
  <2> DEFINE others == Recent(kept)
  <2>1. kept \in Seq(Ids) /\ IsInjective(kept) /\ Keep \in Nat \ {0}
    BY SavedConstants DEF StoreInv, SavedShape, KeptOnce
  <2>2. others \in Seq(Ids) /\ ToSet(others) = ToSet(kept) \ Stale(kept) /\ IsInjective(others)
    BY <2>1, RecentOf
  <2> HIDE DEF others
  <2>3. n \notin ToSet(others)
    BY <1>7, <2>2
  <2>4. ToSet(<<n>> \o others) = ToSet(others) \cup {n}
    BY <1>7, <2>2, <2>3, PutFirst
  <2>5. kept' = <<n>> \o others
    BY <1>6 DEF others
  <2> QED
    BY <2>2, <2>4, <2>5
<1>12. \A j \in ToSet(kept') \ {n} : j \in ToSet(kept) /\ messages'[j] = messages[j]
  BY <1>6, <1>11, KeptIsOne
<1>13. messages'[n] = <<>>
  <2>1. messages[n] = <<>>
    BY <1>7 DEF StoreInv, NothingLeftBehind, IsKept
  <2> QED
    BY <1>6, <1>7, <2>1
<1>14. /\ chat'[w] = x /\ todo'[w] = y
       /\ \A v \in Writers \ {w} : chat'[v] = chat[v] /\ todo'[v] = todo[v]
  BY <1>6
<1>15. ShownIn(y) # {}
  <2>1. PICK k : k \in ShownIn(t)
    BY <1>5, <1>10 DEF ToShow
  <2>2. k # 1
    BY <1>5, <2>1 DEF ShownIn
  <2> QED
    BY <1>5, <2>1, <2>2, TailStillShows
<1>16. Shows'
  <2> SUFFICES ASSUME failures' = 0, NEW j \in ToSet(kept') \ redone' PROVE (Shown(j) # {} \/ AboutToShow(j))'
    BY DEF Shows
  <2>1. CASE j = n
    BY <1>8, <1>14, <1>15, <2>1 DEF AboutToShow
  <2>2. CASE j # n
    <3>1. j \in ToSet(kept) \ redone /\ messages'[j] = messages[j]
      BY <1>5, <1>12, <2>2
    <3>2. Shown(j) # {} \/ AboutToShow(j)
      BY <1>5, <3>1 DEF ShowInv, Shows
    <3>3. CASE Shown(j) # {}
      BY <3>1, <3>3 DEF Shown, Get
    <3>4. CASE AboutToShow(j)
      <4>1. PICK v \in Writers : chat[v].id = j /\ ShownIn(todo[v]) # {}
        BY <3>4 DEF AboutToShow
      <4>2. v # w
        BY <1>9, <3>1, <4>1, KeptIsOne
      <4>3. chat'[v].id = j /\ ShownIn(todo'[v]) # {}
        BY <1>14, <4>1, <4>2
      <4> QED
        BY <4>3 DEF AboutToShow
    <3> QED
      BY <3>2, <3>3, <3>4
  <2> QED
    BY <2>1, <2>2
<1>17. ToShow(x, y)
  <2>1. ASSUME y # <<>> PROVE y[1].call # "start"
    <3>1. /\ y # <<>> => 1 \in DOMAIN y
          /\ \A k \in DOMAIN y : k + 1 \in DOMAIN t /\ k + 1 # 1 /\ y[k] = t[k + 1]
      BY <1>5, TailOf
    <3>2. \A k \in DOMAIN t : k # 1 => t[k].call # "start"
      BY <1>5 DEF RightCalls, StartsFirst
    <3> QED
      BY <2>1, <3>1, <3>2
  <2> QED
    BY <1>7, <1>8, <1>10, <2>1 DEF ToShow
<1>18. ~x.off
  BY <1>8, <1>9, <1>10 DEF ToShow
<1>19. ASSUME failures' = 0, w \in Chats, x.at \in {"idle", "asked"} PROVE Agrees(x, y)'
  <2>1. Agrees(chat[w], t)
    BY <1>2, <1>5, <1>8, <1>19 DEF ShowInv, AgreesOpen
  <2>2. Ending(<<>>, t, 1, x.shown)
    BY <1>5, <1>8, <1>9, <2>1 DEF Agrees
  <2>3. Ending(<<>>, Tail(t), 0, x.shown) /\ (Tail(t) # <<>> => Tail(t)[1].call # "drop")
    BY <1>5, <1>8, <2>2, StartedEnding
  <2>4. Ending(messages'[x.id], y, 0, x.shown) /\ (y # <<>> => y[1].call # "drop") /\ x.id # None
    BY <1>5, <1>7, <1>8, <1>13, <2>3
  <2> QED
    BY <2>4, SavedAgrees
<1>20. \A v \in Writers \ {w} : chat[v].id \in ToSet(kept') => chat[v].id \in ToSet(kept)
  BY <1>7, <1>12
<1>21. \A v \in Writers \ {w} :
          (x.id # None /\ chat[v].id = x.id /\ (w \in Chats \/ y # <<>>) /\ Writing(v)) => x.id \in shared'
  BY <1>7, <1>8
<1>22. \A c \in Chats \ {w} :
          (/\ failures' = 0 /\ chat[c].id # None
           /\ chat[c].id \in ToSet(kept') /\ chat[c].id \notin shared')
          => messages'[chat[c].id] = messages[chat[c].id]
  BY <1>7, <1>12 DEF Writers
<1>23. shared \subseteq shared' /\ (failures' = 0 => failures = 0)
  BY <1>5
<1> QED
  BY <1>6, <1>16, <1>17, <1>18, <1>19, <1>20, <1>21, <1>22, <1>23, OneShows
-----------------------------------------------------------------------------
\* Nothing is saved at first, so it shows.
LEMMA ShowInit ==
    ASSUME SavedInit
    PROVE  ShowInv
<1> USE DEF SavedInit
<1>1. /\ ToSet(kept) = {} /\ \A w \in Writers : chat[w] = Closed /\ todo[w] = <<>>
      /\ \A c \in Chats : c \in Writers
  BY DEF ToSet, Writers
<1>2. /\ Closed.at = "closed" /\ Closed.id = None /\ ~Closed.off /\ Closed.pending = <<>>
  BY ClosedIsAChat
<1>3. CallsShow
  <2>1. ToShow(Closed, <<>>)
    BY <1>2 DEF ToShow
  <2> QED
    BY <1>1, <2>1 DEF CallsShow
<1>4. OffIsGone /\ SharedAreNoted /\ AgreesOpen
  BY <1>1, <1>2 DEF OffIsGone, SharedAreNoted, AgreesOpen
<1>5. Shows
  BY <1>1 DEF Shows
<1> QED
  BY <1>3, <1>4, <1>5 DEF ShowInv

\* Every step of the chat keeps what shows.
LEMMA ShowStep ==
    ASSUME StoreInv, ShowInv, [SavedNext]_savedVars
    PROVE  ShowInv'
<1>1. Briefing \in Writers /\ chat \in [Writers -> ChatSet] /\ todo \in [Writers -> Seq(CallSet)]
  BY DEF Writers, StoreInv, SavedShape
<1>2. CASE UNCHANGED savedVars
  <2>1. UNCHANGED <<chat, todo, failures, shared, redone>> /\ kept' = kept /\ messages' = messages
    BY <1>2 DEF savedVars
  <2>2. \A j \in ToSet(kept') : j \in ToSet(kept) /\ messages'[j] = messages[j]
    BY <2>1
  <2> QED
    BY <1>1, <2>1, <2>2, ListShows
<1>3. ASSUME NEW c \in Chats, Opens(c) \/ Leaves(c) \/ Asks(c) \/ Retries(c) \/ TurnEnds(c)
      PROVE  ShowInv'
  BY <1>3, OpensShows, LeavesShows, AsksShows, RetriesShows, TurnEndsShows
<1>4. CASE ChecksIn
  BY <1>4, ChecksInShows
<1>5. ASSUME NEW w \in Writers, Starts(w) \/ Appends(w) \/ Records(w) \/ Drops(w) \/ StoreFails(w)
      PROVE  ShowInv'
  BY <1>5, StartsShows, AppendsShows, RecordsShows, DropsShows, StoreFailsShows
<1>6. CASE FromTheList
  BY <1>1, <1>6, FromTheListKeeps, ListShows
<1> QED
  BY <1>2, <1>3, <1>4, <1>5, <1>6 DEF SavedNext

\* A message is its five fields.
LEMMA MessageIsItsFields ==
    ASSUME NEW u \in MessageSet
    PROVE  u = [role |-> u.role, of |-> u.of, hidden |-> u.hidden, text |-> u.text, ran |-> u.ran]
BY DEF MessageSet

\* Messages that agree on every field are one.
LEMMA SameMessage ==
    ASSUME NEW u \in MessageSet, NEW v \in MessageSet, u.role = v.role, u.of = v.of, u.hidden = v.hidden,
           u.text = v.text, u.ran = v.ran
    PROVE  u = v
<1>1. u = [role |-> u.role, of |-> u.of, hidden |-> u.hidden, text |-> u.text, ran |-> u.ran]
  BY MessageIsItsFields
<1>2. v = [role |-> v.role, of |-> v.of, hidden |-> v.hidden, text |-> v.text, ran |-> v.ran]
  BY MessageIsItsFields
<1>3. [role |-> u.role, of |-> u.of, hidden |-> u.hidden, text |-> u.text, ran |-> u.ran]
      = [role |-> v.role, of |-> v.of, hidden |-> v.hidden, text |-> v.text, ran |-> v.ran]
  OBVIOUS
<1> QED
  BY <1>1, <1>2, <1>3

\* Alike transcripts are the same but for what is hidden.
LEMMA AllAlikeBare ==
    ASSUME NEW ms \in Seq(MessageSet), NEW ns \in Seq(MessageSet), AllAlike(ms, ns)
    PROVE  [k \in DOMAIN ms |-> [ms[k] EXCEPT !.hidden = FALSE]] = [k \in DOMAIN ns |-> [ns[k] EXCEPT !.hidden = FALSE]]
<1>1. DOMAIN ms = DOMAIN ns
  BY DEF AllAlike
<1>2. ASSUME NEW k \in DOMAIN ms
      PROVE  [ms[k] EXCEPT !.hidden = FALSE] = [ns[k] EXCEPT !.hidden = FALSE]
  <2>1. ms[k] \in MessageSet /\ ns[k] \in MessageSet /\ Alike(ms[k], ns[k])
    BY <1>1 DEF AllAlike
  <2>2. PICK u : u = [ms[k] EXCEPT !.hidden = FALSE]
    OBVIOUS
  <2>3. PICK v : v = [ns[k] EXCEPT !.hidden = FALSE]
    OBVIOUS
  <2>4. /\ u \in MessageSet /\ v \in MessageSet /\ u.role = v.role /\ u.of = v.of
        /\ u.hidden = v.hidden /\ u.text = v.text /\ u.ran = v.ran
    BY <2>1, <2>2, <2>3 DEF Alike, MessageSet
  <2>5. u = v
    BY <2>4, SameMessage
  <2> QED
    BY <2>2, <2>3, <2>5
<1> QED
  BY <1>1, <1>2

(* A chat reopens as it was: unless a store call failed, each saved        *)
(* conversation that nobody is still writing has something to show, and    *)
(* one at rest is saved as its app sees it, through retries, stops and     *)
(* failed turns (saved.go:44-120).                                         *)
THEOREM ReopensAsItWasHolds == SavedSpec => []ReopensAsItWas
<1>1. SavedInit => StoreInv /\ ShowInv
  BY StoreInit, ShowInit
<1>2. (StoreInv /\ ShowInv) /\ [SavedNext]_savedVars => (StoreInv /\ ShowInv)'
  BY StoreStep, ShowStep
<1>3. StoreInv /\ ShowInv => ReopensAsItWas
  <2> SUFFICES ASSUME StoreInv, ShowInv PROVE ReopensAsItWas
    OBVIOUS
  <2>1. HasSomethingToShow
    <3> SUFFICES ASSUME failures = 0, NEW i \in ToSet(kept) \ redone,
                        ~\E w \in Writers : chat[w].id = i /\ todo[w] # <<>>
                 PROVE  Shown(i) # {}
      BY DEF HasSomethingToShow
    <3>1. ~AboutToShow(i)
      BY NothingShown DEF AboutToShow
    <3> QED
      BY <3>1 DEF ShowInv, Shows
  <2>2. ASSUME failures = 0, NEW c \in Chats, AtRest(c), chat[c].id # None, IsKept(chat[c].id), chat[c].id \notin shared
        PROVE  /\ messages[chat[c].id] \in Seq(MessageSet) /\ chat[c].shown \in Seq(MessageSet)
               /\ AllAlike(messages[chat[c].id], chat[c].shown)
    <3>1. messages[chat[c].id] \in Seq(MessageSet)
      BY <2>2, KeptIsOne DEF IsKept
    <3>2. chat[c].shown \in Seq(MessageSet)
      BY DEF StoreInv, SavedShape, Writers, ChatSet
    <3>3. chat[c].at = "idle" /\ todo[c] = <<>>
      BY <2>2 DEF AtRest
    <3>4. Agrees(chat[c], <<>>)
      BY <2>2, <3>3 DEF ShowInv, AgreesOpen
    <3>5. Ending(messages[chat[c].id], <<>>, 0, chat[c].shown)
      BY <2>2, <3>4 DEF Agrees
    <3> QED
      BY <3>1, <3>2, <3>5, EndingNone
  <2>3. SavedAsShown
    <3> SUFFICES ASSUME failures = 0, NEW c \in Chats, AtRest(c), chat[c].id # None, IsKept(chat[c].id),
                        chat[c].id \notin shared
                 PROVE  [k \in DOMAIN messages[chat[c].id] |-> [messages[chat[c].id][k] EXCEPT !.hidden = FALSE]]
                        = [k \in DOMAIN chat[c].shown |-> [chat[c].shown[k] EXCEPT !.hidden = FALSE]]
      BY DEF SavedAsShown
    <3> QED
      BY <2>2, AllAlikeBare
  <2> QED
    BY <2>1, <2>3 DEF ReopensAsItWas
<1> QED
  BY <1>1, <1>2, <1>3, PTL DEF SavedSpec
-----------------------------------------------------------------------------
(* What replayable gives a model to read. *)

\* Reading the first k of ms: g is what has been taken after each of them.
Reads(ms, g, k) == g = [n \in 0..k |-> IF n = 0 THEN <<>> ELSE Taken(g[n - 1], ms[n])]

\* What reading so far says, one by one.
LEMMA ReadsOf ==
    ASSUME NEW ms, NEW g, NEW k \in Nat, Reads(ms, g, k)
    PROVE  /\ g[0] = <<>>
           /\ \A n \in 1..k : g[n] = Taken(g[n - 1], ms[n])
<1>1. \A n \in 0..k : g[n] = IF n = 0 THEN <<>> ELSE Taken(g[n - 1], ms[n])
  BY DEF Reads
<1>2. 0 \in 0..k /\ \A n \in 1..k : n \in 0..k /\ n # 0
  OBVIOUS
<1> QED
  BY <1>1, <1>2, Zenon

\* One more message can be read.
LEMMA ReadsOn ==
    ASSUME NEW ms, NEW g, NEW k \in Nat, k > 0, Reads(ms, g, k - 1)
    PROVE  \E h : Reads(ms, h, k)
<1> DEFINE h == [n \in 0..k |-> IF n < k THEN g[n] ELSE Taken(g[k - 1], ms[k])]
<1>1. g[0] = <<>> /\ \A n \in 1..(k - 1) : g[n] = Taken(g[n - 1], ms[n])
  <2>1. k - 1 \in Nat
    OBVIOUS
  <2> QED
    BY <2>1, ReadsOf
<1>2. ASSUME NEW n \in 0..k
      PROVE  h[n] = IF n = 0 THEN <<>> ELSE Taken(h[n - 1], ms[n])
  <2>1. CASE n = 0
    BY <1>1, <2>1
  <2>2. CASE n # 0 /\ n < k
    <3>1. n \in 1..(k - 1) /\ n - 1 \in 0..k /\ n - 1 < k
      BY <2>2
    <3>2. h[n] = g[n] /\ h[n - 1] = g[n - 1]
      BY <2>2, <3>1
    <3> HIDE DEF h
    <3>3. h[n] = Taken(h[n - 1], ms[n])
      BY <1>1, <3>1, <3>2
    <3> QED
      BY <2>2, <3>3
  <2>3. CASE n # 0 /\ n = k
    <3>1. k - 1 \in 0..k /\ k - 1 < k
      BY <2>3
    <3>2. h[k] = Taken(g[k - 1], ms[k]) /\ h[k - 1] = g[k - 1]
      BY <3>1
    <3> HIDE DEF h
    <3>3. h[n] = Taken(h[n - 1], ms[n])
      BY <2>3, <3>2
    <3> QED
      BY <2>3, <3>3
  <2> QED
    BY <2>1, <2>2, <2>3
<1>3. h = [n \in 0..k |-> h[n]]
  OBVIOUS
<1> HIDE DEF h
<1>4. h = [n \in 0..k |-> IF n = 0 THEN <<>> ELSE Taken(h[n - 1], ms[n])]
  BY <1>2, <1>3
<1> QED
  BY <1>4 DEF Reads

\* So all of them can.
LEMMA ReadsAll ==
    ASSUME NEW ms, NEW k \in Nat
    PROVE  \E g : Reads(ms, g, k)
<1> DEFINE T == {n \in Nat : ~\E g : Reads(ms, g, n)}
<1>1. SUFFICES ASSUME T # {} PROVE FALSE
  OBVIOUS
<1>2. PICK n \in T : \A j \in T : n =< j
  <2>1. T \in SUBSET Nat
    OBVIOUS
  <2> HIDE DEF T
  <2> QED
    BY <1>1, <2>1, SmallestOf
<1>3. n \in Nat /\ ~\E g : Reads(ms, g, n)
  OBVIOUS
<1>4. CASE n = 0
  <2> DEFINE g == [j \in 0..0 |-> <<>>]
  <2>1. g = [j \in 0..0 |-> IF j = 0 THEN <<>> ELSE Taken(g[j - 1], ms[j])]
    <3>1. \A j \in 0..0 : j = 0
      OBVIOUS
    <3>2. \A j \in 0..0 : <<>> = IF j = 0 THEN <<>> ELSE Taken(g[j - 1], ms[j])
      BY <3>1
    <3> QED
      BY <3>2
  <2> HIDE DEF g
  <2> QED
    BY <1>3, <1>4, <2>1 DEF Reads
<1>5. CASE n # 0
  <2>1. n - 1 \in Nat /\ n > 0 /\ ~(n =< n - 1)
    BY <1>3, <1>5
  <2>2. n - 1 \notin T
    <3> HIDE DEF T
    <3> QED
      BY <1>2, <2>1
  <2>3. PICK g : Reads(ms, g, n - 1)
    BY <2>1, <2>2
  <2> QED
    BY <1>3, <2>1, <2>3, ReadsOn
<1> QED
  BY <1>4, <1>5

\* replayable is a loop over the messages: its result is what has been taken
\* once all of them are read.
LEMMA ReplayableReads ==
    ASSUME NEW ms, Len(ms) \in Nat
    PROVE  \E g : Reads(ms, g, Len(ms)) /\ Replayable(ms) = g[Len(ms)]
<1> DEFINE h == CHOOSE g : g = [n \in 0..Len(ms) |-> IF n = 0 THEN <<>> ELSE Taken(g[n - 1], ms[n])]
<1>1. \E g : g = [n \in 0..Len(ms) |-> IF n = 0 THEN <<>> ELSE Taken(g[n - 1], ms[n])]
  BY ReadsAll DEF Reads
<1>2. h = [n \in 0..Len(ms) |-> IF n = 0 THEN <<>> ELSE Taken(h[n - 1], ms[n])]
  BY <1>1
<1>3. Replayable(ms) = h[Len(ms)]
  BY DEF Replayable
<1> HIDE DEF h
<1> QED
  BY <1>2, <1>3 DEF Reads

-----------------------------------------------------------------------------
\* What a model is given alternates, the user first.
RoleAt(k) == IF k % 2 = 1 THEN "user" ELSE "assistant"
Blocks == [role : Roles, of : SUBSET Nat]
Alternates(out) == out \in Seq(Blocks) /\ \A k \in DOMAIN out : out[k].role = RoleAt(k)
\* The turns that one side's words, as they are read, are of.
OfRole(out, r) == UNION {out[k].of : k \in {k \in DOMAIN out : out[k].role = r}}

LEMMA RolesTakeTurns ==
    ASSUME NEW k \in Nat
    PROVE  RoleAt(k) \in Roles /\ RoleAt(k + 1) \in Roles /\ RoleAt(k) # RoleAt(k + 1)
<1>1. k % 2 \in {0, 1} /\ (k + 1) % 2 = IF k % 2 = 1 THEN 0 ELSE 1
  OBVIOUS
<1> QED
  BY <1>1 DEF RoleAt, Roles

\* The only role a message has that isn't the last one's is the next one's.
LEMMA NextRole ==
    ASSUME NEW k \in Nat, NEW r \in Roles, r # RoleAt(k)
    PROVE  r = RoleAt(k + 1)
BY RolesTakeTurns DEF Roles

\* The roles the code reads are those a message has: the first is the user's.
LEMMA UserIsFirst == RoleAt(1) = "user"
  BY DEF RoleAt

\* A block joined is as it was but for what it is of.
LEMMA BlockWith ==
    ASSUME NEW b \in Blocks, NEW X
    PROVE  [b EXCEPT !.of = X] = [role |-> b.role, of |-> X]
<1>1. b = [role |-> b.role, of |-> b.of]
  BY DEF Blocks
<1>2. PICK r : r = b.role
  OBVIOUS
<1>3. PICK o : o = b.of
  OBVIOUS
<1>4. [[role |-> r, of |-> o] EXCEPT !.of = X] = [role |-> r, of |-> X]
  OBVIOUS
<1> QED
  BY <1>1, <1>2, <1>3, <1>4

\* A message taken keeps what was told, and in order; one that says something
\* is told from the user's first on.
LEMMA TakenOf ==
    ASSUME NEW out, Alternates(out), NEW m \in MessageSet
    PROVE  /\ Alternates(Taken(out, m))
           /\ \A r \in Roles : OfRole(out, r) \subseteq OfRole(Taken(out, m), r)
           /\ out # <<>> => Taken(out, m) # <<>>
           /\ Told(m) /\ (out # <<>> \/ m.role = "user") =>
                 Taken(out, m) # <<>> /\ m.of \in OfRole(Taken(out, m), m.role)
<1> DEFINE n == Len(out)
<1>1. /\ out \in Seq(Blocks) /\ n \in Nat /\ DOMAIN out = 1..n
      /\ \A k \in 1..n : out[k] \in Blocks /\ out[k].role = RoleAt(k)
      /\ m.role \in Roles /\ m.of \in Nat
      /\ out # <<>> => n # 0 /\ n \in 1..n
  BY DEF Alternates, MessageSet
<1>2. CASE ~Told(m) \/ (out = <<>> /\ m.role # "user")
  <2>1. Taken(out, m) = out
    BY <1>2 DEF Taken
  <2> QED
    BY <1>2, <2>1
<1>3. CASE Told(m) /\ out # <<>> /\ Last(out).role = m.role
  <2> DEFINE b == [role |-> out[n].role, of |-> out[n].of \cup {m.of}]
             t == [out EXCEPT ![n] = b]
  <2>1. n \in 1..n /\ n # 0 /\ out[n] \in Blocks /\ b \in Blocks
    BY <1>1, <1>3 DEF Blocks
  <2>2. Taken(out, m) = t
    <3>1. Taken(out, m) = [out EXCEPT ![Len(out)].of = @ \cup {m.of}]
      BY <1>3 DEF Taken
    <3>2. [out[n] EXCEPT !.of = @ \cup {m.of}] = b
      BY <2>1, BlockWith
    <3> QED
      BY <3>1, <3>2
  <2>3. /\ t \in Seq(Blocks) /\ Len(t) = n /\ DOMAIN t = 1..n
        /\ t[n] = b /\ \A k \in 1..n : k # n => t[k] = out[k]
    BY <1>1, <2>1
  <2>8. b.role = out[n].role /\ out[n].of \subseteq b.of /\ m.of \in b.of
    OBVIOUS
  <2> HIDE DEF t, b
  <2>4. \A k \in 1..n : t[k].role = out[k].role /\ out[k].of \subseteq t[k].of
    BY <2>3, <2>8
  <2>5. Alternates(t)
    BY <1>1, <2>3, <2>4 DEF Alternates
  <2>6. \A r \in Roles : OfRole(out, r) \subseteq OfRole(t, r)
    <3> SUFFICES ASSUME NEW r \in Roles, NEW k \in 1..n, out[k].role = r, NEW u \in out[k].of
                 PROVE  u \in OfRole(t, r)
      BY <1>1 DEF OfRole
    <3>1. k \in DOMAIN t /\ t[k].role = r /\ u \in t[k].of
      BY <2>3, <2>4
    <3> QED
      BY <3>1 DEF OfRole
  <2>7. m.of \in OfRole(t, m.role) /\ t # <<>>
    <3>1. m.of \in t[n].of /\ n \in DOMAIN t /\ t[n].role = m.role
      <4>1. Last(out) = out[n]
        BY DEF Last
      <4> QED
        BY <1>3, <2>1, <2>3, <2>4, <2>8, <4>1
    <3>2. m.of \in OfRole(t, m.role)
      BY <3>1 DEF OfRole
    <3> QED
      BY <2>1, <2>3, <3>2
  <2> QED
    BY <2>2, <2>5, <2>6, <2>7
<1>4. CASE Told(m) /\ ~(out = <<>> /\ m.role # "user") /\ ~(out # <<>> /\ Last(out).role = m.role)
  <2> DEFINE b == [role |-> m.role, of |-> {m.of}]
             t == Append(out, b)
  <2>1. b \in Blocks
    BY <1>1 DEF Blocks
  <2>2. Taken(out, m) = t
    BY <1>4 DEF Taken
  <2>3. /\ t \in Seq(Blocks) /\ Len(t) = n + 1 /\ DOMAIN t = 1..(n + 1) /\ t # <<>>
        /\ t[n + 1] = b /\ \A k \in 1..n : t[k] = out[k]
    BY <1>1, <2>1
  <2> HIDE DEF t
  <2>4. b.role = RoleAt(n + 1)
    <3>1. CASE out = <<>>
      <4>1. n = 0
        BY <3>1
      <4> QED
        BY <1>4, <3>1, <4>1, UserIsFirst
    <3>2. CASE out # <<>>
      <4>1. Last(out) = out[n]
        BY DEF Last
      <4>2. m.role # RoleAt(n)
        BY <1>1, <1>4, <3>2, <4>1
      <4> QED
        BY <1>1, <4>2, NextRole
    <3> QED
      BY <3>1, <3>2
  <2>5. \A k \in 1..(n + 1) : t[k].role = RoleAt(k)
    <3>1. \A k \in 1..(n + 1) : k \in 1..n \/ k = n + 1
      BY <1>1
    <3> QED
      BY <1>1, <2>3, <2>4, <3>1
  <2>6. Alternates(t)
    BY <2>3, <2>5 DEF Alternates
  <2>7. \A r \in Roles : OfRole(out, r) \subseteq OfRole(t, r)
    <3>1. \A k \in 1..n : k \in 1..(n + 1)
      BY <1>1
    <3> QED
      BY <1>1, <2>3, <3>1 DEF OfRole
  <2>8. m.of \in OfRole(t, m.role)
    <3>1. n + 1 \in DOMAIN t /\ m.of \in t[n + 1].of /\ t[n + 1].role = m.role
      BY <1>1, <2>3
    <3> QED
      BY <3>1 DEF OfRole
  <2> QED
    BY <2>2, <2>3, <2>6, <2>7, <2>8
<1> QED
  BY <1>2, <1>3, <1>4

\* With a question first, nothing that says something is left untold.
AsksFirst(ms) == ms # <<>> => ms[1].role = "user" /\ ms[1].text
ReadSo(ms, g, n) ==
    /\ Alternates(g[n])
    /\ AsksFirst(ms) => /\ n # 0 => g[n] # <<>>
                        /\ \A k \in 1..n : Told(ms[k]) => ms[k].of \in OfRole(g[n], ms[k].role)

LEMMA OneMoreRead ==
    ASSUME NEW ms \in Seq(MessageSet), NEW g, Reads(ms, g, Len(ms)),
           NEW n \in 1..Len(ms), ReadSo(ms, g, n - 1)
    PROVE  ReadSo(ms, g, n)
<1>1. /\ Len(ms) \in Nat /\ n \in Nat /\ n - 1 \in Nat /\ n \in 1..Len(ms)
      /\ ms[n] \in MessageSet /\ g[n] = Taken(g[n - 1], ms[n])
  BY ReadsOf
<1>2. /\ Alternates(g[n])
      /\ \A r \in Roles : OfRole(g[n - 1], r) \subseteq OfRole(g[n], r)
      /\ g[n - 1] # <<>> => g[n] # <<>>
      /\ Told(ms[n]) /\ (g[n - 1] # <<>> \/ ms[n].role = "user") => g[n] # <<>> /\ ms[n].of \in OfRole(g[n], ms[n].role)
  BY <1>1, TakenOf DEF ReadSo
<1>3. ASSUME AsksFirst(ms)
      PROVE  g[n] # <<>> /\ (Told(ms[n]) => ms[n].of \in OfRole(g[n], ms[n].role))
  <2>1. CASE n = 1
    <3>1. ms[n].role = "user" /\ Told(ms[n])
      BY <1>1, <1>3, <2>1 DEF AsksFirst, Told
    <3> QED
      BY <1>2, <3>1
  <2>2. CASE n # 1
    <3>1. n - 1 # 0
      BY <1>1, <2>2
    <3>2. g[n - 1] # <<>>
      BY <1>3, <3>1 DEF ReadSo
    <3> QED
      BY <1>2, <3>2
  <2> QED
    BY <2>1, <2>2
<1>4. ASSUME AsksFirst(ms), NEW k \in 1..n, Told(ms[k])
      PROVE  ms[k].of \in OfRole(g[n], ms[k].role)
  <2>1. CASE k = n
    BY <1>3, <1>4, <2>1
  <2>2. CASE k # n
    <3>1. k \in 1..(n - 1) /\ ms[k].role \in Roles
      BY <1>1, <2>2 DEF MessageSet
    <3> QED
      BY <1>2, <1>4, <3>1 DEF ReadSo
  <2> QED
    BY <2>1, <2>2
<1> QED
  BY <1>2, <1>3, <1>4 DEF ReadSo

\* So at each message, and at the last.
LEMMA AllRead ==
    ASSUME NEW ms \in Seq(MessageSet), NEW g, Reads(ms, g, Len(ms))
    PROVE  ReadSo(ms, g, Len(ms))
<1> DEFINE T == {n \in 0..Len(ms) : ~ReadSo(ms, g, n)}
<1>1. Len(ms) \in Nat
  OBVIOUS
<1>2. SUFFICES ASSUME T # {} PROVE FALSE
  BY <1>1
<1>3. PICK n \in T : \A j \in T : n =< j
  <2>1. T \in SUBSET Nat
    BY <1>1
  <2> HIDE DEF T
  <2> QED
    BY <1>2, <2>1, SmallestOf
<1>4. n \in 0..Len(ms) /\ ~ReadSo(ms, g, n)
  OBVIOUS
<1>5. CASE n = 0
  <2>1. g[0] = <<>>
    BY <1>1, ReadsOf
  <2>2. Alternates(<<>>)
    BY DEF Alternates
  <2>3. ReadSo(ms, g, 0)
    BY <2>1, <2>2 DEF ReadSo
  <2> QED
    BY <1>4, <1>5, <2>3
<1>6. CASE n # 0
  <2>1. n - 1 \in 0..Len(ms) /\ n \in 1..Len(ms) /\ ~(n =< n - 1)
    BY <1>1, <1>4, <1>6
  <2>2. n - 1 \notin T
    <3> HIDE DEF T
    <3> QED
      BY <1>3, <2>1
  <2>3. ReadSo(ms, g, n - 1)
    BY <2>1, <2>2
  <2> QED
    BY <1>4, <2>1, <2>3, OneMoreRead
<1> QED
  BY <1>5, <1>6

\* replayable gives a model the user's words first and then each side's in
\* turn, of any transcript whatever; and, of one a question starts, all that
\* says something.
LEMMA ReplayableOf ==
    ASSUME NEW ms \in Seq(MessageSet)
    PROVE  /\ Alternates(Replayable(ms))
           /\ AsksFirst(ms) => \A m \in ToSet(ms) : Told(m) => m.of \in OfRole(Replayable(ms), m.role)
<1>1. Len(ms) \in Nat /\ DOMAIN ms = 1..Len(ms)
  OBVIOUS
<1>2. PICK g : Reads(ms, g, Len(ms)) /\ Replayable(ms) = g[Len(ms)]
  BY <1>1, ReplayableReads
<1>3. ReadSo(ms, g, Len(ms))
  BY <1>2, AllRead
<1> QED
  BY <1>1, <1>2, <1>3 DEF ReadSo, ToSet
-----------------------------------------------------------------------------
(* And what is saved for it to read. *)

\* A message that asks; calls whose first saves one.
IsQuestion(m) == m.role = "user" /\ m.text
Asking(y) == y # <<>> /\ y[1].call = "append" /\ IsQuestion(y[1].m)

\* What starts a conversation asks next, what waits for the first reply was
\* asked, and only what the app shows is answered.
AsksAs(w, x, y) ==
    /\ (y # <<>> /\ y[1].call = "start") => Asking(Tail(y))
    /\ \A k \in DOMAIN x.pending : IsQuestion(x.pending[k])
    /\ (w \in Chats /\ y # <<>>) => x.shown # <<>>
CallsAsk == \A w \in Writers : AsksAs(w, chat[w], todo[w])

\* Whoever has said anything in a conversation that is kept has it saved, or
\* is about to ask.
HasSaid(w, x) == w = Briefing \/ x.shown # <<>>
Grounded(w, x, y) == (~x.off /\ IsKept(x.id) /\ HasSaid(w, x)) => messages[x.id] # <<>> \/ Asking(y)
QuestionsFirst == failures = 0 =>
    /\ \A i \in Ids : AsksFirst(messages[i])
    /\ \A w \in Writers : Grounded(w, chat[w], todo[w])

AskInv == CallsAsk /\ QuestionsFirst

\* One writer moves: what it leaves is right, and nobody else's conversation
\* is emptied while it is kept.
LEMMA OneAsks ==
    ASSUME StoreInv, AskInv, NEW w \in Writers, NEW x, NEW y,
           chat' = [chat EXCEPT ![w] = x], todo' = [todo EXCEPT ![w] = y],
           AsksAs(w, x, y), failures' = 0 => failures = 0,
           failures' = 0 => \A i \in Ids : AsksFirst(messages'[i]),
           failures' = 0 => Grounded(w, x, y)',
           failures' = 0 => \A v \in Writers \ {w} : chat[v].id \in ToSet(kept') =>
               chat[v].id \in ToSet(kept) /\ (messages[chat[v].id] # <<>> => messages'[chat[v].id] # <<>>)
    PROVE  AskInv'
<1>1. /\ chat \in [Writers -> ChatSet] /\ todo \in [Writers -> Seq(CallSet)]
      /\ chat'[w] = x /\ todo'[w] = y
      /\ \A v \in Writers \ {w} : chat'[v] = chat[v] /\ todo'[v] = todo[v]
  BY DEF StoreInv, SavedShape
<1>2. CallsAsk'
  <2> SUFFICES ASSUME NEW v \in Writers PROVE AsksAs(v, chat'[v], todo'[v])
    BY DEF CallsAsk, AsksAs, Asking, IsQuestion
  <2>1. CASE v = w
    BY <1>1, <2>1
  <2>2. CASE v # w
    BY <1>1, <2>2 DEF AskInv, CallsAsk
  <2> QED
    BY <2>1, <2>2
<1>3. QuestionsFirst'
  <2>1. ASSUME failures' = 0, NEW v \in Writers PROVE Grounded(v, chat[v], todo[v])'
    <3>1. CASE v = w
      BY <1>1, <2>1, <3>1 DEF Grounded, IsKept, HasSaid
    <3>2. CASE v # w
      <4>1. chat'[v] = chat[v] /\ todo'[v] = todo[v]
        BY <1>1, <3>2
      <4>2. Grounded(v, chat[v], todo[v])
        BY <2>1 DEF AskInv, QuestionsFirst
      <4>3. chat[v].id \in ToSet(kept') =>
               chat[v].id \in ToSet(kept) /\ (messages[chat[v].id] # <<>> => messages'[chat[v].id] # <<>>)
        BY <2>1, <3>2
      <4> QED
        BY <4>1, <4>2, <4>3 DEF Grounded, IsKept, HasSaid
    <3> QED
      BY <3>1, <3>2
  <2> QED
    BY <2>1 DEF QuestionsFirst
<1> QED
  BY <1>2, <1>3 DEF AskInv

\* A handler of a chat only takes note of what is to be called.
LEMMA HandlerAsks ==
    ASSUME StoreInv, AskInv, NEW w \in Writers, NEW x, NEW y,
           UNCHANGED <<kept, messages, failures>>,
           chat' = [chat EXCEPT ![w] = x], todo' = [todo EXCEPT ![w] = y],
           AsksAs(w, x, y), failures = 0 => Grounded(w, x, y)
    PROVE  AskInv'
<1>1. failures' = 0 => failures = 0 /\ \A i \in Ids : AsksFirst(messages'[i])
  BY DEF AskInv, QuestionsFirst
<1>2. failures' = 0 => Grounded(w, x, y)'
  BY DEF Grounded, IsKept
<1>3. \A v \in Writers \ {w} : chat[v].id \in ToSet(kept') =>
         chat[v].id \in ToSet(kept) /\ (messages[chat[v].id] # <<>> => messages'[chat[v].id] # <<>>)
  OBVIOUS
<1> QED
  BY <1>1, <1>2, <1>3, OneAsks

\* With nothing said there is nothing to ground, and with no call nothing to be right.
LEMMA NothingSaid ==
    ASSUME NEW c \in Chats, NEW x, x.shown = <<>>, x.pending = <<>>
    PROVE  AsksAs(c, x, <<>>) /\ Grounded(c, x, <<>>)
<1>1. c # Briefing
  BY SavedConstants
<1>2. DOMAIN <<>> = {}
  OBVIOUS
<1> QED
  BY <1>1, <1>2 DEF AsksAs, Grounded, HasSaid

\* Opening a chat shows what is saved of it.
LEMMA OpensAsks ==
    ASSUME StoreInv, AskInv, NEW c \in Chats, Opens(c)
    PROVE  AskInv'
<1>1. /\ todo[c] = <<>> /\ UNCHANGED <<kept, messages, failures>>
      /\ todo' = [todo EXCEPT ![c] = <<>>] /\ c \in Writers
  BY DEF Opens, Writers, StoreInv, SavedShape, ClosedIsQuiet, storeVars
<1>2. CASE \E context \in BOOLEAN : chat' = [chat EXCEPT ![c] = [Closed EXCEPT !.at = "idle", !.context = context]]
  <2>1. PICK context \in BOOLEAN : chat' = [chat EXCEPT ![c] = [Closed EXCEPT !.at = "idle", !.context = context]]
    BY <1>2
  <2>2. PICK x : x = [Closed EXCEPT !.at = "idle", !.context = context]
    OBVIOUS
  <2>3. x.shown = <<>> /\ x.pending = <<>>
    BY <2>2 DEF Closed
  <2>4. AsksAs(c, x, <<>>) /\ Grounded(c, x, <<>>)
    BY <2>3, NothingSaid
  <2> QED
    BY <1>1, <2>1, <2>2, <2>4, HandlerAsks
<1>3. CASE \E i \in Listed : chat' = [chat EXCEPT ![c] = [Closed EXCEPT !.at = "idle", !.id = i, !.shown = Get(i)]]
  <2>1. PICK i \in Listed : chat' = [chat EXCEPT ![c] = [Closed EXCEPT !.at = "idle", !.id = i, !.shown = Get(i)]]
    BY <1>3
  <2>2. PICK x : x = [Closed EXCEPT !.at = "idle", !.id = i, !.shown = Get(i)]
    OBVIOUS
  <2>3. x.id = i /\ x.shown = messages[i] /\ x.pending = <<>>
    BY <2>2 DEF Closed, Get
  <2>4. AsksAs(c, x, <<>>)
    <3>1. DOMAIN <<>> = {}
      OBVIOUS
    <3> QED
      BY <2>3, <3>1 DEF AsksAs
  <2>5. Grounded(c, x, <<>>)
    BY <2>3, SavedConstants DEF Grounded, HasSaid
  <2> QED
    BY <1>1, <2>1, <2>2, <2>4, <2>5, HandlerAsks
<1>4. \/ \E context \in BOOLEAN : chat' = [chat EXCEPT ![c] = [Closed EXCEPT !.at = "idle", !.context = context]]
      \/ \E i \in Listed : chat' = [chat EXCEPT ![c] = [Closed EXCEPT !.at = "idle", !.id = i, !.shown = Get(i)]]
  BY Zenon DEF Opens
<1> QED
  BY <1>2, <1>3, <1>4

\* Leaving a chat leaves nothing said.
LEMMA LeavesAsks ==
    ASSUME StoreInv, AskInv, NEW c \in Chats, Leaves(c)
    PROVE  AskInv'
<1>1. /\ UNCHANGED <<kept, messages, failures>> /\ c \in Writers
      /\ todo' = [todo EXCEPT ![c] = <<>>] /\ chat' = [chat EXCEPT ![c] = Closed]
  BY DEF Leaves, Writers, StoreInv, SavedShape, storeVars
<1>2. Closed.shown = <<>> /\ Closed.pending = <<>>
  BY DEF Closed
<1>3. AsksAs(c, Closed, <<>>) /\ Grounded(c, Closed, <<>>)
  BY <1>2, NothingSaid
<1> QED
  BY <1>1, <1>3, HandlerAsks

\* A question asks.
LEMMA QuestionAsks ==
    ASSUME NEW of \in Nat, NEW hidden \in BOOLEAN
    PROVE  IsQuestion(Question(of)) /\ IsQuestion([Question(of) EXCEPT !.hidden = hidden])
BY DEF IsQuestion, Question, Message

\* Once a conversation is started, what comes next in these calls asks.
LEMMA AsksNext ==
    ASSUME NEW y \in Seq(CallSet), Len(y) >= 2, NEW m \in MessageSet, y[2] = AppendOf(m), IsQuestion(m)
    PROVE  Asking(Tail(y))
<1> DEFINE t == Tail(y)
<1>1. t # <<>> /\ t[1] = y[2]
  <2>1. Len(y) \in Nat /\ Len(t) = Len(y) - 1 /\ \A k \in 1..(Len(y) - 1) : t[k] = y[k + 1]
    BY RestOf
  <2> HIDE DEF t
  <2>2. Len(t) # 0 /\ 1 \in 1..(Len(y) - 1)
    BY <2>1
  <2> QED
    BY <2>1, <2>2
<1> HIDE DEF t
<1> QED
  BY <1>1, CallsOfTheStore DEF Asking, t

\* Asking saves the question first of all.
LEMMA AsksAsks ==
    ASSUME StoreInv, AskInv, NEW c \in Chats, Asks(c)
    PROVE  AskInv'
<1> DEFINE m == Question(asked + 1)
           h == [m EXCEPT !.hidden = IsContext(c)]
           f == [m EXCEPT !.hidden = chat[c].context]
           waits == Active(c) /\ chat[c].id = None /\ WaitsForReply(c)
           to == [chat[c] EXCEPT !.at = "asked", !.shown = Append(@, m),
                                 !.pending = IF waits THEN Append(@, h) ELSE @]
           calls == Said(c, m)
           was == chat[c].shown
           pending == chat[c].pending
<1>1. /\ c \in Writers /\ chat[c] \in ChatSet /\ asked \in Nat /\ todo[c] = <<>>
      /\ was \in Seq(MessageSet) /\ pending \in Seq(MessageSet)
  BY DEF Asks, AtRest, Writers, StoreInv, SavedShape, ChatSet
<1>2. PICK x : x = to
  OBVIOUS
<1>3. PICK y : y = calls
  OBVIOUS
<1>4. /\ todo' = [todo EXCEPT ![c] = y] /\ UNCHANGED <<kept, messages, failures>>
      /\ chat' = [chat EXCEPT ![c] = x]
  BY <1>1, <1>2, <1>3 DEF Asks, StoreInv, SavedShape, storeVars
<1>5. /\ m \in MessageSet /\ h \in MessageSet /\ f \in MessageSet
      /\ IsQuestion(m) /\ IsQuestion(h) /\ IsQuestion(f)
  <2>1. asked + 1 \in Nat /\ chat[c].context \in BOOLEAN
    BY <1>1 DEF ChatSet
  <2>2. (h = [m EXCEPT !.hidden = TRUE]) \/ h = [m EXCEPT !.hidden = FALSE]
    BY DEF IsContext
  <2> QED
    BY <2>1, <2>2, QuestionIsAMessage, QuestionAsks
<1>6. y = <<>> \/ (y = <<AppendOf(m)>> /\ chat[c].id # None) \/ (y = <<Start("first words"), AppendOf(f)>>)
  BY <1>3 DEF Said, WaitsForReply
<1>7. chat[c].id # None => y = IF Active(c) THEN <<AppendOf(m)>> ELSE <<>>
  BY <1>3 DEF Said
<1> HIDE DEF m, h, f
<1>8. /\ x.id = chat[c].id /\ x.off = chat[c].off
      /\ x.pending = (IF waits THEN Append(pending, h) ELSE pending)
      /\ x.shown = Append(was, m)
  BY <1>1, <1>2 DEF ChatSet
<1> HIDE DEF to, calls
<1>9. y = <<AppendOf(m)>> => Asking(y) /\ y[1].call # "start"
  <2> DEFINE a == AppendOf(m)
  <2>1. a.call = "append" /\ a.m = m /\ a \in CallSet
    BY <1>5, CallsOfTheStore
  <2> HIDE DEF a
  <2>2. y = <<a>> => y # <<>> /\ y[1] = a
    BY <2>1, OneOf
  <2> QED
    BY <1>5, <2>1, <2>2 DEF Asking, a
<1>10. y = <<Start("first words"), AppendOf(f)>> => Asking(Tail(y))
  <2> DEFINE a == Start("first words")
             b == AppendOf(f)
  <2>1. a \in CallSet /\ b \in CallSet
    BY <1>5, CallsOfTheStore DEF Titles
  <2> HIDE DEF a, b
  <2>2. y = <<a, b>> => y \in Seq(CallSet) /\ Len(y) >= 2 /\ y[2] = b
    BY <2>1
  <2> QED
    BY <1>5, <2>2, AsksNext DEF a, b
<1>11. AsksAs(c, chat[c], todo[c])
  BY <1>1 DEF AskInv, CallsAsk
<1>12. AsksAs(c, x, y)
  <2>1. (y # <<>> /\ y[1].call = "start") => Asking(Tail(y))
    BY <1>6, <1>9, <1>10
  <2>2. x.shown # <<>>
    BY <1>1, <1>5, <1>8
  <2>3. ASSUME NEW k \in DOMAIN x.pending PROVE IsQuestion(x.pending[k])
    <3>1. \A l \in DOMAIN pending : IsQuestion(pending[l])
      BY <1>11 DEF AsksAs
    <3>2. CASE ~waits
      BY <1>8, <3>1, <3>2
    <3>3. CASE waits
      <4>1. x.pending = Append(pending, h)
        BY <1>8, <3>3
      <4>2. k \in DOMAIN pending \/ k = Len(pending) + 1
        BY <1>1, <1>5, <4>1
      <4>3. CASE k \in DOMAIN pending
        <5>1. x.pending[k] = pending[k]
          BY <1>1, <1>5, <4>1, <4>3
        <5> QED
          BY <3>1, <4>3, <5>1
      <4>4. CASE k = Len(pending) + 1
        BY <1>1, <1>5, <4>1, <4>4
      <4> QED
        BY <4>2, <4>3, <4>4
    <3> QED
      BY <3>2, <3>3
  <2> QED
    BY <2>1, <2>2, <2>3 DEF AsksAs
<1>13. Grounded(c, x, y)
  <2> SUFFICES ASSUME ~x.off, IsKept(x.id) PROVE Asking(y)
    BY DEF Grounded
  <2>1. chat[c].id # None
    BY <1>8, KeptIsOne DEF IsKept
  <2>2. Active(c)
    BY <1>8 DEF Active
  <2> QED
    BY <1>7, <1>9, <2>1, <2>2
<1> QED
  BY <1>1, <1>4, <1>12, <1>13, HandlerAsks

\* A retry needs a question, so what it drops the replies of has been asked.
LEMMA RetriesAsks ==
    ASSUME StoreInv, AskInv, NEW c \in Chats, Retries(c)
    PROVE  AskInv'
<1> DEFINE to == [chat[c] EXCEPT !.at = "asked", !.shown = UpToQuestion(@)]
           calls == IF Active(c) /\ chat[c].id # None THEN <<Drop>> ELSE <<>>
           was == chat[c].shown
<1>1. /\ c \in Writers /\ chat[c] \in ChatSet /\ todo[c] = <<>> /\ LastQuestion(was) # 0
      /\ was \in Seq(MessageSet)
  BY DEF Retries, AtRest, Writers, StoreInv, SavedShape, ChatSet
<1>2. PICK x : x = to
  OBVIOUS
<1>3. PICK y : y = calls
  OBVIOUS
<1>4. /\ todo' = [todo EXCEPT ![c] = y] /\ UNCHANGED <<kept, messages, failures>>
      /\ chat' = [chat EXCEPT ![c] = x]
  BY <1>1, <1>2, <1>3 DEF Retries, StoreInv, SavedShape, storeVars
<1>5. /\ x.id = chat[c].id /\ x.off = chat[c].off /\ x.pending = chat[c].pending
      /\ x.shown = UpToQuestion(was)
  BY <1>1, <1>2 DEF ChatSet
<1>6. x.shown # <<>> /\ was # <<>>
  <2>1. PICK us \in Seq(MessageSet) : us = UpToQuestion(was) /\ Len(us) = LastQuestion(was) /\ LastQuestion(was) =< Len(was)
    BY <1>1, UpToQuestionOf
  <2>2. us # <<>>
    BY <1>1, <2>1
  <2>3. was # <<>>
    BY <1>1, <2>1
  <2> QED
    BY <1>5, <2>1, <2>2, <2>3
<1>7. y = <<>> \/ (y # <<>> /\ y[1].call = "drop")
  <2> DEFINE d == Drop
  <2>1. d.call = "drop" /\ d \in CallSet
    BY CallsOfTheStore
  <2>2. y = <<>> \/ y = <<d>>
    BY <1>3
  <2> HIDE DEF d
  <2> QED
    BY <2>1, <2>2, OneOf
<1>8. AsksAs(c, chat[c], <<>>)
  BY <1>1 DEF AskInv, CallsAsk
<1>9. AsksAs(c, x, y)
  BY <1>5, <1>6, <1>7, <1>8 DEF AsksAs
<1>10. ASSUME failures = 0 PROVE Grounded(c, x, y)
  <2>1. Grounded(c, chat[c], <<>>)
    BY <1>1, <1>10 DEF AskInv, QuestionsFirst
  <2>2. ~Asking(<<>>)
    BY DEF Asking
  <2> QED
    BY <1>5, <1>6, <2>1, <2>2 DEF Grounded, HasSaid
<1> QED
  BY <1>1, <1>4, <1>9, <1>10, HandlerAsks

\* A reply follows what was asked: it is in the conversation, or first of all
\* in what is to be saved.
LEMMA TurnEndsAsks ==
    ASSUME StoreInv, ShowInv, AskInv, NEW c \in Chats, TurnEnds(c)
    PROVE  AskInv'
<1>1. c \in Writers /\ chat[c] \in ChatSet /\ asked \in Nat /\ todo[c] = <<>> /\ chat[c].at = "asked"
  BY DEF TurnEnds, Writers, StoreInv, SavedShape
<1>2. PICK end \in {"done", "stopped", "failed", "left"}, text \in BOOLEAN, ran \in BOOLEAN :
        EndsAs(c, end, text, ran)
  BY DEF TurnEnds, EndsAs
<1> DEFINE reply == Message("assistant", asked, FALSE, text, ran)
           answered == Answered(end, text, ran)
           p == chat[c].pending
           was == chat[c].shown
           calls == Ended(c, reply, answered)
           at == IF end = "left" THEN "leaving" ELSE "idle"
           shown == IF Remembered(end, text, ran) THEN Append(was, reply) ELSE was
           to == [chat[c] EXCEPT !.at = at, !.shown = shown]
<1>3. reply \in MessageSet /\ answered \in BOOLEAN
  BY <1>1, <1>2 DEF Message, MessageSet, Roles, Answered
<1>4. p \in Seq(MessageSet) /\ was \in Seq(MessageSet)
  BY <1>1 DEF ChatSet
<1>5. PICK x : x = to
  OBVIOUS
<1>6. PICK y : y = calls
  OBVIOUS
<1>7. /\ todo' = [todo EXCEPT ![c] = y] /\ UNCHANGED <<kept, messages, failures>>
      /\ chat' = [chat EXCEPT ![c] = x]
  BY <1>1, <1>2, <1>5, <1>6 DEF StoreInv, SavedShape, EndsAs, storeVars
<1>8. /\ x.id = chat[c].id /\ x.off = chat[c].off /\ x.pending = p /\ x.shown = shown
  BY <1>1, <1>5 DEF ChatSet
<1>9. was # <<>>
  BY <1>1 DEF ShowInv, CallsShow, ToShow
<1>10. x.shown # <<>>
  <2>1. x.shown = was \/ x.shown = Append(was, reply)
    BY <1>8
  <2> HIDE DEF reply, was
  <2> QED
    BY <1>3, <1>4, <1>9, <2>1
<1>11. (y # <<>> /\ y[1].call = "start") => Asking(Tail(y))
  <2> HIDE DEF reply, answered, to, shown, at
  <2>1. \/ y = <<>> \/ y = <<Record>>
        \/ y \in Seq(CallSet) /\ y[1] = AppendOf(reply)
        \/ p # <<>> /\ y \in Seq(CallSet) /\ Len(y) = Len(p) + 3 /\ \A k \in 1..Len(p) : y[k + 1] = AppendOf(p[k])
    <3>1. y = Ended(c, reply, answered)
      BY <1>6
    <3> QED
      BY <1>3, <1>4, <3>1, EndedOf
  <2>2. ASSUME y = <<Record>> PROVE y[1].call = "record"
    <3> DEFINE d == Record
    <3>1. d.call = "record" /\ d \in CallSet
      BY CallsOfTheStore
    <3>2. y = <<d>>
      BY <2>2
    <3> HIDE DEF d
    <3> QED
      BY <3>1, <3>2, OneOf
  <2>3. AppendOf(reply).call = "append"
    BY <1>3, CallsOfTheStore
  <2>4. ASSUME p # <<>>, y \in Seq(CallSet), Len(y) = Len(p) + 3, \A k \in 1..Len(p) : y[k + 1] = AppendOf(p[k])
        PROVE  Asking(Tail(y))
    <3>1. 1 \in 1..Len(p) /\ 1 \in DOMAIN p /\ Len(y) >= 2 /\ p[1] \in MessageSet
      BY <1>4, <2>4
    <3>2. y[2] = AppendOf(p[1])
      <4>1. y[1 + 1] = AppendOf(p[1]) /\ 1 + 1 = 2
        BY <2>4, <3>1
      <4> QED
        BY <4>1
    <3>3. IsQuestion(p[1])
      BY <1>1, <3>1 DEF AskInv, CallsAsk, AsksAs
    <3> QED
      BY <2>4, <3>1, <3>2, <3>3, AsksNext
  <2> QED
    BY <2>1, <2>2, <2>3, <2>4
<1> HIDE DEF reply, answered, calls, to, at, shown
<1>12. AsksAs(c, x, y)
  <2>1. AsksAs(c, chat[c], todo[c])
    BY <1>1 DEF AskInv, CallsAsk
  <2> QED
    BY <1>8, <1>10, <1>11, <2>1 DEF AsksAs
<1>13. ASSUME failures = 0 PROVE Grounded(c, x, y)
  <2>1. Grounded(c, chat[c], <<>>)
    BY <1>1, <1>13 DEF AskInv, QuestionsFirst
  <2>2. ~Asking(<<>>)
    BY DEF Asking
  <2> QED
    BY <1>8, <1>9, <2>1, <2>2 DEF Grounded, HasSaid
<1> QED
  BY <1>1, <1>7, <1>12, <1>13, HandlerAsks

\* A briefing is the answer to a hidden question, saved first.
LEMMA ChecksInAsks ==
    ASSUME StoreInv, AskInv, ChecksIn
    PROVE  AskInv'
<1> DEFINE of == asked + 1
           q == [Question(of) EXCEPT !.hidden = TRUE]
           m == Message("assistant", of, FALSE, TRUE, FALSE)
           a == Start("asked for")
           b == AppendOf(q)
           d == AppendOf(m)
<1>1. PICK y : y = <<a, b, d, Record>>
  OBVIOUS
<1>2. Briefing \in Writers /\ Briefing \notin Chats /\ of \in Nat
  BY SavedConstants DEF Writers, StoreInv, SavedShape
<1>3. UNCHANGED <<kept, messages, failures>>
  BY DEF ChecksIn, storeVars
<1>4. todo' = [todo EXCEPT ![Briefing] = y] /\ chat' = [chat EXCEPT ![Briefing] = Closed]
  BY <1>1, Zenon DEF ChecksIn
<1>5. q \in MessageSet /\ m \in MessageSet /\ IsQuestion(q)
  BY <1>2, QuestionIsAMessage, QuestionAsks DEF Message, MessageSet, Roles
<1> HIDE DEF q, m
<1>6. a \in CallSet /\ b \in CallSet /\ d \in CallSet /\ Record \in CallSet
  BY <1>5, CallsOfTheStore DEF Titles
<1>7. Asking(Tail(y))
  <2> HIDE DEF a, b, d
  <2>1. y \in Seq(CallSet) /\ DOMAIN y = 1..4 /\ y[2] = b
    BY <1>1, <1>6, FourOf
  <2>2. Len(y) >= 2
    BY <2>1
  <2> QED
    BY <1>5, <2>1, <2>2, AsksNext DEF b
<1>8. Closed.pending = <<>> /\ Closed.id = None
  BY ClosedIsAChat
<1>9. AsksAs(Briefing, Closed, y)
  <2>1. DOMAIN <<>> = {}
    OBVIOUS
  <2> QED
    BY <1>2, <1>7, <1>8, <2>1 DEF AsksAs
<1>10. Grounded(Briefing, Closed, y)
  BY <1>8, KeptIsOne DEF Grounded, IsKept
<1> QED
  BY <1>2, <1>3, <1>4, <1>9, <1>10, HandlerAsks
-----------------------------------------------------------------------------
\* What is left to call after the first, or nothing, starts no conversation.
LEMMA RestAsks ==
    ASSUME StoreInv, AskInv, NEW w \in Writers, todo[w] # <<>>,
           NEW x, x.pending = chat[w].pending \/ x.pending = <<>>, x.shown = chat[w].shown,
           NEW y, y = <<>> \/ y = Tail(todo[w])
    PROVE  AsksAs(w, x, y)
<1>1. todo[w] \in Seq(CallSet) /\ RightCalls(chat[w], todo[w], asked)
  BY CallerIs
<1>2. ASSUME y # <<>> PROVE y[1].call # "start"
  <2> DEFINE t == todo[w]
  <2>1. /\ Tail(t) # <<>> => 1 \in DOMAIN Tail(t)
        /\ \A k \in DOMAIN Tail(t) : k + 1 \in DOMAIN t /\ k + 1 # 1 /\ Tail(t)[k] = t[k + 1]
    BY <1>1, TailOf
  <2>2. \A k \in DOMAIN t : k # 1 => t[k].call # "start"
    BY <1>1 DEF RightCalls, StartsFirst
  <2>3. y = Tail(t)
    BY <1>2
  <2> HIDE DEF t
  <2> QED
    BY <1>2, <2>1, <2>2, <2>3
<1>3. AsksAs(w, chat[w], todo[w])
  BY DEF AskInv, CallsAsk
<1>4. \A k \in DOMAIN x.pending : IsQuestion(x.pending[k])
  <2>1. CASE x.pending = chat[w].pending
    BY <1>3, <2>1 DEF AsksAs
  <2>2. CASE x.pending = <<>>
    <3>1. DOMAIN <<>> = {}
      OBVIOUS
    <3> QED
      BY <2>2, <3>1
  <2> QED
    BY <2>1, <2>2
<1>5. (w \in Chats /\ y # <<>>) => x.shown # <<>>
  BY <1>3 DEF AsksAs
<1> QED
  BY <1>2, <1>4, <1>5 DEF AsksAs

\* Whoever calls has said something.
LEMMA CallerHasSaid ==
    ASSUME AskInv, NEW w \in Writers, todo[w] # <<>>
    PROVE  HasSaid(w, chat[w])
BY DEF AskInv, CallsAsk, AsksAs, HasSaid, Writers

\* Recording a turn saves nothing, and a call that fails ends what is promised.
LEMMA RecordsAsks ==
    ASSUME StoreInv, AskInv, NEW w \in Writers, Records(w)
    PROVE  AskInv'
<1>1. PICK y : y = Tail(todo[w])
  OBVIOUS
<1>2. PICK x : x = chat[w]
  OBVIOUS
<1>3. /\ todo[w] # <<>> /\ Head(todo[w]).call = "record" /\ UNCHANGED <<kept, messages, failures>>
      /\ todo' = [todo EXCEPT ![w] = y] /\ chat' = [chat EXCEPT ![w] = x]
  BY <1>1, <1>2 DEF Records, Called, StoreInv, SavedShape
<1>4. AsksAs(w, x, y)
  BY <1>1, <1>2, <1>3, RestAsks
<1>5. ASSUME failures = 0 PROVE Grounded(w, x, y)
  <2>1. Grounded(w, chat[w], todo[w])
    BY <1>5 DEF AskInv, QuestionsFirst
  <2>2. ~Asking(todo[w])
    BY <1>3, CallerIs DEF Asking
  <2> QED
    BY <1>2, <2>1, <2>2 DEF Grounded, HasSaid
<1> QED
  BY <1>3, <1>4, <1>5, HandlerAsks

LEMMA StoreFailsAsks ==
    ASSUME StoreInv, AskInv, NEW w \in Writers, StoreFails(w)
    PROVE  AskInv'
<1>1. PICK y : y = IF GivesUpAfter(w, Head(todo[w]).call) THEN <<>> ELSE Tail(todo[w])
  OBVIOUS
<1>2. PICK x : x = chat[w]
  OBVIOUS
<1>3. /\ todo[w] # <<>> /\ UNCHANGED <<kept, messages>> /\ failures' # 0
      /\ todo' = [todo EXCEPT ![w] = y] /\ chat' = [chat EXCEPT ![w] = x]
  BY <1>1, <1>2 DEF StoreFails, Called, StoreInv, SavedShape
<1>4. AsksAs(w, x, y)
  BY <1>1, <1>2, <1>3, RestAsks
<1>5. \A v \in Writers \ {w} : chat[v].id \in ToSet(kept') =>
         chat[v].id \in ToSet(kept) /\ (messages[chat[v].id] # <<>> => messages'[chat[v].id] # <<>>)
  BY <1>3
<1> QED
  BY <1>3, <1>4, <1>5, OneAsks

\* Up to its last question, a transcript that a question starts still is one.
LEMMA UpToQuestionAsks ==
    ASSUME NEW ms \in Seq(MessageSet), AsksFirst(ms)
    PROVE  AsksFirst(UpToQuestion(ms)) /\ (ms # <<>> => UpToQuestion(ms) # <<>>)
<1> DEFINE n == LastQuestion(ms)
           us == UpToQuestion(ms)
<1>1. /\ n \in 0..Len(ms) /\ us \in Seq(MessageSet) /\ Len(us) = n
      /\ \A k \in 1..n : us[k] = ms[k]
      /\ \A k \in DOMAIN ms : ms[k].role = "user" => k =< n
  BY UpToQuestionOf
<1> HIDE DEF n, us
<1>2. CASE ms = <<>>
  <2>1. us = <<>>
    BY <1>1, <1>2
  <2> QED
    BY <1>2, <2>1 DEF AsksFirst, us
<1>3. CASE ms # <<>>
  <2>1. 1 \in DOMAIN ms /\ ms[1].role = "user" /\ ms[1].text
    BY <1>3 DEF AsksFirst
  <2>2. 1 \in 1..n /\ us # <<>> /\ us[1] = ms[1]
    BY <1>1, <2>1
  <2> QED
    BY <2>1, <2>2 DEF AsksFirst, us
<1> QED
  BY <1>2, <1>3

\* Dropping replies leaves their question.
LEMMA DropsAsks ==
    ASSUME StoreInv, AskInv, NEW w \in Writers, Drops(w)
    PROVE  AskInv'
<1>1. PICK y : y = Tail(todo[w])
  OBVIOUS
<1>2. PICK x : x = chat[w]
  OBVIOUS
<1>3. PICK i : i = chat[w].id
  OBVIOUS
<1>4. /\ todo[w] # <<>> /\ Head(todo[w]).call = "drop" /\ UNCHANGED <<kept, failures>>
      /\ todo' = [todo EXCEPT ![w] = y] /\ chat' = [chat EXCEPT ![w] = x]
      /\ messages' = [messages EXCEPT ![i] = UpToQuestion(messages[i])]
      /\ messages \in [Ids -> Seq(MessageSet)]
  BY <1>1, <1>2, <1>3 DEF Drops, Called, StoreInv, SavedShape
<1>5. i \in Ids
  BY <1>3, <1>4, CallerIs
<1>6. AsksAs(w, x, y)
  BY <1>1, <1>2, <1>4, RestAsks
<1>7. ASSUME failures = 0, NEW j \in Ids
      PROVE  AsksFirst(messages'[j]) /\ (messages[j] # <<>> => messages'[j] # <<>>)
  <2>1. AsksFirst(messages[j]) /\ messages[j] \in Seq(MessageSet)
    BY <1>4, <1>7 DEF AskInv, QuestionsFirst
  <2>2. CASE j = i
    <3>1. messages'[j] = UpToQuestion(messages[j])
      BY <1>4, <1>5, <2>2
    <3> QED
      BY <2>1, <3>1, UpToQuestionAsks
  <2>3. CASE j # i
    <3>1. messages'[j] = messages[j]
      BY <1>4, <2>3
    <3> QED
      BY <2>1, <3>1
  <2> QED
    BY <2>2, <2>3
<1>8. ASSUME failures = 0 PROVE Grounded(w, x, y)'
  <2>1. Grounded(w, chat[w], todo[w])
    BY <1>8 DEF AskInv, QuestionsFirst
  <2>2. ~Asking(todo[w])
    BY <1>4, CallerIs DEF Asking
  <2>3. messages[i] # <<>> => messages'[i] # <<>>
    BY <1>5, <1>7, <1>8
  <2> QED
    BY <1>2, <1>3, <1>4, <2>1, <2>2, <2>3 DEF Grounded, HasSaid, IsKept
<1>9. failures = 0 => \A v \in Writers \ {w} : chat[v].id \in ToSet(kept') =>
         chat[v].id \in ToSet(kept) /\ (messages[chat[v].id] # <<>> => messages'[chat[v].id] # <<>>)
  BY <1>4, <1>7, KeptIsOne
<1> QED
  BY <1>4, <1>6, <1>7, <1>8, <1>9, OneAsks

\* Saving a message: the first of a conversation is a question.
LEMMA AppendsAsks ==
    ASSUME StoreInv, AskInv, NEW w \in Writers, Appends(w)
    PROVE  AskInv'
<1>1. PICK i : i = chat[w].id
  OBVIOUS
<1>2. PICK t : t = todo[w]
  OBVIOUS
<1>3. /\ t # <<>> /\ t[1].call = "append" /\ t[1] \in CallSet /\ i \in Ids /\ i # None /\ Head(todo[w]) = t[1]
      /\ chat[w] \in ChatSet /\ todo[w] # <<>> /\ failures' = failures
      /\ chat \in [Writers -> ChatSet] /\ todo \in [Writers -> Seq(CallSet)] /\ messages \in [Ids -> Seq(MessageSet)]
  BY <1>1, <1>2, CallerIs DEF Appends, StoreInv, SavedShape
<1>4. CASE ~(Active(w) /\ Takes(i))
  <2>1. PICK y : y = IF w = Briefing THEN <<>> ELSE Tail(todo[w])
    OBVIOUS
  <2>2. PICK x : x = [chat[w] EXCEPT !.off = TRUE]
    OBVIOUS
  <2>3. /\ chat' = [chat EXCEPT ![w] = x] /\ todo' = [todo EXCEPT ![w] = y] /\ UNCHANGED <<messages, kept, failures>>
    BY <1>1, <1>3, <1>4, <2>1, <2>2 DEF Appends, Called
  <2>4. x.pending = chat[w].pending /\ x.shown = chat[w].shown /\ x.off
    BY <1>3, <2>2 DEF ChatSet
  <2>5. AsksAs(w, x, y)
    BY <1>3, <2>1, <2>4, RestAsks
  <2>6. Grounded(w, x, y)
    BY <2>4 DEF Grounded
  <2> QED
    BY <2>3, <2>5, <2>6, HandlerAsks
<1>5. CASE Active(w) /\ Takes(i)
  <2>1. PICK y : y = Tail(todo[w])
    OBVIOUS
  <2>2. PICK x : x = chat[w]
    OBVIOUS
  <2>3. PICK m : m = t[1].m
    OBVIOUS
  <2>4. /\ messages' = [messages EXCEPT ![i] = Append(messages[i], m)]
        /\ kept' = <<i>> \o Without(kept, i) /\ i \in ToSet(kept)
        /\ chat' = [chat EXCEPT ![w] = x] /\ todo' = [todo EXCEPT ![w] = y]
    BY <1>1, <1>3, <1>5, <2>1, <2>2, <2>3 DEF Appends, Called, Takes, IsKept
  <2>5. m \in MessageSet
    BY <1>3, <2>3 DEF CallSet
  <2>6. ToSet(kept') = ToSet(kept)
    <3> DEFINE s == Without(kept, i)
    <3>1. kept \in Seq(Ids) /\ IsInjective(kept)
      BY DEF StoreInv, SavedShape, KeptOnce
    <3>2. s \in Seq(Ids) /\ ToSet(s) = ToSet(kept) \ {i} /\ IsInjective(s)
      BY <2>4, <3>1, WithoutOf
    <3> HIDE DEF s
    <3>3. i \in Ids /\ i \notin ToSet(s)
      BY <1>3, <3>2
    <3>4. ToSet(<<i>> \o s) = ToSet(s) \cup {i}
      BY <3>2, <3>3, PutFirst
    <3> QED
      BY <2>4, <3>2, <3>4 DEF s
  <2>7. messages'[i] = Append(messages[i], m) /\ \A j \in Ids \ {i} : messages'[j] = messages[j]
    BY <1>3, <2>4
  <2>8. messages'[i] # <<>> /\ messages[i] \in Seq(MessageSet)
    <3>1. messages[i] \in Seq(MessageSet)
      BY <1>3
    <3> QED
      BY <2>5, <2>7, <3>1
  <2>9. ASSUME failures = 0 PROVE AsksFirst(messages'[i])
    <3>1. AsksFirst(messages[i]) /\ Grounded(w, chat[w], todo[w])
      BY <1>3, <2>9 DEF AskInv, QuestionsFirst
    <3>2. messages[i] # <<>> \/ IsQuestion(m)
      <4>1. HasSaid(w, chat[w])
        BY <1>3, CallerHasSaid
      <4> QED
        BY <1>1, <1>2, <1>5, <2>3, <3>1, <4>1 DEF Grounded, Asking, Active, Takes
    <3>3. CASE messages[i] # <<>>
      <4>1. messages'[i][1] = messages[i][1]
        BY <2>5, <2>7, <2>8, <3>3
      <4> QED
        BY <3>1, <3>3, <4>1 DEF AsksFirst
    <3>4. CASE messages[i] = <<>> /\ IsQuestion(m)
      <4>1. messages'[i][1] = m
        BY <2>5, <2>7, <3>4
      <4> QED
        BY <3>4, <4>1 DEF AsksFirst, IsQuestion
    <3> QED
      BY <3>2, <3>3, <3>4
  <2>10. failures' = 0 => \A j \in Ids : AsksFirst(messages'[j])
    <3> SUFFICES ASSUME failures = 0, NEW j \in Ids PROVE AsksFirst(messages'[j])
      BY <1>3
    <3>1. AsksFirst(messages[j])
      BY DEF AskInv, QuestionsFirst
    <3> QED
      BY <2>7, <2>9, <3>1
  <2>11. AsksAs(w, x, y)
    BY <1>3, <2>1, <2>2, RestAsks
  <2>12. Grounded(w, x, y)'
    BY <1>1, <2>2, <2>8 DEF Grounded
  <2>13. \A v \in Writers \ {w} : chat[v].id \in ToSet(kept') =>
            chat[v].id \in ToSet(kept) /\ (messages[chat[v].id] # <<>> => messages'[chat[v].id] # <<>>)
    BY <2>6, <2>7, <2>8, KeptIsOne
  <2> QED
    BY <1>3, <2>4, <2>10, <2>11, <2>12, <2>13, OneAsks
<1> QED
  BY <1>4, <1>5

\* A conversation starts empty, with its question to be saved next.
LEMMA StartsAsks ==
    ASSUME StoreInv, AskInv, NEW w \in Writers, Starts(w)
    PROVE  AskInv'
<1>1. PICK n : n = ids + 1
  OBVIOUS
<1>2. PICK y : y = Tail(todo[w])
  OBVIOUS
<1>3. PICK x : x = [chat[w] EXCEPT !.id = n, !.pending = <<>>]
  OBVIOUS
<1>4. /\ todo[w] # <<>> /\ todo[w][1].call = "start" /\ chat[w] \in ChatSet
      /\ ids < MaxConversations /\ failures' = failures
      /\ chat \in [Writers -> ChatSet] /\ messages \in [Ids -> Seq(MessageSet)]
  BY CallerIs DEF Starts, StoreInv, SavedShape
<1>5. /\ kept' = <<n>> \o Recent(kept)
      /\ messages' = [j \in Ids |-> IF j \in Stale(kept) THEN <<>> ELSE messages[j]]
      /\ todo' = [todo EXCEPT ![w] = y] /\ chat' = [chat EXCEPT ![w] = x]
  <2>1. chat' = [chat EXCEPT ![w].id = n, ![w].pending = <<>>]
    BY <1>1 DEF Starts, NewId
  <2>2. chat' = [chat EXCEPT ![w] = x]
    BY <1>3, <1>4, <2>1
  <2> QED
    BY <1>1, <1>2, <2>2 DEF Starts, NewId, Called
<1>6. /\ n # None /\ n \in Ids /\ n \notin ToSet(kept) /\ \A v \in Writers : chat[v].id # n
  <2>1. ids \in Nat /\ n \notin 0..ids /\ n \notin 1..ids /\ n # None /\ n \in Ids
    BY <1>1, <1>4, SavedConstants DEF StoreInv, SavedShape, Ids, None
  <2> QED
    BY <2>1 DEF StoreInv, KeptOnce
<1>7. x.id = n /\ x.pending = <<>> /\ x.shown = chat[w].shown
  BY <1>3, <1>4 DEF ChatSet
<1>8. ToSet(kept') = (ToSet(kept) \ Stale(kept)) \cup {n}
  <2> DEFINE others == Recent(kept)
  <2>1. kept \in Seq(Ids) /\ IsInjective(kept) /\ Keep \in Nat \ {0}
    BY SavedConstants DEF StoreInv, SavedShape, KeptOnce
  <2>2. others \in Seq(Ids) /\ ToSet(others) = ToSet(kept) \ Stale(kept) /\ IsInjective(others)
    BY <2>1, RecentOf
  <2> HIDE DEF others
  <2>3. n \notin ToSet(others)
    BY <1>6, <2>2
  <2>4. ToSet(<<n>> \o others) = ToSet(others) \cup {n}
    BY <1>6, <2>2, <2>3, PutFirst
  <2>5. kept' = <<n>> \o others
    BY <1>5 DEF others
  <2> QED
    BY <2>2, <2>4, <2>5
<1>9. \A v \in Writers \ {w} : chat[v].id \in ToSet(kept') =>
         chat[v].id \in ToSet(kept) /\ (messages[chat[v].id] # <<>> => messages'[chat[v].id] # <<>>)
  BY <1>5, <1>6, <1>8, KeptIsOne
<1>10. failures' = 0 => \A j \in Ids : AsksFirst(messages'[j])
  <2> SUFFICES ASSUME failures = 0, NEW j \in Ids PROVE AsksFirst(messages'[j])
    BY <1>4
  <2>1. AsksFirst(messages[j])
    BY DEF AskInv, QuestionsFirst
  <2>2. AsksFirst(<<>>)
    BY DEF AsksFirst
  <2>3. messages'[j] = <<>> \/ messages'[j] = messages[j]
    BY <1>5
  <2> QED
    BY <2>1, <2>2, <2>3
<1>11. AsksAs(w, x, y)
  BY <1>2, <1>4, <1>7, RestAsks
<1>12. Asking(y)
  BY <1>2, <1>4 DEF AskInv, CallsAsk, AsksAs
<1>13. Grounded(w, x, y)'
  BY <1>12 DEF Grounded
<1> QED
  BY <1>4, <1>5, <1>9, <1>10, <1>11, <1>13, OneAsks

\* What is deleted is empty, and what is kept is as it was.
LEMMA ListAsks ==
    ASSUME StoreInv, AskInv, FromTheList
    PROVE  AskInv'
<1>1. /\ UNCHANGED <<chat, todo, failures>>
      /\ \A j \in ToSet(kept') : j \in ToSet(kept) /\ messages'[j] = messages[j]
  BY FromTheListKeeps
<1>2. \A j \in Ids : messages'[j] = <<>> \/ messages'[j] = messages[j]
  <2>1. messages \in [Ids -> Seq(MessageSet)]
    BY DEF StoreInv, SavedShape
  <2>2. CASE DeletesAll
    BY <2>2 DEF DeletesAll
  <2>3. ASSUME NEW i \in Listed, Deletes(i)
        PROVE  \A j \in Ids : messages'[j] = <<>> \/ messages'[j] = messages[j]
    <3>1. messages' = [messages EXCEPT ![i] = <<>>]
      BY <2>3 DEF Deletes
    <3> QED
      BY <2>1, <3>1
  <2>4. ASSUME NEW i \in Listed, Renames(i) PROVE messages' = messages
    BY <2>4 DEF Renames
  <2> QED
    BY <2>2, <2>3, <2>4 DEF FromTheList
<1>3. CallsAsk'
  BY <1>1 DEF AskInv, CallsAsk, AsksAs, Asking, IsQuestion
<1>4. ASSUME failures' = 0, NEW j \in Ids PROVE AsksFirst(messages'[j])
  <2>1. AsksFirst(messages[j])
    BY <1>1, <1>4 DEF AskInv, QuestionsFirst
  <2>2. AsksFirst(<<>>)
    BY DEF AsksFirst
  <2> QED
    BY <1>2, <2>1, <2>2
<1>5. ASSUME failures' = 0, NEW w \in Writers PROVE Grounded(w, chat[w], todo[w])'
  <2>1. Grounded(w, chat[w], todo[w])
    BY <1>1, <1>5 DEF AskInv, QuestionsFirst
  <2> QED
    BY <1>1, <2>1 DEF Grounded, IsKept, HasSaid
<1> QED
  BY <1>3, <1>4, <1>5 DEF AskInv, QuestionsFirst

\* Nothing is said at first.
LEMMA AskInit ==
    ASSUME SavedInit
    PROVE  AskInv
<1>1. /\ kept = <<>> /\ \A i \in Ids : messages[i] = <<>>
      /\ \A w \in Writers : chat[w] = Closed /\ todo[w] = <<>>
  BY DEF SavedInit
<1>2. Closed.pending = <<>> /\ DOMAIN <<>> = {} /\ ToSet(<<>>) = {}
  BY ClosedIsAChat DEF ToSet
<1>3. CallsAsk
  BY <1>1, <1>2 DEF CallsAsk, AsksAs
<1>4. QuestionsFirst
  BY <1>1, <1>2 DEF QuestionsFirst, AsksFirst, Grounded, IsKept
<1> QED
  BY <1>3, <1>4 DEF AskInv

\* Every step of the chat saves questions first.
LEMMA AskStep ==
    ASSUME StoreInv, ShowInv, AskInv, [SavedNext]_savedVars
    PROVE  AskInv'
<1>1. CASE UNCHANGED savedVars
  <2>1. UNCHANGED <<chat, todo, failures, kept, messages>>
    BY <1>1 DEF savedVars
  <2>2. CallsAsk'
    BY <2>1 DEF AskInv, CallsAsk, AsksAs, Asking, IsQuestion
  <2>3. QuestionsFirst'
    BY <2>1 DEF AskInv, QuestionsFirst, AsksFirst, Grounded, IsKept, HasSaid
  <2> QED
    BY <2>2, <2>3 DEF AskInv
<1>2. ASSUME NEW c \in Chats, Opens(c) \/ Leaves(c) \/ Asks(c) \/ Retries(c) \/ TurnEnds(c)
      PROVE  AskInv'
  BY <1>2, OpensAsks, LeavesAsks, AsksAsks, RetriesAsks, TurnEndsAsks
<1>3. CASE ChecksIn
  BY <1>3, ChecksInAsks
<1>4. ASSUME NEW w \in Writers, Starts(w) \/ Appends(w) \/ Records(w) \/ Drops(w) \/ StoreFails(w)
      PROVE  AskInv'
  BY <1>4, StartsAsks, AppendsAsks, RecordsAsks, DropsAsks, StoreFailsAsks
<1>5. CASE FromTheList
  BY <1>5, ListAsks
<1> QED
  BY <1>1, <1>2, <1>3, <1>4, <1>5 DEF SavedNext
-----------------------------------------------------------------------------
(* What the actions did is told, or about to be. *)

\* What the calls still to make append, and what of it ran.
ToSave(y) == {call.m : call \in {call \in ToSet(y) : call.call = "append"}}
RanLater(y) == RanIn(ToSave(y))

\* Only a chat that was just asked again drops replies.
DropsAs(w, x, y) == \A k \in DOMAIN y : y[k].call = "drop" => w \in Chats /\ x.at = "asked"
DropsAsked == \A w \in Writers : DropsAs(w, chat[w], todo[w])

\* Each turn whose actions ran, of a conversation one chat has open, is in it
\* or in what one of its writers has yet to save.
DidIsSaved == failures = 0 => \A i \in ToSet(kept) \ shared : \A n \in did[i] :
    \/ n \in RanIn(ToSet(messages[i]))
    \/ \E v \in Writers : chat[v].id = i /\ n \in RanLater(todo[v])

DidInv == did = [i \in Ids |-> did[i]] /\ DropsAsked /\ DidIsSaved

\* Nothing to call saves nothing; what the first of the calls doesn't save
\* the others do.
LEMMA NothingRanLater == RanLater(<<>>) = {}
<1>1. ToSet(<<>>) = {}
  BY DEF ToSet
<1> QED
  BY <1>1 DEF RanLater, ToSave, RanIn

LEMMA SavesInTurn ==
    ASSUME NEW y \in Seq(CallSet), y # <<>>
    PROVE  /\ \A n \in RanLater(y) :
                 \/ n \in RanLater(Tail(y))
                 \/ y[1].call = "append" /\ y[1].m.ran /\ y[1].m.of = n
           /\ \A k \in DOMAIN Tail(y) : \E l \in DOMAIN y : Tail(y)[k] = y[l]
<1> DEFINE t == Tail(y)
<1>1. /\ t \in Seq(CallSet) /\ Len(t) = Len(y) - 1 /\ Len(y) \in Nat \ {0}
      /\ \A k \in 1..(Len(y) - 1) : t[k] = y[k + 1]
  BY RestOf
<1> HIDE DEF t
<1>2. ASSUME NEW n \in RanLater(y) PROVE n \in RanLater(t) \/ (y[1].call = "append" /\ y[1].m.ran /\ y[1].m.of = n)
  <2>1. PICK k \in DOMAIN y : y[k].call = "append" /\ y[k].m.ran /\ y[k].m.of = n
    BY DEF RanLater, ToSave, RanIn, ToSet
  <2>2. CASE k = 1
    BY <2>1, <2>2
  <2>3. CASE k # 1
    <3>1. k - 1 \in 1..(Len(y) - 1) /\ (k - 1) + 1 = k
      BY <1>1, <2>3
    <3>2. k - 1 \in DOMAIN t /\ t[k - 1] = y[k]
      BY <1>1, <3>1
    <3>3. y[k] \in ToSet(t)
      BY <3>2 DEF ToSet
    <3> QED
      BY <2>1, <3>3 DEF RanLater, ToSave, RanIn
  <2> QED
    BY <2>2, <2>3
<1>3. ASSUME NEW k \in DOMAIN t PROVE \E l \in DOMAIN y : t[k] = y[l]
  <2>1. k \in 1..(Len(y) - 1) /\ k + 1 \in DOMAIN y
    BY <1>1
  <2> QED
    BY <1>1, <2>1
<1> QED
  BY <1>2, <1>3 DEF t

\* One writer moves: what ran stays saved, or about to be.
LEMMA OneSaves ==
    ASSUME DidInv, NEW w \in Writers, NEW x, NEW y, chat'[w] = x, todo'[w] = y,
           \A v \in Writers \ {w} : chat'[v] = chat[v] /\ todo'[v] = todo[v],
           did' = [i \in Ids |-> did'[i]], DropsAs(w, x, y),
           failures' = 0 => failures = 0, shared \subseteq shared',
           failures' = 0 => \A i \in ToSet(kept') \ shared' : \A n \in did'[i] :
              \/ n \in RanIn(ToSet(messages'[i]))
              \/ x.id = i /\ n \in RanLater(y)
              \/ /\ i \in ToSet(kept) /\ n \in did[i]
                 /\ RanIn(ToSet(messages[i])) \subseteq RanIn(ToSet(messages'[i]))
                 /\ (chat[w].id = i /\ n \in RanLater(todo[w])) =>
                       n \in RanIn(ToSet(messages'[i])) \/ (x.id = i /\ n \in RanLater(y))
    PROVE  DidInv'
<1> USE DEF DidInv
<1>1. /\ chat'[w] = x /\ todo'[w] = y
      /\ \A v \in Writers \ {w} : chat'[v] = chat[v] /\ todo'[v] = todo[v]
  OBVIOUS
<1>2. DropsAsked'
  <2> SUFFICES ASSUME NEW v \in Writers PROVE DropsAs(v, chat'[v], todo'[v])
    BY DEF DropsAsked
  <2> QED
    BY <1>1 DEF DropsAsked
<1>3. DidIsSaved'
  <2> SUFFICES ASSUME failures' = 0, NEW i \in ToSet(kept') \ shared', NEW n \in did'[i],
                      n \notin RanIn(ToSet(messages'[i]))
               PROVE  \E v \in Writers : chat'[v].id = i /\ n \in RanLater(todo'[v])
    BY DEF DidIsSaved, RanLater, ToSave, RanIn
  <2>1. CASE x.id = i /\ n \in RanLater(y)
    BY <1>1, <2>1
  <2>2. CASE ~(x.id = i /\ n \in RanLater(y))
    <3>1. /\ i \in ToSet(kept) \ shared /\ n \in did[i] /\ n \notin RanIn(ToSet(messages[i]))
          /\ ~(chat[w].id = i /\ n \in RanLater(todo[w]))
      BY <2>2
    <3>2. PICK v \in Writers : chat[v].id = i /\ n \in RanLater(todo[v])
      BY <3>1 DEF DidIsSaved
    <3>3. v # w
      BY <3>1, <3>2
    <3> QED
      BY <1>1, <3>2, <3>3
  <2> QED
    BY <2>1, <2>2
<1> QED
  BY <1>2, <1>3

\* A writer with nothing to call, that leaves the store alone, and what ran.
LEMMA HandlerSaves ==
    ASSUME DidInv, NEW w \in Writers, todo[w] = <<>>, UNCHANGED <<kept, messages, failures, did>>,
           NEW x, NEW y, chat'[w] = x, todo'[w] = y, DropsAs(w, x, y), shared \subseteq shared',
           \A v \in Writers \ {w} : chat'[v] = chat[v] /\ todo'[v] = todo[v]
    PROVE  DidInv'
<1>1. RanLater(todo[w]) = {}
  BY NothingRanLater
<1>2. did' = [i \in Ids |-> did'[i]]
  BY DEF DidInv
<1>3. failures' = 0 => \A i \in ToSet(kept') \ shared' : \A n \in did'[i] :
         /\ i \in ToSet(kept) /\ n \in did[i]
         /\ RanIn(ToSet(messages[i])) \subseteq RanIn(ToSet(messages'[i]))
         /\ ~(chat[w].id = i /\ n \in RanLater(todo[w]))
  BY <1>1
<1>4. failures' = 0 => failures = 0
  OBVIOUS
<1> QED
  BY <1>2, <1>3, <1>4, OneSaves

\* Opening, leaving, asking and asking again.
LEMMA NothingToDrop ==
    ASSUME NEW w, NEW x
    PROVE  DropsAs(w, x, <<>>)
<1>1. DOMAIN <<>> = {}
  OBVIOUS
<1> QED
  BY <1>1 DEF DropsAs

LEMMA OpensSaves ==
    ASSUME StoreInv, DidInv, NEW c \in Chats, Opens(c)
    PROVE  DidInv'
<1>1. /\ c \in Writers /\ todo[c] = <<>> /\ todo' = todo /\ UNCHANGED <<kept, messages, failures, did>>
  BY DEF Opens, Writers, StoreInv, ClosedIsQuiet, storeVars
<1>2. \A v \in Writers \ {c} : chat'[v] = chat[v] /\ todo'[v] = todo[v]
  BY <1>1 DEF Opens, StoreInv, SavedShape
<1>3. shared \subseteq shared'
  BY DEF Opens
<1>4. DropsAs(c, chat'[c], todo'[c])
  BY <1>1, NothingToDrop
<1> QED
  BY <1>1, <1>2, <1>3, <1>4, HandlerSaves

LEMMA LeavesSaves ==
    ASSUME StoreInv, DidInv, NEW c \in Chats, Leaves(c)
    PROVE  DidInv'
<1>1. /\ c \in Writers /\ todo[c] = <<>> /\ todo' = todo /\ UNCHANGED <<kept, messages, failures, did, shared>>
  BY DEF Leaves, Writers, storeVars
<1>2. \A v \in Writers \ {c} : chat'[v] = chat[v] /\ todo'[v] = todo[v]
  BY <1>1 DEF Leaves, StoreInv, SavedShape
<1>3. DropsAs(c, chat'[c], todo'[c])
  BY <1>1, NothingToDrop
<1> QED
  BY <1>1, <1>2, <1>3, HandlerSaves

LEMMA AsksSaves ==
    ASSUME StoreInv, DidInv, NEW c \in Chats, Asks(c) \/ Retries(c)
    PROVE  DidInv'
<1>1. /\ c \in Writers /\ todo[c] = <<>> /\ UNCHANGED <<kept, messages, failures, did, shared>>
      /\ chat \in [Writers -> ChatSet] /\ todo \in [Writers -> Seq(CallSet)]
  BY DEF Asks, Retries, AtRest, Writers, storeVars, StoreInv, SavedShape
<1>2. \A v \in Writers \ {c} : chat'[v] = chat[v] /\ todo'[v] = todo[v]
  BY <1>1 DEF Asks, Retries
<1>3. chat'[c].at = "asked"
  <2>1. chat[c] \in ChatSet
    BY <1>1
  <2>2. CASE Asks(c)
    BY <1>1, <2>1, <2>2 DEF Asks, ChatSet
  <2>3. CASE Retries(c)
    BY <1>1, <2>1, <2>3 DEF Retries, ChatSet
  <2> QED
    BY <2>2, <2>3
<1>4. DropsAs(c, chat'[c], todo'[c])
  BY <1>3 DEF DropsAs
<1> QED
  BY <1>1, <1>2, <1>4, HandlerSaves

\* A briefing drops nothing.
LEMMA ChecksInSaves ==
    ASSUME StoreInv, DidInv, ChecksIn
    PROVE  DidInv'
<1> DEFINE of == asked + 1
           q == [Question(of) EXCEPT !.hidden = TRUE]
           m == Message("assistant", of, FALSE, TRUE, FALSE)
           a == Start("asked for")
           b == AppendOf(q)
           d == AppendOf(m)
           r == Record
           y == <<a, b, d, r>>
<1>1. /\ Briefing \in Writers /\ todo[Briefing] = <<>> /\ UNCHANGED <<kept, messages, failures, did, shared>>
      /\ chat \in [Writers -> ChatSet] /\ todo \in [Writers -> Seq(CallSet)] /\ of \in Nat
  <2>1. todo[Briefing] = <<>> /\ UNCHANGED <<storeVars, did, shared>>
    BY Zenon DEF ChecksIn
  <2>2. UNCHANGED <<kept, messages, failures, did, shared>>
    BY <2>1 DEF storeVars
  <2>3. Briefing \in Writers
    BY DEF Writers
  <2>4. chat \in [Writers -> ChatSet] /\ todo \in [Writers -> Seq(CallSet)] /\ of \in Nat
    BY DEF StoreInv, SavedShape
  <2> QED
    BY <2>1, <2>2, <2>3, <2>4
<1>2. todo' = [todo EXCEPT ![Briefing] = y] /\ chat' = [chat EXCEPT ![Briefing] = Closed]
  BY DEF ChecksIn
<1>3. m \in MessageSet /\ q \in MessageSet
  BY <1>1, QuestionIsAMessage DEF Message, MessageSet, Roles
<1>4. /\ a \in CallSet /\ b \in CallSet /\ d \in CallSet /\ r \in CallSet
      /\ a.call = "start" /\ b.call = "append" /\ d.call = "append" /\ r.call = "record"
  BY <1>3, CallsOfTheStore DEF Titles
<1>5. PICK z : z = y
  OBVIOUS
<1>6. DOMAIN z = 1..4 /\ z[1] = a /\ z[2] = b /\ z[3] = d /\ z[4] = r
  <2> HIDE DEF a, b, d, r
  <2> QED
    BY <1>4, <1>5, FourOf
<1>7. todo'[Briefing] = z /\ \A v \in Writers \ {Briefing} : chat'[v] = chat[v] /\ todo'[v] = todo[v]
  <2> HIDE DEF y
  <2> QED
    BY <1>1, <1>2, <1>5
<1> HIDE DEF a, b, d, r
<1>8. \A k \in 1..4 : k = 1 \/ k = 2 \/ k = 3 \/ k = 4
  OBVIOUS
<1>9. \A k \in DOMAIN z : z[k].call # "drop"
  BY <1>4, <1>6, <1>8
<1>10. DropsAs(Briefing, chat'[Briefing], z)
  BY <1>9 DEF DropsAs
<1> QED
  BY <1>1, <1>7, <1>10, HandlerSaves

\* The end of a turn has what ran saved next, unless its conversation is gone.
LEMMA TurnEndsSaves ==
    ASSUME StoreInv, ShowInv, DidInv, NEW c \in Chats, TurnEnds(c)
    PROVE  DidInv'
<1>1. c \in Writers /\ chat[c] \in ChatSet /\ asked \in Nat /\ todo[c] = <<>>
  BY DEF TurnEnds, Writers, StoreInv, SavedShape
<1>2. PICK end \in {"done", "stopped", "failed", "left"}, text \in BOOLEAN, ran \in BOOLEAN :
        EndsAs(c, end, text, ran)
  BY DEF TurnEnds, EndsAs
<1> DEFINE reply == Message("assistant", asked, FALSE, text, ran)
           answered == Answered(end, text, ran)
           p == chat[c].pending
           calls == Ended(c, reply, answered)
           at == IF end = "left" THEN "leaving" ELSE "idle"
           shown == IF Remembered(end, text, ran) THEN Append(chat[c].shown, reply) ELSE chat[c].shown
           to == [chat[c] EXCEPT !.at = at, !.shown = shown]
           i == chat[c].id
<1>3. /\ reply \in MessageSet /\ answered \in BOOLEAN /\ reply.of = asked /\ reply.ran = ran
      /\ ran => answered
  BY <1>1, <1>2 DEF Message, MessageSet, Roles, Answered
<1>4. p \in Seq(MessageSet)
  BY <1>1 DEF ChatSet
<1>5. PICK x : x = to
  OBVIOUS
<1>6. PICK y : y = calls
  OBVIOUS
<1>7. /\ todo'[c] = y /\ chat'[c] = x /\ UNCHANGED <<kept, messages, failures, shared>>
      /\ \A v \in Writers \ {c} : chat'[v] = chat[v] /\ todo'[v] = todo[v]
      /\ did' = IF ran /\ i # None THEN [did EXCEPT ![i] = did[i] \cup {asked}] ELSE did
  <2> HIDE DEF reply, answered, calls
  <2>1. /\ todo' = [todo EXCEPT ![c] = y] /\ UNCHANGED <<kept, messages, failures, shared>>
        /\ chat' = [chat EXCEPT ![c].at = at, ![c].shown = shown]
        /\ did' = IF ran /\ i # None THEN [did EXCEPT ![i] = did[i] \cup {asked}] ELSE did
    BY <1>6, <1>2 DEF EndsAs, storeVars, reply, answered, calls
  <2>2. chat \in [Writers -> ChatSet] /\ todo \in [Writers -> Seq(CallSet)]
    BY DEF StoreInv, SavedShape
  <2> HIDE DEF at, shown, i
  <2>3. chat' = [chat EXCEPT ![c] = x]
    BY <1>1, <1>5, <2>1, <2>2
  <2> QED
    BY <1>1, <2>1, <2>2, <2>3
<1>8. x.id = i
  BY <1>1, <1>5 DEF ChatSet
<1> HIDE DEF reply, answered, calls, to, at, shown
<1>9. \/ y = <<>> /\ (~Active(c) \/ (i = None /\ (p = <<>> \/ ~answered)))
      \/ Active(c) /\ i # None /\ ~answered /\ y = <<Record>>
      \/ /\ Active(c) /\ i # None /\ answered
         /\ y \in Seq(CallSet) /\ DOMAIN y = 1..2 /\ y # <<>> /\ y[1] = AppendOf(reply) /\ y[2] = Record
      \/ /\ Active(c) /\ i = None /\ answered /\ p # <<>>
         /\ y \in Seq(CallSet) /\ Len(y) = Len(p) + 3
         /\ y[1] = Start("Explanation") /\ y[Len(p) + 2] = AppendOf(reply) /\ y[Len(p) + 3] = Record
         /\ \A k \in 1..Len(p) : y[k + 1] = AppendOf(p[k])
  BY <1>3, <1>4, <1>6, EndedOf DEF calls
<1>10. /\ AppendOf(reply).call = "append" /\ AppendOf(reply).m = reply /\ Record.call = "record"
       /\ Start("Explanation").call = "start"
       /\ \A k \in 1..Len(p) : AppendOf(p[k]).call = "append"
  <2>1. AppendOf(reply).call = "append" /\ AppendOf(reply).m = reply
    BY <1>3, CallsOfTheStore
  <2>2. Record.call = "record" /\ Start("Explanation").call = "start"
    BY CallsOfTheStore DEF Titles
  <2>3. ASSUME NEW k \in 1..Len(p) PROVE AppendOf(p[k]).call = "append"
    <3>1. p[k] \in MessageSet
      BY <1>4
    <3> QED
      BY <3>1, CallsOfTheStore
  <2> QED
    BY <2>1, <2>2, <2>3
<1>11. DropsAs(c, x, y)
  <2>1. CASE y = <<>>
    BY <2>1, NothingToDrop
  <2>2. CASE y = <<Record>>
    <3> DEFINE d == Record
    <3>1. d.call = "record" /\ d \in CallSet
      BY CallsOfTheStore
    <3>2. y = <<d>>
      BY <2>2
    <3> HIDE DEF d
    <3>3. DOMAIN y = {1} /\ y[1] = d
      BY <3>1, <3>2, OneOf
    <3> QED
      BY <3>1, <3>3 DEF DropsAs
  <2>3. CASE DOMAIN y = 1..2 /\ y[1] = AppendOf(reply) /\ y[2] = Record
    <3>1. \A k \in 1..2 : k = 1 \/ k = 2
      OBVIOUS
    <3> QED
      BY <1>10, <2>3, <3>1 DEF DropsAs
  <2>4. CASE /\ y \in Seq(CallSet) /\ Len(y) = Len(p) + 3
             /\ y[1] = Start("Explanation") /\ y[Len(p) + 2] = AppendOf(reply) /\ y[Len(p) + 3] = Record
             /\ \A k \in 1..Len(p) : y[k + 1] = AppendOf(p[k])
    <3>1. PICK n \in Nat : n = Len(p)
      BY <1>4
    <3>2. ASSUME NEW k \in DOMAIN y PROVE y[k].call # "drop"
      <4>1. k \in 1..(n + 3)
        BY <2>4, <3>1
      <4>2. CASE k = 1 \/ k = n + 2 \/ k = n + 3
        BY <1>10, <2>4, <3>1, <4>2
      <4>3. CASE ~(k = 1 \/ k = n + 2 \/ k = n + 3)
        <5>1. PICK l \in 1..n : k = l + 1
          <6>1. k - 1 \in 1..n /\ k = (k - 1) + 1
            BY <4>1, <4>3
          <6> QED
            BY <6>1
        <5> QED
          BY <1>10, <2>4, <3>1, <5>1
      <4> QED
        BY <4>2, <4>3
    <3> QED
      BY <3>2 DEF DropsAs
  <2> QED
    BY <1>9, <2>1, <2>2, <2>3, <2>4
<1>12. ASSUME ran, i \in ToSet(kept) PROVE asked \in RanLater(y)
  <2>1. i # None
    BY <1>12, KeptIsOne
  <2>2. Active(c)
    BY <1>1, <1>12 DEF Active, ShowInv, OffIsGone, IsKept
  <2>3. DOMAIN y = 1..2 /\ y[1] = AppendOf(reply)
    BY <1>3, <1>9, <1>12, <2>1, <2>2
  <2>4. AppendOf(reply) \in ToSet(y)
    BY <2>3 DEF ToSet
  <2> QED
    BY <1>3, <1>10, <1>12, <2>4 DEF RanLater, ToSave, RanIn
<1>13. did' = [j \in Ids |-> did'[j]]
  BY <1>7 DEF DidInv
<1>14. ASSUME NEW j \in ToSet(kept'), NEW n \in did'[j] PROVE n \in did[j] \/ (j = i /\ n \in RanLater(y))
  <2>1. j \in ToSet(kept)
    BY <1>7, <1>14
  <2>2. j \in Ids
    BY <2>1, KeptIsOne
  <2>3. n \in did[j] \/ (j = i /\ ran /\ n = asked)
    BY <1>7, <1>14, <2>2 DEF DidInv
  <2> QED
    BY <1>12, <2>1, <2>3
<1>15. RanLater(todo[c]) = {}
  BY <1>1, NothingRanLater
<1>16. failures' = 0 => \A j \in ToSet(kept') \ shared' : \A n \in did'[j] :
          \/ x.id = j /\ n \in RanLater(y)
          \/ /\ j \in ToSet(kept) /\ n \in did[j]
             /\ RanIn(ToSet(messages[j])) \subseteq RanIn(ToSet(messages'[j]))
             /\ ~(chat[c].id = j /\ n \in RanLater(todo[c]))
  BY <1>7, <1>8, <1>14, <1>15
<1> HIDE DEF i
<1>17. shared \subseteq shared' /\ (failures' = 0 => failures = 0)
  BY <1>7
<1> QED
  BY <1>1, <1>7, <1>11, <1>13, <1>16, <1>17, OneSaves

\* What is left to call, once the first is made or the rest given up, drops
\* no more.
LEMMA RestDrops ==
    ASSUME StoreInv, DidInv, NEW w \in Writers, todo[w] # <<>>, NEW x, x.at = chat[w].at,
           NEW y, y = <<>> \/ y = Tail(todo[w])
    PROVE  DropsAs(w, x, y)
<1>1. todo[w] \in Seq(CallSet)
  BY CallerIs
<1>2. DropsAs(w, chat[w], todo[w])
  BY DEF DidInv, DropsAsked
<1>3. CASE y = <<>>
  BY <1>3, NothingToDrop
<1>4. CASE y = Tail(todo[w])
  <2>1. \A k \in DOMAIN y : \E l \in DOMAIN todo[w] : y[k] = todo[w][l]
    BY <1>1, <1>4, SavesInTurn
  <2> QED
    BY <1>2, <2>1 DEF DropsAs
<1> QED
  BY <1>3, <1>4

\* A call that appends nothing leaves as much to be saved.
LEMMA LaterStill ==
    ASSUME StoreInv, NEW w \in Writers, todo[w] # <<>>, Head(todo[w]).call # "append"
    PROVE  \A n \in RanLater(todo[w]) : n \in RanLater(Tail(todo[w]))
<1>1. todo[w] \in Seq(CallSet) /\ todo[w][1].call # "append"
  BY CallerIs
<1> QED
  BY <1>1, SavesInTurn

\* Recording a turn saves and drops nothing.
LEMMA RecordsSaves ==
    ASSUME StoreInv, DidInv, NEW w \in Writers, Records(w)
    PROVE  DidInv'
<1>1. PICK y : y = Tail(todo[w])
  OBVIOUS
<1>2. PICK x : x = chat[w]
  OBVIOUS
<1>3. /\ todo[w] # <<>> /\ Head(todo[w]).call # "append" /\ UNCHANGED <<kept, messages, failures, shared, did>>
      /\ chat' = chat /\ todo' = [todo EXCEPT ![w] = Tail(todo[w])] /\ todo \in [Writers -> Seq(CallSet)]
  BY DEF Records, Called, StoreInv, SavedShape
<1>4. /\ chat'[w] = x /\ todo'[w] = y
      /\ \A v \in Writers \ {w} : chat'[v] = chat[v] /\ todo'[v] = todo[v]
  BY <1>1, <1>2, <1>3
<1>5. DropsAs(w, x, y)
  BY <1>1, <1>2, <1>3, RestDrops
<1>6. \A n \in RanLater(todo[w]) : n \in RanLater(y)
  BY <1>1, <1>3, LaterStill
<1>7. failures' = 0 => \A i \in ToSet(kept') \ shared' : \A n \in did'[i] :
         /\ i \in ToSet(kept) /\ n \in did[i]
         /\ RanIn(ToSet(messages[i])) \subseteq RanIn(ToSet(messages'[i]))
         /\ (chat[w].id = i /\ n \in RanLater(todo[w])) => x.id = i /\ n \in RanLater(y)
  BY <1>2, <1>3, <1>6
<1>8. did' = [i \in Ids |-> did'[i]] /\ shared \subseteq shared' /\ (failures' = 0 => failures = 0)
  BY <1>3 DEF DidInv
<1> QED
  BY <1>4, <1>5, <1>7, <1>8, OneSaves

\* Dropping what follows the last question drops nothing that ran, where one
\* chat has the conversation open.
LEMMA DropsSaves ==
    ASSUME StoreInv, ShowInv, DidInv, NEW w \in Writers, Drops(w)
    PROVE  DidInv'
<1>1. PICK y : y = Tail(todo[w])
  OBVIOUS
<1>2. PICK x : x = chat[w]
  OBVIOUS
<1>3. /\ todo[w] # <<>> /\ Head(todo[w]).call = "drop" /\ UNCHANGED <<kept, failures, shared, did>>
      /\ chat' = chat /\ todo' = [todo EXCEPT ![w] = Tail(todo[w])] /\ todo \in [Writers -> Seq(CallSet)]
      /\ messages' = [messages EXCEPT ![x.id] = UpToQuestion(messages[x.id])]
      /\ messages \in [Ids -> Seq(MessageSet)]
  BY <1>2 DEF Drops, Called, StoreInv, SavedShape
<1>4. /\ chat'[w] = x /\ todo'[w] = y
      /\ \A v \in Writers \ {w} : chat'[v] = chat[v] /\ todo'[v] = todo[v]
  BY <1>1, <1>2, <1>3
<1>5. DropsAs(w, x, y)
  BY <1>1, <1>2, <1>3, RestDrops
<1>6. \A n \in RanLater(todo[w]) : n \in RanLater(y)
  BY <1>1, <1>3, LaterStill
<1>7. /\ todo[w][1].call = "drop" /\ 1 \in DOMAIN todo[w] /\ x.id # None
  BY <1>2, <1>3, CallerIs
<1>8. w \in Chats /\ x.at = "asked"
  BY <1>2, <1>7 DEF DidInv, DropsAsked, DropsAs
<1>9. ASSUME failures = 0, x.id \in ToSet(kept), x.id \notin shared
      PROVE  RanIn(ToSet(messages[x.id])) \subseteq RanIn(ToSet(UpToQuestion(messages[x.id])))
  <2>1. Agrees(x, todo[w])
    BY <1>2, <1>8, <1>9 DEF ShowInv, AgreesOpen
  <2> QED
    BY <1>3, <1>7, <1>9, <2>1 DEF Agrees, IsKept
<1>10. ASSUME failures = 0, NEW i \in ToSet(kept) \ shared
       PROVE  RanIn(ToSet(messages[i])) \subseteq RanIn(ToSet(messages'[i]))
  <2>1. i \in Ids
    BY KeptIsOne
  <2>2. CASE i = x.id
    <3>1. messages'[i] = UpToQuestion(messages[i])
      BY <1>3, <2>1, <2>2
    <3> QED
      BY <1>9, <1>10, <2>2, <3>1
  <2>3. CASE i # x.id
    <3>1. messages'[i] = messages[i]
      BY <1>3, <2>1, <2>3
    <3> QED
      BY <3>1
  <2> QED
    BY <2>2, <2>3
<1>11. failures' = 0 => \A i \in ToSet(kept') \ shared' : \A n \in did'[i] :
          /\ i \in ToSet(kept) /\ n \in did[i]
          /\ RanIn(ToSet(messages[i])) \subseteq RanIn(ToSet(messages'[i]))
          /\ (chat[w].id = i /\ n \in RanLater(todo[w])) => x.id = i /\ n \in RanLater(y)
  <2> SUFFICES ASSUME failures' = 0, NEW i \in ToSet(kept') \ shared', NEW n \in did'[i]
               PROVE  /\ i \in ToSet(kept) /\ n \in did[i]
                      /\ RanIn(ToSet(messages[i])) \subseteq RanIn(ToSet(messages'[i]))
                      /\ (chat[w].id = i /\ n \in RanLater(todo[w])) => x.id = i /\ n \in RanLater(y)
    OBVIOUS
  <2>1. failures = 0 /\ i \in ToSet(kept) \ shared /\ n \in did[i]
    BY <1>3
  <2>2. RanIn(ToSet(messages[i])) \subseteq RanIn(ToSet(messages'[i]))
    BY <1>10, <2>1
  <2> QED
    BY <1>2, <1>6, <2>1, <2>2
<1>12. did' = [i \in Ids |-> did'[i]] /\ shared \subseteq shared' /\ (failures' = 0 => failures = 0)
  BY <1>3 DEF DidInv
<1> QED
  BY <1>4, <1>5, <1>11, <1>12, OneSaves

\* A message saved needs no more saving; where it can't be, its conversation
\* is gone.
LEMMA AppendsSaves ==
    ASSUME StoreInv, ShowInv, DidInv, NEW w \in Writers, Appends(w)
    PROVE  DidInv'
<1>1. PICK i : i = chat[w].id
  OBVIOUS
<1>2. /\ todo[w] # <<>> /\ todo[w][1].call = "append" /\ todo[w][1] \in CallSet /\ Head(todo[w]) = todo[w][1]
      /\ i \in Ids /\ chat[w] \in ChatSet /\ todo[w] \in Seq(CallSet) /\ UNCHANGED <<failures, shared, did>>
      /\ chat \in [Writers -> ChatSet] /\ todo \in [Writers -> Seq(CallSet)] /\ messages \in [Ids -> Seq(MessageSet)]
  BY <1>1, CallerIs DEF Appends, StoreInv, SavedShape
<1>3. did' = [j \in Ids |-> did'[j]] /\ shared \subseteq shared' /\ (failures' = 0 => failures = 0)
  BY <1>2 DEF DidInv
<1>4. CASE ~(Active(w) /\ Takes(i))
  <2>1. PICK y : y = IF w = Briefing THEN <<>> ELSE Tail(todo[w])
    OBVIOUS
  <2>2. PICK x : x = [chat[w] EXCEPT !.off = TRUE]
    OBVIOUS
  <2>3. /\ chat' = [chat EXCEPT ![w] = x] /\ todo' = [todo EXCEPT ![w] = y] /\ UNCHANGED <<messages, kept>>
    BY <1>1, <1>2, <1>4, <2>1, <2>2 DEF Appends, Called
  <2>4. x.at = chat[w].at
    BY <1>2, <2>2 DEF ChatSet
  <2>5. DropsAs(w, x, y)
    BY <1>2, <2>1, <2>4, RestDrops
  <2>6. /\ chat'[w] = x /\ todo'[w] = y
        /\ \A v \in Writers \ {w} : chat'[v] = chat[v] /\ todo'[v] = todo[v]
    BY <1>2, <2>3
  <2>7. i \notin ToSet(kept)
    BY <1>1, <1>4 DEF Active, Takes, IsKept, ShowInv, OffIsGone
  <2>8. failures' = 0 => \A j \in ToSet(kept') \ shared' : \A n \in did'[j] :
           /\ j \in ToSet(kept) /\ n \in did[j]
           /\ RanIn(ToSet(messages[j])) \subseteq RanIn(ToSet(messages'[j]))
           /\ ~(chat[w].id = j /\ n \in RanLater(todo[w]))
    BY <1>1, <1>2, <2>3, <2>7
  <2> QED
    BY <1>3, <2>5, <2>6, <2>8, OneSaves
<1>5. CASE Active(w) /\ Takes(i)
  <2>1. PICK y : y = Tail(todo[w])
    OBVIOUS
  <2>2. PICK x : x = chat[w]
    OBVIOUS
  <2>3. PICK m : m = todo[w][1].m
    OBVIOUS
  <2>4. /\ messages' = [messages EXCEPT ![i] = Append(messages[i], m)]
        /\ kept' = <<i>> \o Without(kept, i) /\ i \in ToSet(kept)
        /\ chat' = chat /\ todo' = [todo EXCEPT ![w] = y]
    BY <1>1, <1>2, <1>5, <2>1, <2>3 DEF Appends, Called, Takes, IsKept
  <2>5. m \in MessageSet
    BY <1>2, <2>3 DEF CallSet
  <2>6. ToSet(kept') = ToSet(kept)
    <3> DEFINE s == Without(kept, i)
    <3>1. kept \in Seq(Ids) /\ IsInjective(kept)
      BY DEF StoreInv, SavedShape, KeptOnce
    <3>2. s \in Seq(Ids) /\ ToSet(s) = ToSet(kept) \ {i} /\ IsInjective(s)
      BY <2>4, <3>1, WithoutOf
    <3> HIDE DEF s
    <3>3. i \in Ids /\ i \notin ToSet(s)
      BY <1>2, <3>2
    <3>4. ToSet(<<i>> \o s) = ToSet(s) \cup {i}
      BY <3>2, <3>3, PutFirst
    <3> QED
      BY <2>4, <3>2, <3>4 DEF s
  <2>7. ToSet(messages'[i]) = ToSet(messages[i]) \cup {m} /\ \A j \in Ids \ {i} : messages'[j] = messages[j]
    <3>1. PICK ms \in Seq(MessageSet) : ms = messages[i]
      BY <1>2
    <3>2. messages'[i] = Append(ms, m) /\ \A j \in Ids \ {i} : messages'[j] = messages[j]
      BY <1>2, <2>4, <3>1
    <3>3. PICK ns : ns = Append(ms, m)
      OBVIOUS
    <3>4. /\ DOMAIN ms = 1..Len(ms) /\ DOMAIN ns = 1..(Len(ms) + 1) /\ Len(ms) \in Nat
          /\ ns[Len(ms) + 1] = m /\ \A k \in 1..Len(ms) : ns[k] = ms[k]
      BY <2>5, <3>1, <3>3
    <3>5. ToSet(ns) = ToSet(ms) \cup {m}
      <4>1. ASSUME NEW k \in 1..(Len(ms) + 1) PROVE ns[k] \in ToSet(ms) \cup {m}
        <5>1. k \in 1..Len(ms) \/ k = Len(ms) + 1
          BY <3>4
        <5> QED
          BY <3>4, <5>1 DEF ToSet
      <4>2. ASSUME NEW k \in 1..Len(ms) PROVE ms[k] \in ToSet(ns)
        <5>1. k \in 1..(Len(ms) + 1)
          BY <3>4
        <5> QED
          BY <3>4, <5>1 DEF ToSet
      <4>3. m \in ToSet(ns)
        <5>1. Len(ms) + 1 \in 1..(Len(ms) + 1)
          BY <3>4
        <5> QED
          BY <3>4, <5>1 DEF ToSet
      <4> QED
        BY <3>4, <4>1, <4>2, <4>3 DEF ToSet
    <3> QED
      BY <3>1, <3>2, <3>3, <3>5
  <2>8. DropsAs(w, x, y)
    BY <1>2, <2>1, <2>2, RestDrops
  <2>9. /\ chat'[w] = x /\ todo'[w] = y
        /\ \A v \in Writers \ {w} : chat'[v] = chat[v] /\ todo'[v] = todo[v]
    BY <1>2, <2>2, <2>4
  <2>10. ASSUME NEW n \in RanLater(todo[w]) PROVE n \in RanLater(y) \/ n \in RanIn(ToSet(messages'[i]))
    <3>1. n \in RanLater(y) \/ (m.ran /\ m.of = n)
      BY <1>2, <2>1, <2>3, SavesInTurn
    <3>2. m.ran => m.of \in RanIn(ToSet(messages'[i]))
      BY <2>7 DEF RanIn
    <3> QED
      BY <3>1, <3>2
  <2>11. ASSUME NEW j \in ToSet(kept)
         PROVE  RanIn(ToSet(messages[j])) \subseteq RanIn(ToSet(messages'[j]))
    <3>1. j \in Ids
      BY KeptIsOne
    <3>2. ToSet(messages[j]) \subseteq ToSet(messages'[j])
      BY <2>7, <3>1
    <3> QED
      BY <3>2 DEF RanIn
  <2>12. failures' = 0 => \A j \in ToSet(kept') \ shared' : \A n \in did'[j] :
            /\ j \in ToSet(kept) /\ n \in did[j]
            /\ RanIn(ToSet(messages[j])) \subseteq RanIn(ToSet(messages'[j]))
            /\ (chat[w].id = j /\ n \in RanLater(todo[w])) =>
                  n \in RanIn(ToSet(messages'[j])) \/ (x.id = j /\ n \in RanLater(y))
    BY <1>1, <1>2, <2>2, <2>6, <2>10, <2>11
  <2> QED
    BY <1>3, <2>8, <2>9, <2>12, OneSaves
<1> QED
  BY <1>4, <1>5

\* A conversation starts with what is about to be saved in it, and no other
\* that stays is emptied.
LEMMA StartsSaves ==
    ASSUME StoreInv, DidInv, NEW w \in Writers, Starts(w)
    PROVE  DidInv'
<1>1. PICK n : n = ids + 1
  OBVIOUS
<1>2. PICK y : y = Tail(todo[w])
  OBVIOUS
<1>3. PICK x : x = [chat[w] EXCEPT !.id = n, !.pending = <<>>]
  OBVIOUS
<1>4. /\ todo[w] # <<>> /\ todo[w][1].call = "start" /\ Head(todo[w]) = todo[w][1] /\ chat[w] \in ChatSet
      /\ ids < MaxConversations /\ UNCHANGED <<failures, shared>> /\ 1 \in DOMAIN todo[w]
      /\ chat \in [Writers -> ChatSet] /\ messages \in [Ids -> Seq(MessageSet)] /\ todo \in [Writers -> Seq(CallSet)]
      /\ chat[w].id = None
  <2>1. /\ todo[w] # <<>> /\ Head(todo[w]).call = "start" /\ ids < MaxConversations /\ UNCHANGED <<failures, shared>>
    BY DEF Starts
  <2>2. /\ RightCalls(chat[w], todo[w], asked) /\ chat[w] \in ChatSet /\ Head(todo[w]) = todo[w][1]
        /\ 1 \in DOMAIN todo[w]
    BY <2>1, CallerIs
  <2>3. chat[w].id = None
    BY <2>1, <2>2 DEF RightCalls, StartsFirst
  <2> QED
    BY <2>1, <2>2, <2>3 DEF StoreInv, SavedShape
<1>5. /\ kept' = <<n>> \o Recent(kept)
      /\ messages' = [j \in Ids |-> IF j \in Stale(kept) THEN <<>> ELSE messages[j]]
      /\ todo' = [todo EXCEPT ![w] = y] /\ chat' = [chat EXCEPT ![w] = x]
      /\ did' = [did EXCEPT ![n] = RanLater(todo[w])]
  <2>1. chat' = [chat EXCEPT ![w].id = n, ![w].pending = <<>>]
    BY <1>1 DEF Starts, NewId
  <2>2. chat' = [chat EXCEPT ![w] = x]
    BY <1>3, <1>4, <2>1
  <2>3. did' = [did EXCEPT ![n] = RanIn(ToAppend(w))]
    BY <1>1 DEF Starts, NewId
  <2>4. RanIn(ToAppend(w)) = RanLater(todo[w])
    BY DEF RanLater, ToSave, ToAppend
  <2>5. did' = [did EXCEPT ![n] = RanLater(todo[w])]
    BY <2>3, <2>4
  <2> QED
    BY <1>1, <1>2, <2>2, <2>5 DEF Starts, NewId, Called
<1>6. /\ n # None /\ n \in Ids /\ n \notin ToSet(kept)
  <2>1. ids \in Nat /\ n \notin 1..ids /\ n # None /\ n \in Ids
    BY <1>1, <1>4, SavedConstants DEF StoreInv, SavedShape, Ids, None
  <2> QED
    BY <2>1 DEF StoreInv, KeptOnce
<1>7. x.id = n /\ x.at = chat[w].at
  BY <1>3, <1>4 DEF ChatSet
<1>8. ToSet(kept') = (ToSet(kept) \ Stale(kept)) \cup {n}
  <2> DEFINE others == Recent(kept)
  <2>1. kept \in Seq(Ids) /\ IsInjective(kept) /\ Keep \in Nat \ {0}
    BY SavedConstants DEF StoreInv, SavedShape, KeptOnce
  <2>2. others \in Seq(Ids) /\ ToSet(others) = ToSet(kept) \ Stale(kept) /\ IsInjective(others)
    BY <2>1, RecentOf
  <2> HIDE DEF others
  <2>3. n \notin ToSet(others)
    BY <1>6, <2>2
  <2>4. ToSet(<<n>> \o others) = ToSet(others) \cup {n}
    BY <1>6, <2>2, <2>3, PutFirst
  <2>5. kept' = <<n>> \o others
    BY <1>5 DEF others
  <2> QED
    BY <2>2, <2>4, <2>5
<1>9. DropsAs(w, x, y)
  BY <1>2, <1>4, <1>7, RestDrops
<1>10. \A k \in RanLater(todo[w]) : k \in RanLater(y)
  BY <1>2, <1>4, LaterStill
<1>11. /\ did' = [j \in Ids |-> did'[j]]
       /\ did'[n] = RanLater(todo[w]) /\ \A j \in Ids \ {n} : did'[j] = did[j]
  BY <1>5, <1>6 DEF DidInv
<1>12. \A j \in ToSet(kept') : \A k \in did'[j] :
         \/ x.id = j /\ k \in RanLater(y)
         \/ /\ j \in ToSet(kept) /\ k \in did[j]
            /\ RanIn(ToSet(messages[j])) \subseteq RanIn(ToSet(messages'[j]))
            /\ ~(chat[w].id = j /\ k \in RanLater(todo[w]))
  <2> SUFFICES ASSUME NEW j \in ToSet(kept'), NEW k \in did'[j], j # n
               PROVE  /\ j \in ToSet(kept) /\ k \in did[j]
                      /\ RanIn(ToSet(messages[j])) \subseteq RanIn(ToSet(messages'[j]))
                      /\ chat[w].id # j
    BY <1>7, <1>10, <1>11
  <2>1. j \in ToSet(kept) /\ j \notin Stale(kept)
    BY <1>8
  <2>2. j \in Ids /\ j # None
    BY <2>1, KeptIsOne
  <2>3. messages'[j] = messages[j] /\ k \in did[j]
    BY <1>5, <1>11, <2>1, <2>2
  <2> QED
    BY <1>4, <2>1, <2>2, <2>3
<1>13. failures' = 0 => \A j \in ToSet(kept') \ shared' : \A k \in did'[j] :
         \/ x.id = j /\ k \in RanLater(y)
         \/ /\ j \in ToSet(kept) /\ k \in did[j]
            /\ RanIn(ToSet(messages[j])) \subseteq RanIn(ToSet(messages'[j]))
            /\ ~(chat[w].id = j /\ k \in RanLater(todo[w]))
  BY <1>12
<1>14. /\ chat'[w] = x /\ todo'[w] = y
       /\ \A v \in Writers \ {w} : chat'[v] = chat[v] /\ todo'[v] = todo[v]
  BY <1>4, <1>5
<1>15. shared \subseteq shared' /\ (failures' = 0 => failures = 0)
  BY <1>4
<1> QED
  BY <1>9, <1>11, <1>13, <1>14, <1>15, OneSaves

\* Once a store call failed nothing is promised.
LEMMA StoreFailsSaves ==
    ASSUME StoreInv, DidInv, NEW w \in Writers, StoreFails(w)
    PROVE  DidInv'
<1>1. PICK y : y = IF GivesUpAfter(w, Head(todo[w]).call) THEN <<>> ELSE Tail(todo[w])
  OBVIOUS
<1>2. /\ todo[w] # <<>> /\ failures' = failures + 1 /\ chat' = chat /\ did' = did
      /\ todo' = [todo EXCEPT ![w] = y] /\ shared' = shared
      /\ todo \in [Writers -> Seq(CallSet)] /\ failures \in Nat
  BY <1>1 DEF StoreFails, Called, StoreInv, SavedShape
<1>3. failures' # 0
  BY <1>2
<1>4. PICK x : x = chat[w]
  OBVIOUS
<1>5. /\ chat'[w] = x /\ todo'[w] = y
      /\ \A v \in Writers \ {w} : chat'[v] = chat[v] /\ todo'[v] = todo[v]
  BY <1>2, <1>4
<1>6. DropsAs(w, x, y)
  BY <1>1, <1>2, <1>4, RestDrops
<1>7. did' = [j \in Ids |-> did'[j]] /\ shared \subseteq shared'
  BY <1>2 DEF DidInv
<1> QED
  BY <1>3, <1>5, <1>6, <1>7, OneSaves

\* What is kept of the list is as it was.
LEMMA ListSaves ==
    ASSUME StoreInv, DidInv, FromTheList
    PROVE  DidInv'
<1>1. /\ UNCHANGED <<chat, todo, failures>>
      /\ \A j \in ToSet(kept') : j \in ToSet(kept) /\ messages'[j] = messages[j]
  BY FromTheListKeeps
<1>2. UNCHANGED <<shared, did>>
  BY DEF FromTheList, DeletesAll, Deletes, Renames
<1>3. DropsAsked'
  BY <1>1 DEF DidInv, DropsAsked, DropsAs
<1>4. DidIsSaved'
  <2> SUFFICES ASSUME failures' = 0, NEW j \in ToSet(kept') \ shared', NEW n \in did'[j]
               PROVE  \/ n \in RanIn(ToSet(messages'[j]))
                      \/ \E v \in Writers : chat'[v].id = j /\ n \in RanLater(todo'[v])
    BY DEF DidIsSaved, RanLater, ToSave, RanIn
  <2>1. failures = 0 /\ j \in ToSet(kept) \ shared /\ n \in did[j] /\ messages'[j] = messages[j]
    BY <1>1, <1>2
  <2>2. \/ n \in RanIn(ToSet(messages[j]))
        \/ \E v \in Writers : chat[v].id = j /\ n \in RanLater(todo[v])
    BY <2>1 DEF DidInv, DidIsSaved
  <2> QED
    BY <1>1, <2>1, <2>2
<1> QED
  BY <1>2, <1>3, <1>4 DEF DidInv

\* Nothing ran at first.
LEMMA DidInit ==
    ASSUME SavedInit
    PROVE  DidInv
<1>1. kept = <<>> /\ did = [i \in Ids |-> {}] /\ \A w \in Writers : todo[w] = <<>>
  BY DEF SavedInit
<1>2. DropsAsked
  BY <1>1, NothingToDrop DEF DropsAsked
<1>3. DidIsSaved
  <2>1. ToSet(<<>>) = {}
    BY DEF ToSet
  <2> QED
    BY <1>1, <2>1 DEF DidIsSaved
<1> QED
  BY <1>1, <1>2, <1>3 DEF DidInv

\* Every step of the chat leaves what ran saved, or about to be.
LEMMA DidStep ==
    ASSUME StoreInv, ShowInv, DidInv, [SavedNext]_savedVars
    PROVE  DidInv'
<1>1. CASE UNCHANGED savedVars
  <2>1. UNCHANGED <<chat, todo, failures, kept, messages, shared, did>>
    BY <1>1 DEF savedVars
  <2> QED
    BY <2>1 DEF DidInv, DropsAsked, DropsAs, DidIsSaved, RanLater, ToSave, RanIn
<1>2. ASSUME NEW c \in Chats, Opens(c) \/ Leaves(c) \/ Asks(c) \/ Retries(c) \/ TurnEnds(c)
      PROVE  DidInv'
  BY <1>2, OpensSaves, LeavesSaves, AsksSaves, TurnEndsSaves
<1>3. CASE ChecksIn
  BY <1>3, ChecksInSaves
<1>4. ASSUME NEW w \in Writers, Starts(w) \/ Appends(w) \/ Records(w) \/ Drops(w) \/ StoreFails(w)
      PROVE  DidInv'
  BY <1>4, StartsSaves, AppendsSaves, RecordsSaves, DropsSaves, StoreFailsSaves
<1>5. CASE FromTheList
  BY <1>5, ListSaves
<1> QED
  BY <1>1, <1>2, <1>3, <1>4, <1>5 DEF SavedNext

\* What a model is told is what the assistant's side of a replay is of.
LEMMA ToldIs ==
    ASSUME NEW out, NEW told,
           told = UNION {b.of : b \in {b \in ToSet(out) : b.role = "assistant"}}
    PROVE  told = OfRole(out, "assistant")
  BY DEF OfRole, ToSet

\* A reply that ran is one a replay tells of, of a conversation that starts
\* with its question.
LEMMA RanAreTold ==
    ASSUME NEW ms \in Seq(MessageSet), AsksFirst(ms)
    PROVE  RanIn(ToSet(ms)) \subseteq OfRole(Replayable(ms), "assistant")
<1>1. \A m \in ToSet(ms) : Told(m) => m.of \in OfRole(Replayable(ms), m.role)
  BY ReplayableOf
<1>2. \A m \in ToSet(ms) : m.ran => Told(m) /\ m.role = "assistant"
  BY DEF ToSet, Told, MessageSet
<1> QED
  BY <1>1, <1>2 DEF RanIn

(* Whatever opening, asking again, stopping, deletion and pruning do to    *)
(* the chats and to each other, while no store call failed a conversation  *)
(* that is reopened tells, in a reply, of every turn whose actions ran,    *)
(* those it is still to save aside (saved.go:80-113, conn.go:93-98): a     *)
(* turn that ran is never asked again, so that its reply is dropped only   *)
(* by another chat that has the conversation open, which the property      *)
(* leaves out (store.go:213-225).                                          *)
THEOREM ActionsAreToldHolds == SavedSpec => []ActionsAreTold
<1>1. SavedInit => StoreInv /\ ShowInv /\ AskInv /\ DidInv
  BY StoreInit, ShowInit, AskInit, DidInit
<1>2. (StoreInv /\ ShowInv /\ AskInv /\ DidInv) /\ [SavedNext]_savedVars
         => (StoreInv /\ ShowInv /\ AskInv /\ DidInv)'
  BY StoreStep, ShowStep, AskStep, DidStep
<1>3. StoreInv /\ AskInv /\ DidInv => ActionsAreTold
  <2> SUFFICES ASSUME StoreInv, AskInv, DidInv PROVE ActionsAreTold
    OBVIOUS
  <2>1. ASSUME failures = 0, NEW i \in Ids
        PROVE  LET replies == {out \in ToSet(Replayable(messages[i])) : out.role = "assistant"}
                   told == UNION {out.of : out \in replies}
                   coming == UNION {RanIn(ToAppend(w)) : w \in {w \in Writers : chat[w].id = i}}
               IN  /\ RanIn(ToSet(messages[i])) \subseteq told
                   /\ IsKept(i) /\ i \notin shared => did[i] \subseteq told \cup coming
    <3>1. PICK told : told = UNION {b.of : b \in {b \in ToSet(Replayable(messages[i])) : b.role = "assistant"}}
      OBVIOUS
    <3>2. PICK coming : coming = UNION {RanIn(ToAppend(w)) : w \in {w \in Writers : chat[w].id = i}}
      OBVIOUS
    <3>3. messages[i] \in Seq(MessageSet) /\ AsksFirst(messages[i])
      BY <2>1 DEF StoreInv, SavedShape, AskInv, QuestionsFirst
    <3>4. RanIn(ToSet(messages[i])) \subseteq told
      <4>1. PICK out : out = Replayable(messages[i])
        OBVIOUS
      <4>2. told = UNION {b.of : b \in {b \in ToSet(out) : b.role = "assistant"}}
        BY <3>1, <4>1
      <4>3. told = OfRole(out, "assistant")
        BY <4>2, ToldIs
      <4>4. RanIn(ToSet(messages[i])) \subseteq OfRole(Replayable(messages[i]), "assistant")
        BY <3>3, RanAreTold
      <4> QED
        BY <4>1, <4>3, <4>4
    <3>5. ASSUME IsKept(i), i \notin shared, NEW n \in did[i] PROVE n \in told \cup coming
      <4>1. \/ n \in RanIn(ToSet(messages[i]))
            \/ \E v \in Writers : chat[v].id = i /\ n \in RanLater(todo[v])
        BY <2>1, <3>5 DEF DidInv, DidIsSaved, IsKept
      <4>2. ASSUME NEW v \in Writers, chat[v].id = i, n \in RanLater(todo[v]) PROVE n \in coming
        <5>1. n \in RanIn(ToAppend(v))
          BY <4>2 DEF RanLater, ToSave, ToAppend
        <5> QED
          BY <3>2, <4>2, <5>1
      <4> QED
        BY <3>4, <4>1, <4>2
    <3> QED
      BY <3>1, <3>2, <3>4, <3>5
  <2> QED
    BY <2>1 DEF ActionsAreTold
<1> QED
  BY <1>1, <1>2, <1>3, PTL DEF SavedSpec
=============================================================================
