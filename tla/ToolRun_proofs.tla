---------------------------- MODULE ToolRun_proofs ----------------------------
(***************************************************************************)
(* Proofs about ToolRun.  Two invariants:                                  *)
(*   JobsInv   where the action has got to and which of its jobs have      *)
(*             ended: only the newest may not have, and only while it's    *)
(*             waited for;                                                 *)
(*   NamesInv  what is named between the card and the run, and what the    *)
(*             calls are to.                                               *)
(***************************************************************************)
EXTENDS ToolRun, TLAPS

Actions == {r.action : r \in Requests}
Targets == Nat \cup {Images, None} \cup Actions
Methods == {"dismiss", "run", "stop", "start", "update", "rollback", "snapshot"} \cup Actions
Outcomes == {"nothing", "no card", "error", "done", "partly", "started"}
Waiting == {"job", "scrub", "refusal", "machine", "service", "each", "nothing"}
CallSet == [method : Methods, to : Targets, wait : Waiting]
JobSet == [method : Methods, to : Targets, state : {"running", "done", "failed"}]
OutcomeSet == [says : Outcomes, ran : SUBSET Nat, job : Nat \cup {None}, failed : Nat \cup {None}]

\* The shape of the state.
Shape ==
    /\ request \in Requests /\ newer \in BOOLEAN
    /\ jobs \in Seq(JobSet) /\ todo \in Seq(CallSet) /\ calls \in Seq(CallSet)
    /\ outcome \in OutcomeSet

\* What is known of the NAS from the start stays known, whatever others do,
\* and so does what Run is given.
StillKnown == Known(request.tool, nas) /\ named \in Nat \cup {None}

\* Only a job, or each of several, is followed by another call.
NextNeedsThis == \A n \in DOMAIN todo : n < Len(todo) => todo[n].wait \in {"job", "each"}
Awaited == step \in {"wait", "look"} => Head(todo).wait \notin {"each", "nothing"}

\* Only the newest job may not have succeeded, and before a call not that one.
NotBegun == step \in {"describe", "card", "run"} => jobs = <<>> /\ calls = <<>> /\ todo = <<>>
AllButNewest == \A i \in DOMAIN jobs : i < Len(jobs) => jobs[i].state = "done"
BeforeACall == step = "call" => \A i \in DOMAIN jobs : jobs[i].state = "done"

\* The outcome, at any time.
RanIsDone == \A i \in outcome.ran : i \in DOMAIN jobs /\ jobs[i].state = "done"
FailedHas == outcome.failed # None => outcome.failed \in DOMAIN jobs /\ jobs[outcome.failed].state = "failed"
StartedIs == outcome.job # None => outcome.job \in DOMAIN jobs
StartedHas == outcome.says = "started" => outcome.job # None

JobsInv ==
    /\ Shape /\ StillKnown /\ TypeOK
    /\ NextNeedsThis /\ Awaited
    /\ NotBegun /\ AllButNewest /\ BeforeACall
    /\ RanIsDone /\ FailedHas /\ StartedIs /\ StartedHas

\* Up to the run, what is named is what the card says, and where that is
\* images, the app as it was then had nothing else; from then, the calls are
\* to that.
VersionFor(app) == IF named = None THEN app.newest ELSE named
CardOfImages ==
    /\ request.tool = "update" /\ (seen.card.custom => nas.custom)
    /\ seen.card.custom \/ VersionFor(seen.card) = seen.card.version
ToCard(s) == \A n \in DOMAIN s : AsOnCard(s[n].to)
NamesInv ==
    /\ JobsInv
    /\ DOMAIN seen = {"card", "run"}
    /\ step = "describe" => named = request.named
    /\ request.tool \in Named =>
          /\ (step \in {"card", "run"} /\ card # Images) => named = card /\ named # None
          /\ (step \in {"card", "run"} /\ card = Images) => CardOfImages
          /\ ToCard(todo) /\ ToCard(calls)
-----------------------------------------------------------------------------
(* Planning. *)

LEMMA NewestOfThem ==
    ASSUME NEW versions \in SUBSET Nat,
           \E v \in versions : \A w \in versions : w =< v
    PROVE  Newest(versions) \in versions
  BY DEF Newest

\* A plan is a version, a name, new images or what was asked.
LEMMA PlanIsATarget ==
    ASSUME request \in Requests, StillKnown, ~Unsuitable
    PROVE  /\ Plan \in Targets
           /\ request.tool \in Named => Plan \in Nat \cup {Images}
           /\ request.tool \notin Named => Plan \in Actions
<1>1. CASE request.tool = "update"
  <2>1. nas.newest \in Nat
    BY <1>1 DEF StillKnown, Known
  <2> QED
    BY <1>1, <2>1 DEF Plan, Named, UpdateTo, Targets, StillKnown
<1>2. CASE request.tool = "rollback"
  <2>1. /\ nas.earlier \in SUBSET Nat /\ nas.earlier # {}
        /\ \E v \in nas.earlier : \A w \in nas.earlier : w =< v
    BY <1>2 DEF StillKnown, Known, Unsuitable, CantRollBack, Tasks
  <2>2. Newest(nas.earlier) \in Nat
    BY <2>1, NewestOfThem
  <2> QED
    BY <1>2, <2>2 DEF Plan, Named, RollbackTo, Targets, StillKnown
<1>3. CASE request.tool = "snapshot"
  <2>1. nas.minute \in Nat
    BY <1>3 DEF StillKnown, Known
  <2> QED
    BY <1>3, <2>1 DEF Plan, Named, SnapshotName, Targets, StillKnown
<1>4. CASE request.tool \notin Named
  BY <1>4 DEF Plan, Named, Targets, Actions
<1> QED
  BY <1>1, <1>2, <1>3, <1>4 DEF Named

\* The calls of a plan are to it, or by an action that names nothing; and
\* only a job, or each of several, is followed by another.
ToOf(plan) == IF request.tool = "update" /\ plan = Images THEN None ELSE plan

LEMMA CallsOfAPlan ==
    ASSUME request \in Requests, newer \in BOOLEAN, NEW plan \in Targets,
           request.tool \notin Named => plan \in Actions
    PROVE  /\ CallsOf(plan) \in Seq(CallSet) /\ CallsOf(plan) # <<>>
           /\ \A n \in DOMAIN CallsOf(plan) :
                 /\ CallsOf(plan)[n].to = ToOf(plan)
                 /\ n < Len(CallsOf(plan)) => CallsOf(plan)[n].wait \in {"job", "each"}
<1> DEFINE is(s, to) == /\ s \in Seq(CallSet) /\ s # <<>>
                        /\ \A n \in DOMAIN s : /\ s[n].to = to
                                               /\ n < Len(s) => s[n].wait \in {"job", "each"}
<1>0. /\ "job" \in Waiting /\ "nothing" \in Waiting /\ "service" \in Waiting /\ "machine" \in Waiting
      /\ "scrub" \in Waiting /\ "refusal" \in Waiting /\ "each" \in Waiting
  BY DEF Waiting
<1>01. /\ "stop" \in Methods /\ "start" \in Methods /\ "dismiss" \in Methods /\ "run" \in Methods
       /\ "update" \in Methods /\ "rollback" \in Methods /\ "snapshot" \in Methods
       /\ Actions \subseteq Methods
  BY DEF Methods
<1>1. ASSUME NEW method \in Methods, NEW to \in Targets, NEW wait \in Waiting
      PROVE  is(<<Call(method, to, wait)>>, to)
  BY <1>1 DEF Call, CallSet
<1>2. ASSUME NEW wait \in Waiting
      PROVE  is(<<Call("stop", plan, "job"), Call("start", plan, wait)>>, plan)
  <2>1. Call("stop", plan, "job") \in CallSet /\ Call("start", plan, wait) \in CallSet
    BY <1>0, <1>01, <1>2 DEF Call, CallSet
  <2>2. <<Call("stop", plan, "job"), Call("start", plan, wait)>> \in Seq(CallSet)
    BY <2>1
  <2> QED
    BY <2>2 DEF Call
<1>3. request.tool = "alerts" => is(DismissEach(plan), plan)
  <2> SUFFICES ASSUME request.tool = "alerts" PROVE is(DismissEach(plan), plan)
    OBVIOUS
  <2>1. request.count \in Nat /\ request.count > 0
    BY ToolConstants
  <2>2. Call("dismiss", plan, "each") \in CallSet
    BY <1>0, <1>01 DEF Call, CallSet
  <2>3. DismissEach(plan) \in [1..request.count -> CallSet]
    BY <2>2 DEF DismissEach
  <2>4. DismissEach(plan) \in Seq(CallSet) /\ Len(DismissEach(plan)) = request.count
    BY <2>1, <2>3
  <2>5. \A n \in DOMAIN DismissEach(plan) : DismissEach(plan)[n] = Call("dismiss", plan, "each")
    BY DEF DismissEach
  <2> QED
    BY <2>1, <2>4, <2>5 DEF Call
<1>4. ToOf(plan) \in Targets /\ ToOf(plan) = (IF request.tool = "update" /\ plan = Images THEN None ELSE plan)
  BY DEF ToOf, Targets
<1> HIDE DEF is
<1>5. request.tool = "update" => is(CallsOf(plan), ToOf(plan))
  BY <1>0, <1>01, <1>1, <1>4 DEF CallsOf, Tasks, Machines, UpgradeCall
<1>11. request.tool \in {"rollback", "snapshot"} \cup Tasks => is(CallsOf(plan), plan)
  BY <1>0, <1>01, <1>1 DEF CallsOf, Tasks, Machines, RunTask, RollbackCall
<1>6. request.tool = "service" => is(ServiceCalls(plan), plan)
  BY <1>0, <1>01, <1>1 DEF ServiceCalls, Named
<1>7. request.tool = "scrub" => is(ScrubCalls(plan), plan)
  BY <1>0, <1>01, <1>1 DEF ScrubCalls, Named
<1>8. request.tool = "app" => is(AppCalls(plan), plan)
  BY <1>0, <1>01, <1>1, <1>2 DEF AppCalls, Named
<1>9. request.tool \in Machines => is(MachineCalls(plan), plan)
  BY <1>0, <1>01, <1>1, <1>2 DEF MachineCalls, Named, Machines
<1>10. is(CallsOf(plan), ToOf(plan))
  <2>1. request.tool \in Tools
    BY ToolConstants
  <2>2. request.tool # "update" => is(CallsOf(plan), plan)
    BY <1>3, <1>11, <1>6, <1>7, <1>8, <1>9, <2>1 DEF CallsOf, Tools, Named, Tasks, Machines
  <2> QED
    BY <1>4, <1>5, <2>2
<1> QED
  BY <1>10 DEF is
-----------------------------------------------------------------------------
(* The NAS, and the calls to come. *)

\* What is known of the NAS is in fields that only others change.
LEMMA OtherFieldsChange ==
    ASSUME NEW tool, NEW s, NEW t, Known(tool, s), DOMAIN t = DOMAIN s,
           \A f \in DOMAIN s : f \in {"newest", "minute", "earlier"} => t[f] = s[f]
    PROVE  Known(tool, t)
  BY DEF Known

LEMMA JobsLeaveIt ==
    ASSUME Known(request.tool, nas), NEW j
    PROVE  Known(request.tool, After(j))
<1>1. DOMAIN After(j) = DOMAIN nas
  BY DEF After
<1>2. \A f \in DOMAIN nas : f \in {"newest", "minute", "earlier"} => After(j)[f] = nas[f]
  BY DEF After
<1> QED
  BY <1>1, <1>2, OtherFieldsChange

LEMMA OthersLeaveIt ==
    ASSUME request \in Requests, Known(request.tool, nas), NEW n \in Changed
    PROVE  Known(request.tool, n)
<1>1. CASE request.tool = "update"
  BY <1>1 DEF Changed, Known, Tasks
<1>2. CASE request.tool = "snapshot"
  BY <1>2 DEF Changed, Known, Tasks
<1>3. CASE request.tool = "rollback"
  <2>1. DOMAIN n = DOMAIN nas /\ ("earlier" \in DOMAIN nas => n.earlier = nas.earlier)
    BY <1>3 DEF Changed, Tasks
  <2> QED
    BY <1>3, <2>1 DEF Known
<1>4. CASE request.tool \notin Named
  BY <1>4 DEF Known, Named
<1> QED
  BY <1>1, <1>2, <1>3, <1>4 DEF Named

\* The calls after the first are as all of them were.
LEMMA TheRest ==
    ASSUME todo \in Seq(CallSet), todo # <<>>, NextNeedsThis
    PROVE  /\ Head(todo) \in CallSet
           /\ More => /\ Tail(todo) \in Seq(CallSet) /\ Tail(todo) # <<>>
                      /\ \A n \in DOMAIN Tail(todo) : n + 1 \in DOMAIN todo /\ Tail(todo)[n] = todo[n + 1]
                      /\ \A n \in DOMAIN Tail(todo) : n < Len(Tail(todo)) => Tail(todo)[n].wait \in {"job", "each"}
                      /\ Waits \in {"job", "each"}
<1>1. /\ Head(todo) = todo[1] /\ 1 \in DOMAIN todo /\ Len(todo) \in Nat
      /\ todo[1] \in CallSet
  OBVIOUS
<1>2. ASSUME More
      PROVE  /\ Tail(todo) \in Seq(CallSet) /\ Len(Tail(todo)) = Len(todo) - 1
             /\ \A n \in DOMAIN Tail(todo) : n + 1 \in DOMAIN todo /\ Tail(todo)[n] = todo[n + 1]
  BY <1>1, <1>2 DEF More
<1>3. ASSUME More PROVE Tail(todo) # <<>>
  BY <1>1, <1>2, <1>3 DEF More
<1>4. ASSUME More, NEW n \in DOMAIN Tail(todo), n < Len(Tail(todo))
      PROVE  Tail(todo)[n].wait \in {"job", "each"}
  <2>1. n \in Nat /\ n + 1 \in DOMAIN todo /\ n + 1 < Len(todo)
    BY <1>1, <1>2, <1>4
  <2> QED
    BY <1>2, <1>4, <2>1 DEF NextNeedsThis
<1>5. More => Waits \in {"job", "each"}
  BY <1>1 DEF More, Waits, NextNeedsThis
<1> QED
  BY <1>1, <1>2, <1>3, <1>4, <1>5
-----------------------------------------------------------------------------
(* The jobs: each action keeps JobsInv. *)

LEMMA JobsInit == Init => JobsInv
<1> SUFFICES ASSUME Init PROVE JobsInv
  OBVIOUS
<1>1. Shape
  BY DEF Init, Shape, NoOutcome, OutcomeSet, Outcomes
<1>2. StillKnown
  BY ToolConstants DEF Init, StillKnown
<1>3. TypeOK
  BY ToolConstants DEF Init, TypeOK, Steps, NoOutcome, NoLook
<1> QED
  BY <1>1, <1>2, <1>3 DEF JobsInv, Init, NextNeedsThis, Awaited, NotBegun, AllButNewest, BeforeACall,
     RanIsDone, FailedHas, StartedIs, StartedHas, NoOutcome

\* What an action may say at its end, about the jobs as they are.
IsTrue(o) ==
    /\ o \in OutcomeSet
    /\ \A i \in o.ran : i \in DOMAIN jobs /\ jobs[i].state = "done"
    /\ o.failed # None => o.failed \in DOMAIN jobs /\ jobs[o.failed].state = "failed"
    /\ o.job # None => o.job \in DOMAIN jobs
    /\ o.says = "started" => o.job # None

\* An action that ends leaves the jobs and the calls alone.
LEMMA EndsKeepsJobs ==
    ASSUME JobsInv, NEW o, IsTrue(o), Ends(o), StillKnown',
           UNCHANGED <<asked, jobs, changes, todo, look>>, calls' \in Seq(CallSet)
    PROVE  JobsInv'
<1>1. step' = "over" /\ outcome' = o
  BY DEF Ends
<1> USE <1>1 DEF JobsInv, asked
<1>2. Shape'
  BY DEF Shape, IsTrue
<1>3. TypeOK'
  BY DEF TypeOK, Steps, IsTrue
<1> QED
  BY <1>2, <1>3 DEF NextNeedsThis, Awaited, NotBegun, AllButNewest, BeforeACall,
     RanIsDone, FailedHas, StartedIs, StartedHas, IsTrue

LEMMA SaysIsTrue ==
    ASSUME NEW what \in Outcomes \ {"started"}
    PROVE  IsTrue(Says(what))
<1>1. Says(what) = [says |-> what, ran |-> {}, job |-> None, failed |-> None]
  BY DEF Says, NoOutcome
<1> QED
  BY <1>1 DEF IsTrue, OutcomeSet

LEMMA StillRight == JobsInv => IsTrue(outcome)
  BY DEF JobsInv, IsTrue, Shape, RanIsDone, FailedHas, StartedIs, StartedHas

LEMMA DescribeKeepsJobs ==
    ASSUME JobsInv, NEW readable \in BOOLEAN, Describe(readable)
    PROVE  JobsInv'
<1> USE DEF JobsInv
<1>1. CASE Ends(Says("no card")) /\ UNCHANGED <<card, named, seen>>
  <2>1. IsTrue(Says("no card"))
    BY SaysIsTrue DEF Outcomes
  <2>2. StillKnown'
    BY <1>1 DEF Describe, StillKnown, asked
  <2> QED
    BY <1>1, <2>1, <2>2, EndsKeepsJobs DEF Describe, Shape
<1>2. CASE /\ ~Unsuitable /\ card' = Plan /\ named' = Settled(Plan)
           /\ step' = "card" /\ UNCHANGED outcome
  <2>1. Plan \in Targets /\ (request.tool \in Named => Plan \in Nat \cup {Images})
    BY <1>2, PlanIsATarget DEF Shape
  <2>2. named' \in Nat \cup {None}
    BY <1>2, <2>1, ToolConstants DEF Settled, Shape
  <2>3. StillKnown'
    BY <2>2 DEF Describe, StillKnown, asked
  <2>4. TypeOK'
    BY <1>2 DEF Describe, TypeOK, Steps
  <2> QED
    BY <1>2, <2>3, <2>4 DEF Describe, asked, Shape, NextNeedsThis, Awaited, NotBegun, AllButNewest,
       BeforeACall, RanIsDone, FailedHas, StartedIs, StartedHas
<1> QED
  BY <1>1, <1>2 DEF Describe

LEMMA ApproveKeepsJobs ==
    ASSUME JobsInv, Approve
    PROVE  JobsInv'
<1> USE DEF JobsInv, Approve, asked
<1>1. TypeOK'
  BY DEF TypeOK, Steps
<1> QED
  BY <1>1 DEF StillKnown, Shape, NextNeedsThis, Awaited, NotBegun, AllButNewest, BeforeACall,
     RanIsDone, FailedHas, StartedIs, StartedHas

LEMMA RunKeepsJobs ==
    ASSUME JobsInv, NEW readable \in BOOLEAN, Run(readable)
    PROVE  JobsInv'
<1> USE DEF JobsInv
<1>1. StillKnown'
  BY DEF Run, StillKnown, asked
<1>2. CASE Ends(Says("error")) /\ UNCHANGED <<seen, todo>>
  <2>1. IsTrue(Says("error"))
    BY SaysIsTrue DEF Outcomes
  <2> QED
    BY <1>1, <1>2, <2>1, EndsKeepsJobs DEF Run, Shape
<1>3. CASE ~Unsuitable /\ step' = "call" /\ todo' = CallsOf(Plan) /\ UNCHANGED outcome
  <2>1. Plan \in Targets /\ (request.tool \notin Named => Plan \in Actions)
    BY <1>3, PlanIsATarget DEF Shape
  <2>2. /\ todo' \in Seq(CallSet) /\ todo' # <<>>
        /\ \A n \in DOMAIN todo' : n < Len(todo') => todo'[n].wait \in {"job", "each"}
    BY <1>3, <2>1, CallsOfAPlan DEF Shape
  <2>3. jobs' = <<>>
    BY DEF Run, NotBegun
  <2>4. TypeOK'
    BY <1>3, <2>2 DEF Run, TypeOK, Steps
  <2>5. Shape'
    BY <1>3, <2>2 DEF Run, asked, Shape
  <2> QED
    BY <1>1, <1>3, <2>2, <2>3, <2>4, <2>5 DEF Run, NextNeedsThis, Awaited, NotBegun, AllButNewest,
       BeforeACall, RanIsDone, FailedHas, StartedIs, StartedHas
<1> QED
  BY <1>2, <1>3 DEF Run

\* On with the next call, when every job has succeeded.
LEMMA NextCallKeepsJobs ==
    ASSUME JobsInv, todo # <<>>, More, \A i \in DOMAIN jobs : jobs[i].state = "done",
           step' = "call", todo' = Tail(todo), IsTrue(outcome'), StillKnown',
           UNCHANGED <<asked, jobs, changes, look>>, calls' \in Seq(CallSet)
    PROVE  JobsInv'
<1> USE DEF JobsInv
<1>1. /\ todo' \in Seq(CallSet) /\ todo' # <<>>
      /\ \A n \in DOMAIN todo' : n < Len(todo') => todo'[n].wait \in {"job", "each"}
  BY TheRest DEF Shape
<1>2. Shape'
  BY <1>1 DEF Shape, asked, IsTrue
<1>3. TypeOK'
  BY <1>1 DEF TypeOK, Steps, IsTrue
<1> QED
  BY <1>1, <1>2, <1>3 DEF NextNeedsThis, Awaited, NotBegun, AllButNewest, BeforeACall,
     RanIsDone, FailedHas, StartedIs, StartedHas, IsTrue

LEMMA GoesOnKeepsJobs ==
    ASSUME JobsInv, todo # <<>>, NEW ran \in SUBSET Nat,
           \A i \in ran : i \in DOMAIN jobs /\ jobs[i].state = "done",
           More => \A i \in DOMAIN jobs : jobs[i].state = "done",
           GoesOn(ran), StillKnown', UNCHANGED <<asked, jobs, changes, look>>, calls' \in Seq(CallSet)
    PROVE  JobsInv'
<1> DEFINE o == [outcome EXCEPT !.ran = @ \cup ran]
           d == [outcome EXCEPT !.says = "done", !.ran = @ \cup ran]
<1>1. IsTrue(outcome)
  BY StillRight
<1>2. outcome.ran \cup ran \in SUBSET Nat
  BY <1>1 DEF IsTrue, OutcomeSet
<1>3. /\ o \in OutcomeSet /\ o.ran = outcome.ran \cup ran /\ o.job = outcome.job
      /\ o.failed = outcome.failed /\ o.says = outcome.says
  BY <1>1, <1>2 DEF IsTrue, OutcomeSet
<1>4. /\ d \in OutcomeSet /\ d.ran = outcome.ran \cup ran /\ d.job = outcome.job
      /\ d.failed = outcome.failed /\ d.says = "done"
  BY <1>1, <1>2 DEF IsTrue, OutcomeSet, Outcomes
<1> HIDE DEF o, d
<1>5. IsTrue(o) /\ IsTrue(d)
  BY <1>1, <1>3, <1>4 DEF IsTrue
<1>6. CASE More
  BY <1>5, <1>6, NextCallKeepsJobs DEF GoesOn, o, IsTrue
<1>7. CASE ~More
  BY <1>5, <1>7, EndsKeepsJobs DEF GoesOn, d
<1> QED
  BY <1>6, <1>7

\* A job is begun only once those before it have succeeded.
LEMMA JobBegins ==
    ASSUME JobsInv, step = "call", NEW j \in JobSet, jobs' = Append(jobs, j), Waits \notin {"each", "nothing"},
           step' = "wait", StillKnown', UNCHANGED <<asked, changes, todo, look, outcome>>, calls' \in Seq(CallSet)
    PROVE  JobsInv'
<1> USE DEF JobsInv
<1>1. /\ jobs' \in Seq(JobSet) /\ Len(jobs') = Len(jobs) + 1 /\ Len(jobs) \in Nat
      /\ \A i \in DOMAIN jobs : i \in DOMAIN jobs' /\ jobs'[i] = jobs[i] /\ jobs'[i].state = "done"
      /\ \A i \in DOMAIN jobs' : i < Len(jobs') => i \in DOMAIN jobs
  BY DEF Shape, BeforeACall
<1>2. Shape'
  BY <1>1 DEF Shape, asked
<1>3. TypeOK'
  BY <1>1 DEF TypeOK, Steps
<1>4. AllButNewest'
  BY <1>1 DEF AllButNewest
<1>5. RanIsDone' /\ FailedHas' /\ StartedIs' /\ StartedHas'
  BY <1>1 DEF RanIsDone, FailedHas, StartedIs, StartedHas
<1> QED
  BY <1>2, <1>3, <1>4, <1>5 DEF NextNeedsThis, Awaited, NotBegun, BeforeACall, Waits

LEMMA CallTakenKeepsJobs ==
    ASSUME JobsInv, NEW cameUp \in BOOLEAN, CallTaken(cameUp)
    PROVE  JobsInv'
<1> USE DEF JobsInv
<1>1. /\ step = "call" /\ todo # <<>> /\ Head(todo) \in CallSet
      /\ calls' \in Seq(CallSet)
  BY TheRest DEF CallTaken, TypeOK, Shape
<1>2. \A i \in DOMAIN jobs : jobs[i].state = "done"
  BY <1>1 DEF BeforeACall
<1>3. CASE IsJob
  <2>1. [method |-> Head(todo).method, to |-> Head(todo).to, state |-> "running"] \in JobSet
    BY <1>1 DEF CallSet, JobSet
  <2>2. Waits \notin {"each", "nothing"}
    BY <1>3 DEF IsJob
  <2>3. StillKnown'
    BY <1>3 DEF CallTaken, StillKnown, asked
  <2> QED
    BY <1>1, <1>3, <2>1, <2>2, <2>3, JobBegins DEF CallTaken
<1>4. CASE ~IsJob
  <2>1. DOMAIN nas' = DOMAIN nas
        /\ \A f \in DOMAIN nas : f \in {"newest", "minute", "earlier"} => nas'[f] = nas[f]
    BY <1>4 DEF CallTaken
  <2>2. StillKnown'
    BY <2>1, OtherFieldsChange DEF CallTaken, StillKnown, asked
  <2>3. IsTrue(Says("error")) /\ IsTrue(Says("partly"))
    BY SaysIsTrue DEF Outcomes
  <2> QED
    BY <1>1, <1>2, <1>4, <2>2, <2>3, EndsKeepsJobs, GoesOnKeepsJobs DEF CallTaken
<1> QED
  BY <1>3, <1>4

LEMMA CallRefusedKeepsJobs ==
    ASSUME JobsInv, CallRefused
    PROVE  JobsInv'
<1> USE DEF JobsInv
<1>1. step = "call" /\ todo # <<>> /\ calls' \in Seq(CallSet)
  BY DEF CallRefused, TypeOK, Shape
<1>2. \A i \in DOMAIN jobs : jobs[i].state = "done"
  BY <1>1 DEF BeforeACall
<1>3. StillKnown'
  BY DEF CallRefused, StillKnown, asked
<1>4. IsTrue(outcome) /\ IsTrue(Says("error")) /\ IsTrue(Says("partly"))
  BY StillRight, SaysIsTrue DEF Outcomes
<1>5. CASE Waits = "each" /\ More
  BY <1>1, <1>2, <1>3, <1>4, <1>5, NextCallKeepsJobs DEF CallRefused, IsTrue
<1>6. CASE ~(Waits = "each" /\ More)
  <2>1. \E what \in {"error", "partly"} : Ends(Says(what)) /\ UNCHANGED todo
    BY <1>6 DEF CallRefused
  <2> QED
    BY <1>1, <1>3, <1>4, <2>1, EndsKeepsJobs DEF CallRefused
<1> QED
  BY <1>5, <1>6

\* While one is waited for, it is the newest job, and the others succeeded.
LEMMA WaitedFor ==
    ASSUME JobsInv, step \in {"wait", "look"}
    PROVE  /\ todo # <<>> /\ job \in DOMAIN jobs /\ job \in Nat
           /\ jobs[job] \in JobSet /\ jobs[job].state \in {"running", "done", "failed"}
           /\ Waits \in Waiting \ {"each", "nothing"}
           /\ jobs[job].state = "done" => \A i \in DOMAIN jobs : jobs[i].state = "done"
           /\ IsTrue([outcome EXCEPT !.says = "started", !.job = job])
           /\ jobs[job].state = "failed" => IsTrue([Says("error") EXCEPT !.failed = job])
<1> USE DEF JobsInv
<1>1. todo # <<>> /\ jobs # <<>> /\ jobs \in Seq(JobSet)
  BY DEF TypeOK, Shape
<1>2. job \in DOMAIN jobs /\ job \in Nat /\ jobs[job] \in JobSet
  BY <1>1 DEF job
<1>3. jobs[job].state \in {"running", "done", "failed"}
  BY <1>2 DEF JobSet
<1>4. Waits \in Waiting \ {"each", "nothing"}
  <2>1. Head(todo) \in CallSet
    BY <1>1, TheRest DEF Shape
  <2> QED
    BY <2>1 DEF CallSet, Waits, Awaited
<1>5. jobs[job].state = "done" => \A i \in DOMAIN jobs : jobs[i].state = "done"
  <2> SUFFICES ASSUME jobs[job].state = "done", NEW i \in DOMAIN jobs PROVE jobs[i].state = "done"
    OBVIOUS
  <2>1. i = Len(jobs) \/ i < Len(jobs)
    BY <1>1
  <2> QED
    BY <2>1 DEF AllButNewest, job
<1>6. IsTrue([outcome EXCEPT !.says = "started", !.job = job])
  <2> DEFINE o == [outcome EXCEPT !.says = "started", !.job = job]
  <2>1. IsTrue(outcome)
    BY StillRight
  <2>2. /\ o \in OutcomeSet /\ o.ran = outcome.ran /\ o.job = job
        /\ o.failed = outcome.failed /\ o.says = "started"
    BY <1>2, <2>1 DEF IsTrue, OutcomeSet, Outcomes
  <2> HIDE DEF o
  <2>3. job # None
    BY <1>2, ToolConstants
  <2>4. IsTrue(o)
    BY <1>2, <2>1, <2>2, <2>3 DEF IsTrue
  <2> QED
    BY <2>4 DEF o
<1>7. jobs[job].state = "failed" => IsTrue([Says("error") EXCEPT !.failed = job])
  <2>1. [Says("error") EXCEPT !.failed = job] = [says |-> "error", ran |-> {}, job |-> None, failed |-> job]
    <3>1. Says("error") = [says |-> "error", ran |-> {}, job |-> None, failed |-> None]
      BY DEF Says, NoOutcome
    <3> QED
      BY <3>1
  <2> QED
    BY <1>2, <2>1 DEF IsTrue, OutcomeSet, Outcomes
<1> QED
  BY <1>1, <1>2, <1>3, <1>4, <1>5, <1>6, <1>7

LEMMA WaitEndsKeepsJobs ==
    ASSUME JobsInv, NEW cameUp \in BOOLEAN, WaitEnds(cameUp)
    PROVE  JobsInv'
<1> USE DEF JobsInv
<1>1. step = "wait" /\ calls' \in Seq(CallSet)
  BY DEF WaitEnds, Shape
<1>2. StillKnown'
  BY DEF WaitEnds, StillKnown, asked
<1>3. IsTrue(Says("error"))
  BY SaysIsTrue DEF Outcomes
<1>4. CASE JobFailed
  <2>1. [Says("error") EXCEPT !.failed = None] = Says("error")
    <3>1. Says("error") = [says |-> "error", ran |-> {}, job |-> None, failed |-> None]
      BY DEF Says, NoOutcome
    <3> QED
      BY <3>1
  <2>2. \E n \in {job, None} : Ends([Says("error") EXCEPT !.failed = n]) /\ UNCHANGED todo
    BY <1>4 DEF WaitEnds
  <2>3. IsTrue([Says("error") EXCEPT !.failed = job])
    BY <1>1, <1>4, WaitedFor DEF JobFailed
  <2> QED
    BY <1>1, <1>2, <1>3, <2>1, <2>2, <2>3, EndsKeepsJobs DEF WaitEnds
<1>5. CASE ~JobFailed
  <2>1. jobs[job].state = "done" /\ job \in Nat /\ job \in DOMAIN jobs /\ todo # <<>>
    BY <1>1, <1>5, WaitedFor DEF JobFailed, WaitEnds
  <2>2. \A i \in DOMAIN jobs : jobs[i].state = "done"
    BY <1>1, <2>1, WaitedFor
  <2>3. CASE GoesOn(SeenThrough)
    <3>1. SeenThrough \in SUBSET Nat /\ \A i \in SeenThrough : i \in DOMAIN jobs
      BY <2>1 DEF SeenThrough
    <3> QED
      BY <1>1, <1>2, <2>1, <2>2, <2>3, <3>1, GoesOnKeepsJobs DEF WaitEnds
  <2>4. CASE Ends(Says("error")) /\ UNCHANGED todo
    BY <1>1, <1>2, <1>3, <2>4, EndsKeepsJobs DEF WaitEnds
  <2>5. CASE LeftRunning /\ UNCHANGED todo
    <3>1. IsTrue([outcome EXCEPT !.says = "started", !.job = job])
      BY <1>1, WaitedFor
    <3> QED
      BY <1>1, <1>2, <2>5, <3>1, EndsKeepsJobs DEF WaitEnds, LeftRunning
  <2> QED
    BY <1>5, <2>3, <2>4, <2>5 DEF WaitEnds
<1> QED
  BY <1>4, <1>5

LEMMA WaitRunsOutKeepsJobs ==
    ASSUME JobsInv, WaitRunsOut
    PROVE  JobsInv'
<1> USE DEF JobsInv
<1>1. step = "wait" /\ calls' \in Seq(CallSet)
  BY DEF WaitRunsOut, Shape
<1>2. StillKnown'
  BY DEF WaitRunsOut, StillKnown, asked
<1>3. IsTrue(Says("error")) /\ IsTrue([outcome EXCEPT !.says = "started", !.job = job])
  BY <1>1, SaysIsTrue, WaitedFor DEF Outcomes
<1>4. Waits \in {"job", "refusal", "machine", "service"} /\ todo # <<>>
  BY <1>1, WaitedFor DEF WaitRunsOut, WaitIsBounded, Waiting
<1>5. CASE Waits = "machine"
  <2>1. ~More
    BY <1>4, <1>5, TheRest DEF Shape
  <2>2. GoesOn({})
    BY <1>5 DEF WaitRunsOut
  <2> QED
    BY <1>1, <1>2, <1>4, <2>1, <2>2, GoesOnKeepsJobs DEF WaitRunsOut
<1>6. CASE Waits # "machine"
  <2>1. (Ends(Says("error")) \/ LeftRunning) /\ UNCHANGED todo
    BY <1>4, <1>6 DEF WaitRunsOut, MustEnd
  <2> QED
    BY <1>1, <1>2, <1>3, <2>1, EndsKeepsJobs DEF WaitRunsOut, LeftRunning
<1> QED
  BY <1>5, <1>6

\* Between the looks for a scrub nothing but the step changes.
LEMMA LooksKeepJobs ==
    ASSUME JobsInv, step \in {"wait", "look"}, step' \in {"wait", "look"}, look'.taken \in 0..Checks,
           UNCHANGED <<asked, nas, jobs, changes, card, named, todo, calls, refused, outcome>>
    PROVE  JobsInv'
<1> USE DEF JobsInv, asked
<1>1. TypeOK'
  BY DEF TypeOK, Steps
<1> QED
  BY <1>1 DEF StillKnown, Shape, NextNeedsThis, Awaited, NotBegun, AllButNewest, BeforeACall,
     RanIsDone, FailedHas, StartedIs, StartedHas

LEMMA LookAtPoolKeepsJobs ==
    ASSUME JobsInv, NEW readable \in BOOLEAN, LookAtPool(readable)
    PROVE  JobsInv'
<1> USE DEF JobsInv
<1>1. step = "wait" /\ calls' \in Seq(CallSet) /\ UNCHANGED todo
  BY DEF LookAtPool, Shape
<1>2. StillKnown'
  BY DEF LookAtPool, StillKnown, asked
<1>3. IsTrue(Says("error")) /\ IsTrue([outcome EXCEPT !.says = "started", !.job = job])
  BY <1>1, SaysIsTrue, WaitedFor DEF Outcomes
<1>4. CASE (LeftRunning \/ ScrubDeclined) /\ UNCHANGED look
  BY <1>1, <1>2, <1>3, <1>4, EndsKeepsJobs DEF LookAtPool, LeftRunning, ScrubDeclined
<1>5. CASE /\ look.taken # Checks /\ step' = "look" /\ UNCHANGED outcome
           /\ look' = [taken |-> look.taken + 1, scan |-> IF readable THEN nas.scan ELSE NoScan]
  <2>1. look'.taken \in 0..Checks
    BY <1>5, ToolConstants DEF TypeOK
  <2> QED
    BY <1>1, <1>5, <2>1, LooksKeepJobs DEF LookAtPool
<1> QED
  BY <1>4, <1>5 DEF LookAtPool

LEMMA LookAtJobKeepsJobs ==
    ASSUME JobsInv, NEW readable \in BOOLEAN, LookAtJob(readable)
    PROVE  JobsInv'
<1> USE DEF JobsInv
<1>1. step = "look" /\ calls' \in Seq(CallSet) /\ UNCHANGED <<todo, look>>
  BY DEF LookAtJob, Shape
<1>2. StillKnown'
  BY DEF LookAtJob, StillKnown, asked
<1>3. IsTrue(Says("error")) /\ IsTrue([outcome EXCEPT !.says = "started", !.job = job])
  BY <1>1, SaysIsTrue, WaitedFor DEF Outcomes
<1>4. jobs[job].state \in {"running", "done", "failed"}
  BY <1>1, WaitedFor
<1>5. CASE step' = "wait" /\ UNCHANGED outcome
  BY <1>1, <1>5, LooksKeepJobs DEF LookAtJob, TypeOK
<1>6. CASE Ends([Says("error") EXCEPT !.failed = job]) /\ jobs[job].state = "failed"
  <2>1. IsTrue([Says("error") EXCEPT !.failed = job])
    BY <1>1, <1>6, WaitedFor
  <2> QED
    BY <1>1, <1>2, <1>6, <2>1, EndsKeepsJobs DEF LookAtJob
<1>7. CASE LeftRunning \/ ScrubDeclined
  BY <1>1, <1>2, <1>3, <1>7, EndsKeepsJobs DEF LookAtJob, LeftRunning, ScrubDeclined
<1> QED
  BY <1>4, <1>5, <1>6, <1>7 DEF LookAtJob

LEMMA ScrubBeginsKeepsJobs ==
    ASSUME JobsInv, NEW j, ScrubBegins(j)
    PROVE  JobsInv'
<1> USE DEF JobsInv, ScrubBegins, asked
<1>1. StillKnown'
  BY DEF StillKnown, Known
<1>2. TypeOK'
  BY DEF TypeOK
<1> QED
  BY <1>1, <1>2 DEF Shape, NextNeedsThis, Awaited, NotBegun, AllButNewest, BeforeACall,
     RanIsDone, FailedHas, StartedIs, StartedHas

\* What has succeeded, or failed, stays so.
LEMMA JobEndsKeepsJobs ==
    ASSUME JobsInv, NEW j, NEW ok \in BOOLEAN, JobEnds(j, ok)
    PROVE  JobsInv'
<1> USE DEF JobsInv
<1>1. j \in DOMAIN jobs /\ jobs[j].state = "running" /\ jobs \in Seq(JobSet)
  BY DEF JobEnds, Shape
<1>2. PICK s \in {"done", "failed"} : jobs' = [jobs EXCEPT ![j].state = s]
  BY DEF JobEnds
<1>3. jobs[j] \in JobSet
  BY <1>1
<1>4. [jobs[j] EXCEPT !.state = s] \in JobSet
  BY <1>3 DEF JobSet
<1>5. jobs' \in Seq(JobSet) /\ DOMAIN jobs' = DOMAIN jobs /\ Len(jobs') = Len(jobs)
  BY <1>1, <1>2, <1>4
<1>6. \A i \in DOMAIN jobs : i # j => jobs'[i] = jobs[i]
  BY <1>1, <1>2
<1>7. StillKnown'
  BY JobsLeaveIt DEF JobEnds, StillKnown, asked
<1>8. Shape' /\ TypeOK' /\ NextNeedsThis' /\ Awaited'
  BY <1>1, <1>5 DEF JobEnds, asked, Shape, TypeOK, NextNeedsThis, Awaited
<1>9. NotBegun' /\ AllButNewest' /\ BeforeACall'
  BY <1>1, <1>5, <1>6 DEF JobEnds, NotBegun, AllButNewest, BeforeACall
<1>10. RanIsDone' /\ FailedHas' /\ StartedIs' /\ StartedHas'
  BY <1>1, <1>5, <1>6 DEF JobEnds, RanIsDone, FailedHas, StartedIs, StartedHas
<1> QED
  BY <1>7, <1>8, <1>9, <1>10

LEMMA OthersKeepJobs ==
    ASSUME JobsInv, OthersChange
    PROVE  JobsInv'
<1> USE DEF JobsInv, OthersChange, asked
<1>1. StillKnown'
  BY OthersLeaveIt DEF StillKnown, Shape
<1>2. TypeOK'
  BY ToolConstants DEF TypeOK
<1> QED
  BY <1>1, <1>2 DEF Shape, NextNeedsThis, Awaited, NotBegun, AllButNewest, BeforeACall,
     RanIsDone, FailedHas, StartedIs, StartedHas
-----------------------------------------------------------------------------
LEMMA JobsNext == JobsInv /\ [Next]_vars => JobsInv'
<1> SUFFICES ASSUME JobsInv, [Next]_vars PROVE JobsInv'
  OBVIOUS
<1>1. ASSUME NEW readable \in BOOLEAN, Describe(readable) PROVE JobsInv'
  BY <1>1, DescribeKeepsJobs
<1>2. CASE Approve
  BY <1>2, ApproveKeepsJobs
<1>3. ASSUME NEW readable \in BOOLEAN, Run(readable) \/ LookAtPool(readable) \/ LookAtJob(readable)
      PROVE  JobsInv'
  BY <1>3, RunKeepsJobs, LookAtPoolKeepsJobs, LookAtJobKeepsJobs
<1>4. ASSUME NEW cameUp \in BOOLEAN, CallTaken(cameUp) \/ WaitEnds(cameUp)
      PROVE  JobsInv'
  BY <1>4, CallTakenKeepsJobs, WaitEndsKeepsJobs
<1>5. CASE CallRefused \/ WaitRunsOut
  BY <1>5, CallRefusedKeepsJobs, WaitRunsOutKeepsJobs
<1>6. ASSUME NEW j \in DOMAIN jobs, ScrubBegins(j) \/ \E ok \in BOOLEAN : JobEnds(j, ok)
      PROVE  JobsInv'
  BY <1>6, ScrubBeginsKeepsJobs, JobEndsKeepsJobs
<1>7. CASE OthersChange
  BY <1>7, OthersKeepJobs
<1>8. CASE UNCHANGED vars
  BY <1>8 DEF vars, asked, JobsInv, StillKnown, Shape, TypeOK, NextNeedsThis, Awaited, NotBegun, AllButNewest,
     BeforeACall, RanIsDone, FailedHas, StartedIs, StartedHas
<1> QED
  BY <1>1, <1>2, <1>3, <1>4, <1>5, <1>6, <1>7, <1>8 DEF Next, ActionStep

\* An action's jobs run one after another, whatever TrueNAS makes of each and
\* whatever others do, and what it says of them is so.
THEOREM JobsAreAsSaidHolds == Spec => []JobsAreAsSaid
<1>1. JobsInv => JobsAreAsSaid
  <2> SUFFICES ASSUME JobsInv PROVE JobsAreAsSaid
    OBVIOUS
  <2>1. StopEndsFirst
    <3>1. ASSUME NEW i \in DOMAIN jobs, NEW j \in DOMAIN jobs, i < j
          PROVE  jobs[i].state = "done"
      <4>1. jobs \in Seq(JobSet)
        BY DEF JobsInv, Shape
      <4>2. i < Len(jobs)
        BY <3>1, <4>1
      <4> QED
        BY <4>2 DEF JobsInv, AllButNewest
    <3> QED
      BY <3>1 DEF StopEndsFirst
  <2>2. SaysWhatHappened
    BY DEF JobsInv, RanIsDone, FailedHas, StartedHas, SaysWhatHappened
  <2> QED
    BY <2>1, <2>2 DEF JobsInv, JobsAreAsSaid
<1> QED
  BY <1>1, JobsInit, JobsNext, PTL DEF Spec
-----------------------------------------------------------------------------
(* The names: from the card to the calls. *)

LEMMA NamesInit == Init => NamesInv
  BY JobsInit DEF Init, NamesInv, ToCard

\* Of the NAS, the jobs and how a wait goes, the names see nothing.
LEMMA NamesUnseen ==
    ASSUME NamesInv, JobsInv', UNCHANGED <<request, card, seen, calls>>,
           todo' = todo \/ (todo # <<>> /\ More /\ todo' = Tail(todo)),
           step' \notin {"describe", "card", "run"}
    PROVE  NamesInv'
<1> SUFFICES ASSUME request.tool \in Named, ToCard(todo), ToCard(calls) PROVE ToCard(todo)' /\ ToCard(calls)'
  BY DEF NamesInv
<1>1. \A to : AsOnCard(to) => AsOnCard(to)'
  BY DEF AsOnCard, AppChanged
<1>2. CASE todo' = todo
  BY <1>1, <1>2 DEF ToCard
<1>3. CASE todo # <<>> /\ More /\ todo' = Tail(todo)
  <2>1. \A n \in DOMAIN Tail(todo) : n + 1 \in DOMAIN todo /\ Tail(todo)[n] = todo[n + 1]
    BY <1>3, TheRest DEF NamesInv, JobsInv, Shape
  <2> QED
    BY <1>1, <1>3, <2>1 DEF ToCard
<1> QED
  BY <1>2, <1>3

\* And before the run, only that a custom app stays one.
LEMMA NamesStand ==
    ASSUME NamesInv, JobsInv', UNCHANGED <<request, card, seen, calls, todo, named>>,
           step' = step \/ (step = "card" /\ step' = "run"),
           request.tool = "update" => nas' = nas \/ (nas.custom => nas'.custom)
    PROVE  NamesInv'
<1>1. \A to : AsOnCard(to) => AsOnCard(to)'
  BY DEF AsOnCard, AppChanged
<1>2. request.tool \in Named => ToCard(todo)' /\ ToCard(calls)'
  BY <1>1 DEF NamesInv, ToCard
<1>3. CardOfImages => CardOfImages'
  BY DEF CardOfImages, VersionFor
<1> QED
  BY <1>2, <1>3 DEF NamesInv

LEMMA DescribeNames ==
    ASSUME NamesInv, JobsInv', NEW readable \in BOOLEAN, Describe(readable)
    PROVE  NamesInv'
<1>0. todo' = <<>> /\ calls' = <<>> /\ request' = request /\ nas' = nas /\ step' # "describe"
      /\ DOMAIN seen' = {"card", "run"}
  BY DEF Describe, Sees, Ends, asked, NamesInv, JobsInv, NotBegun
<1> SUFFICES ASSUME request.tool \in Named, step' \in {"card", "run"}
             PROVE  /\ card' # Images => named' = card' /\ named' # None
                    /\ card' = Images => CardOfImages'
  BY <1>0 DEF NamesInv, ToCard
<1>1. ~Unsuitable /\ card' = Plan /\ named' = Settled(Plan) /\ seen'["card"] = nas /\ named = request.named
  BY DEF Describe, Ends, Sees, NamesInv
<1>2. Plan \in Nat \cup {Images}
  BY <1>1, PlanIsATarget DEF NamesInv, JobsInv, Shape
<1>3. ASSUME card' # Images PROVE named' = card' /\ named' # None
  BY <1>1, <1>2, <1>3, ToolConstants DEF Settled
<1>4. ASSUME card' = Images PROVE CardOfImages'
  <2>1. named' = named /\ Plan = Images
    BY <1>1, <1>4 DEF Settled
  <2>2. request.tool = "update"
    <3>1. request.tool # "rollback"
      <4> SUFFICES ASSUME request.tool = "rollback" PROVE FALSE
        OBVIOUS
      <4>1. /\ nas.earlier \in SUBSET Nat /\ nas.earlier # {}
            /\ \E v \in nas.earlier : \A w \in nas.earlier : w =< v
        BY <1>1 DEF NamesInv, JobsInv, StillKnown, Known, Unsuitable, CantRollBack, Tasks
      <4>2. Newest(nas.earlier) \in Nat
        BY <4>1, NewestOfThem
      <4>3. Plan \in Nat
        BY <4>2 DEF Plan, RollbackTo, NamesInv, JobsInv, StillKnown
      <4> QED
        BY <2>1, <4>3, ToolConstants
    <3>2. request.tool # "snapshot"
      BY <2>1, ToolConstants DEF Plan, SnapshotName, NamesInv, JobsInv, StillKnown, Known
    <3> QED
      BY <3>1, <3>2 DEF Named
  <2>3. Plan = UpdateTo
    BY <2>2 DEF Plan
  <2>4. nas.newest \in Nat /\ named \in Nat \cup {None}
    BY <2>2 DEF NamesInv, JobsInv, StillKnown, Known
  <2>5. nas.custom \/ (IF named = None THEN nas.newest ELSE named) = nas.version
    BY <2>1, <2>3, <2>4, ToolConstants DEF UpdateTo
  <2> QED
    BY <1>0, <1>1, <2>1, <2>2, <2>5 DEF CardOfImages, VersionFor
<1> QED
  BY <1>3, <1>4

\* What a card names, Run plans, whatever is newest or what time it is by
\* then; or an update with no version, of an app that has that one or takes
\* none.  From a card of images it comes to a version only if the app, or what
\* is new for it, has changed.
LEMMA PlansAsOnCard ==
    ASSUME NamesInv, step = "run", request.tool \in Named, ~Unsuitable,
           seen' = [seen EXCEPT !["run"] = nas], UNCHANGED <<request, card>>,
           NEW to, to = ToOf(Plan)
    PROVE  AsOnCard(to)'
<1>1. seen'["run"] = nas /\ seen'["card"] = seen.card /\ request' = request /\ card' = card
  BY DEF NamesInv
<1>2. request.tool = "update" => Plan = UpdateTo
  BY DEF Plan
<1>3. CASE card # Images
  <2>1. named = card /\ named # None
    BY <1>3 DEF NamesInv
  <2>2. CASE request.tool = "update"
    <3>1. Plan = Images => nas.custom \/ nas.version = card
      BY <1>2, <1>3, <2>1, <2>2 DEF UpdateTo
    <3>2. Plan = Images \/ Plan = card
      BY <1>2, <2>1, <2>2 DEF UpdateTo
    <3> QED
      BY <1>1, <1>3, <2>2, <3>1, <3>2 DEF AsOnCard, ToOf
  <2>3. CASE request.tool # "update"
    <3>1. Plan = card
      BY <2>1, <2>3 DEF Plan, Named, RollbackTo, SnapshotName
    <3> QED
      BY <1>1, <2>3, <3>1 DEF AsOnCard, ToOf
  <2> QED
    BY <2>2, <2>3
<1>4. CASE card = Images
  <2>1. CardOfImages
    BY <1>4 DEF NamesInv
  <2>2. CASE Plan = Images
    BY <1>1, <1>4, <2>1, <2>2 DEF AsOnCard, ToOf, CardOfImages
  <2>3. CASE Plan # Images
    <3>1. ~nas.custom /\ VersionFor(nas) # nas.version
      BY <1>2, <2>1, <2>3 DEF UpdateTo, CardOfImages, VersionFor
    <3>2. VersionFor(seen.card) = seen.card.version
      BY <2>1, <3>1 DEF CardOfImages
    <3>3. nas.version # seen.card.version \/ nas.newest # seen.card.newest
      BY <3>1, <3>2 DEF VersionFor
    <3>4. AppChanged'
      BY <1>1, <3>3 DEF AppChanged
    <3> QED
      BY <1>1, <1>4, <2>1, <3>4 DEF AsOnCard, CardOfImages
  <2> QED
    BY <2>2, <2>3
<1> QED
  BY <1>3, <1>4

LEMMA RunNames ==
    ASSUME NamesInv, JobsInv', NEW readable \in BOOLEAN, Run(readable)
    PROVE  NamesInv'
<1>0. request' = request /\ card' = card /\ calls' = calls /\ step' \notin {"describe", "card", "run"}
      /\ DOMAIN seen' = {"card", "run"} /\ step = "run"
  BY DEF Run, Ends, Sees, asked, NamesInv
<1> SUFFICES ASSUME request.tool \in Named PROVE ToCard(todo)' /\ ToCard(calls)'
  BY <1>0 DEF NamesInv
<1>1. ToCard(calls)'
  BY <1>0 DEF ToCard, NamesInv, JobsInv, NotBegun
<1>2. CASE UNCHANGED <<seen, todo>>
  BY <1>0, <1>1, <1>2 DEF ToCard, NamesInv, JobsInv, NotBegun
<1>3. CASE ~Unsuitable /\ todo' = CallsOf(Plan) /\ Sees("run")
  <2>4. PICK to : to = ToOf(Plan)
    OBVIOUS
  <2>1. AsOnCard(to)'
    BY <1>0, <1>3, <2>4, PlansAsOnCard DEF Sees
  <2>2. Plan \in Targets /\ request.tool \in Named
    BY <1>3, PlanIsATarget DEF NamesInv, JobsInv, Shape
  <2>3. \A n \in DOMAIN CallsOf(Plan) : CallsOf(Plan)[n].to = ToOf(Plan)
    BY <2>2, CallsOfAPlan DEF NamesInv, JobsInv, Shape
  <2>5. \A n \in DOMAIN todo' : todo'[n].to = to
    BY <1>3, <2>3, <2>4
  <2> QED
    BY <1>1, <2>1, <2>5 DEF ToCard
<1> QED
  BY <1>2, <1>3 DEF Run

LEMMA CallTakenNames ==
    ASSUME NamesInv, JobsInv', NEW cameUp \in BOOLEAN, CallTaken(cameUp)
    PROVE  NamesInv'
<1>1. /\ step = "call" /\ todo # <<>> /\ todo \in Seq(CallSet) /\ calls \in Seq(CallSet)
      /\ Head(todo) \in CallSet /\ calls' = Append(calls, Head(todo))
  BY TheRest DEF CallTaken, NamesInv, JobsInv, TypeOK, Shape
<1>2. UNCHANGED <<request, card, seen>> /\ step' \notin {"describe", "card", "run"}
  BY DEF CallTaken, asked, GoesOn, Ends
<1>3. todo' = todo \/ (More /\ todo' = Tail(todo))
  BY DEF CallTaken, GoesOn, Ends
<1> SUFFICES ASSUME request.tool \in Named, ToCard(todo), ToCard(calls)
             PROVE  ToCard(todo)' /\ ToCard(calls)'
  BY <1>2 DEF NamesInv
<1>6. \A to : AsOnCard(to) => AsOnCard(to)'
  BY <1>2 DEF AsOnCard, AppChanged
<1>4. ToCard(calls)'
  <2>1. 1 \in DOMAIN todo /\ Head(todo) = todo[1]
    BY <1>1
  <2>2. AsOnCard(Head(todo).to)
    BY <2>1 DEF ToCard
  <2>3. \A n \in DOMAIN calls' : (n \in DOMAIN calls /\ calls'[n] = calls[n]) \/ calls'[n] = Head(todo)
    BY <1>1
  <2> QED
    BY <1>6, <2>2, <2>3 DEF ToCard
<1>5. ToCard(todo)'
  <2>1. More => \A n \in DOMAIN Tail(todo) : n + 1 \in DOMAIN todo /\ Tail(todo)[n] = todo[n + 1]
    BY <1>1, TheRest DEF NamesInv, JobsInv
  <2> QED
    BY <1>3, <1>6, <2>1 DEF ToCard
<1> QED
  BY <1>4, <1>5

LEMMA NamesNext == NamesInv /\ [Next]_vars => NamesInv'
<1> SUFFICES ASSUME NamesInv, [Next]_vars PROVE NamesInv'
  OBVIOUS
<1>1. JobsInv'
  BY JobsNext DEF NamesInv
<1>2. step \in {"call", "wait", "look"} => todo # <<>>
  BY DEF NamesInv, JobsInv, TypeOK
<1>3. ASSUME NEW readable \in BOOLEAN, Describe(readable) PROVE NamesInv'
  BY <1>1, <1>3, DescribeNames
<1>4. CASE Approve
  <2>1. UNCHANGED <<request, card, seen, calls, todo, nas, named>> /\ step = "card" /\ step' = "run"
    BY <1>4 DEF Approve, asked
  <2> QED
    BY <1>1, <2>1, NamesStand
<1>5. ASSUME NEW readable \in BOOLEAN, Run(readable) PROVE NamesInv'
  BY <1>1, <1>5, RunNames
<1>6. ASSUME NEW readable \in BOOLEAN, LookAtPool(readable) \/ LookAtJob(readable) PROVE NamesInv'
  <2>1. /\ step' \in {"wait", "look", "over"}
        /\ UNCHANGED <<request, card, seen, calls, todo>>
    <3>1. CASE LookAtPool(readable)
      BY <3>1 DEF LookAtPool, Ends, LeftRunning, ScrubDeclined, asked
    <3>2. CASE LookAtJob(readable)
      <4>1. jobs[job].state \in {"running", "done", "failed"}
        BY <3>2, WaitedFor DEF LookAtJob, NamesInv
      <4> QED
        BY <3>2, <4>1 DEF LookAtJob, Ends, LeftRunning, ScrubDeclined, asked
    <3> QED
      BY <1>6, <3>1, <3>2
  <2> QED
    BY <1>1, <2>1, NamesUnseen
<1>7. ASSUME NEW cameUp \in BOOLEAN, CallTaken(cameUp) PROVE NamesInv'
  BY <1>1, <1>7, CallTakenNames
<1>8. ASSUME NEW cameUp \in BOOLEAN, WaitEnds(cameUp) PROVE NamesInv'
  <2>1. /\ step' \in {"call", "over"} /\ UNCHANGED <<request, card, seen, calls>>
        /\ todo' = todo \/ (More /\ todo' = Tail(todo))
    BY <1>8 DEF WaitEnds, GoesOn, Ends, LeftRunning, asked
  <2> QED
    BY <1>1, <1>2, <1>8, <2>1, NamesUnseen DEF WaitEnds
<1>9. CASE WaitRunsOut
  <2>1. Waits \in {"job", "refusal", "machine", "service"}
    BY <1>9, WaitedFor DEF WaitRunsOut, WaitIsBounded, Waiting, NamesInv
  <2>2. /\ step' \in {"call", "over"} /\ UNCHANGED <<request, card, seen, calls>>
        /\ todo' = todo \/ (More /\ todo' = Tail(todo))
    BY <1>9, <2>1 DEF WaitRunsOut, GoesOn, Ends, LeftRunning, asked
  <2> QED
    BY <1>1, <1>2, <1>9, <2>2, NamesUnseen DEF WaitRunsOut
<1>10. CASE CallRefused
  <2>1. /\ step' \in {"call", "over"} /\ UNCHANGED <<request, card, seen, calls>>
        /\ todo' = todo \/ (More /\ todo' = Tail(todo))
    BY <1>10 DEF CallRefused, Ends, asked
  <2> QED
    BY <1>1, <1>2, <1>10, <2>1, NamesUnseen DEF CallRefused
<1>11. CASE \/ \E j \in DOMAIN jobs : ScrubBegins(j) \/ (\E ok \in BOOLEAN : JobEnds(j, ok))
            \/ OthersChange \/ UNCHANGED vars
  <2>1. UNCHANGED <<request, card, seen, calls, todo, step, named>>
    BY <1>11 DEF ScrubBegins, JobEnds, OthersChange, asked, vars
  <2>2. request.tool = "update" => nas' = nas \/ (nas.custom => nas'.custom)
    <3>1. CASE \E j \in DOMAIN jobs : ScrubBegins(j) \/ (\E ok \in BOOLEAN : JobEnds(j, ok))
      <4>1. ASSUME NEW j, ScrubBegins(j) PROVE request.tool # "update"
        BY <4>1 DEF ScrubBegins
      <4>2. ASSUME NEW j, request.tool = "update" PROVE After(j)["custom"] = nas["custom"]
        <5>1. "custom" \in DOMAIN nas /\ "version" \in DOMAIN nas
          BY <4>2 DEF NamesInv, JobsInv, StillKnown, Known
        <5>2. CASE jobs[j].to # None
          BY <4>2, <5>1, <5>2 DEF After
        <5>3. CASE jobs[j].to = None
          BY <4>2, <5>1, <5>3 DEF After
        <5> QED
          BY <5>2, <5>3
      <4>3. ASSUME NEW j, NEW ok \in BOOLEAN, JobEnds(j, ok) PROVE nas' = nas \/ nas' = After(j)
        BY <4>3 DEF JobEnds
      <4> QED
        BY <3>1, <4>1, <4>2, <4>3
    <3>2. CASE OthersChange
      BY <3>2 DEF OthersChange, Changed, Tasks, NamesInv, JobsInv, StillKnown, Known
    <3>3. CASE UNCHANGED vars
      BY <3>3 DEF vars
    <3> QED
      BY <1>11, <3>1, <3>2, <3>3
  <2> QED
    BY <1>1, <2>1, <2>2, NamesStand
<1> QED
  BY <1>3, <1>4, <1>5, <1>6, <1>7, <1>8, <1>9, <1>10, <1>11 DEF Next, ActionStep

\* "what runs is what the card said": the version or the name a card gave is
\* the one TrueNAS is asked for, whatever is new and however late by then, but
\* for an update of what someone else has changed since, as the property says.
THEOREM NamedAsOnCardHolds == Spec => []NamedAsOnCard
<1>1. NamesInv => NamedAsOnCard
  BY DEF NamesInv, NamedAsOnCard, ToCard
<1> QED
  BY <1>1, NamesInit, NamesNext, PTL DEF Spec
=============================================================================
