------------------------------- MODULE ToolRun -------------------------------
(***************************************************************************)
(* One action of the assistant's (internal/tools): its card, written from  *)
(* what the NAS shows; the user's approval, some time later; and its run,  *)
(* which plans again from what the NAS shows by then and makes its calls   *)
(* one after another.  Meanwhile whoever else uses the NAS changes it.     *)
(* What it acts on is one record, of which each tool reads its own fields. *)
(***************************************************************************)
EXTENDS Naturals, Sequences

CONSTANTS
    Requests,   \* what the model asks for: tool, action, and what else it names
    Subjects,   \* per request, what the NAS may have of it
    MaxChanges, \* bound on what others change
    Checks,     \* how often a scrub is looked for (5)
    Images,     \* what an update is to when it's of an app's images alone
    None

Machines == {"vm", "container"}
Tasks == {"replication", "cloud_sync", "rsync"}
Named == {"update", "rollback", "snapshot"}
Tools == Machines \cup Tasks \cup Named \cup {"alerts", "scrub", "app", "service"}

\* A version, or a snapshot's name, is a number, and a list of versions has
\* a newest.
Known(tool, s) ==
    CASE tool = "update"   -> {"newest", "version", "custom"} \subseteq DOMAIN s /\ s.newest \in Nat
      [] tool = "snapshot" -> "minute" \in DOMAIN s /\ s.minute \in Nat
      [] tool = "rollback" ->
            /\ "earlier" \in DOMAIN s /\ s.earlier \subseteq Nat
            /\ s.earlier # {} => \E v \in s.earlier : \A w \in s.earlier : w =< v
      [] OTHER -> TRUE

ASSUME ToolConstants ==
    /\ MaxChanges \in Nat /\ Checks \in Nat \ {0}
    /\ None \notin Nat /\ Images \notin Nat
    /\ \A r \in Requests :
          /\ r.tool \in Tools /\ r.named \in Nat \cup {None}
          /\ r.tool = "alerts" => r.count \in Nat \ {0}
          /\ \A s \in Subjects[r.tool] : Known(r.tool, s)

VARIABLES
    request, later, \* what was asked, and whether it's booked for later
    newer,          \* whether the NAS has 26's methods
    nas, jobs,      \* TrueNAS: what the action is about, and its jobs by id
    changes,        \* what others have changed
    step,           \* where the action has got to
    card,           \* what the card said it would do
    named,          \* the version or name Run gets, None to choose again
    seen,           \* history: an app, or a dataset, as the card and then Run found it
    todo,           \* the calls still to make
    calls,          \* history: the calls made
    refused,        \* alerts TrueNAS refused to dismiss
    look,           \* for a scrub: looks taken, and the scan the last one saw
    outcome

asked == <<request, later, newer>>
vars == <<asked, nas, jobs, changes, step, card, named, seen, todo, calls, refused, look, outcome>>

NoOutcome == [says |-> "nothing", ran |-> {}, job |-> None, failed |-> None]
NoScan == [state |-> "none", function |-> "none", job |-> None, recent |-> FALSE]
NoLook == [taken |-> 0, scan |-> NoScan]

Init ==
    /\ request \in Requests /\ later \in BOOLEAN /\ newer \in BOOLEAN
    /\ request.tool = "container" => newer
    /\ nas \in Subjects[request.tool]
    /\ jobs = <<>> /\ changes = 0 /\ step = "describe" /\ card = None /\ named = request.named
    /\ seen = [card |-> None, run |-> None]
    /\ todo = <<>> /\ calls = <<>> /\ refused = 0 /\ look = NoLook /\ outcome = NoOutcome
-----------------------------------------------------------------------------
(***************************************************************************)
(* Planning: the function each tool calls planned (chosen, for alerts).    *)
(***************************************************************************)
Scanning == nas.scan.state = "scanning"
Scrubbing == Scanning /\ nas.scan.function = "SCRUB"

\* What being in that state already refuses, unless it's to be booked.
ScanAlready == IF request.action = "cancel" THEN ~Scrubbing ELSE Scanning
TaskAlready == nas.busy
AppAlready ==
    IF request.action = "start" THEN nas.state \in {"RUNNING", "DEPLOYING"} ELSE nas.state = "STOPPED"
MachineAlready == (request.action = "start") = (nas.state = "RUNNING")
ServiceAlready ==
    \/ request.action = "start" /\ nas.state = "RUNNING"
    \/ request.action = "stop" /\ nas.state = "STOPPED"
InStateAlready ==
    CASE request.tool = "scrub"   -> ScanAlready
      [] request.tool \in Tasks    -> TaskAlready
      [] request.tool = "app"     -> AppAlready
      [] request.tool \in Machines -> MachineAlready
      [] request.tool = "service" -> ServiceAlready
      [] OTHER -> FALSE

\* What names an alert that isn't active, a snapshot there is, a task that
\* can't run, or a version there isn't, is refused whenever it's to run.
AlertGone == ~(request.alerts \subseteq nas.active)
SnapshotName == IF named = None THEN nas.minute ELSE named
NameTaken == SnapshotName \in nas.names
TaskCantRun == nas.locked \/ (request.tool = "replication" /\ ~nas.enabled)
NothingToUpdate == nas.state = "STOPPED" \/ (nas.newest = nas.version /\ ~nas.images)
CantRollBack ==
    nas.state = "STOPPED" \/ nas.earlier = {} \/ (named # None /\ named \notin nas.earlier)
Unsuitable ==
    CASE request.tool = "alerts"   -> AlertGone
      [] request.tool = "snapshot" -> NameTaken
      [] request.tool \in Tasks     -> TaskCantRun
      [] request.tool = "update"   -> NothingToUpdate
      [] request.tool = "rollback" -> CantRollBack
      [] OTHER -> FALSE

\* An update is to a version, or of an app's images alone: then TrueNAS has
\* no other version for it, or its compose file names them.
UpdateTo == IF nas.custom THEN Images
            ELSE LET to == IF named = None THEN nas.newest ELSE named IN
                 IF to = nas.version THEN Images ELSE to

\* newestVersion, of versions that are compared part by part.
Newest(versions) == CHOOSE v \in versions : \A w \in versions : w =< v
RollbackTo == IF named = None THEN Newest(nas.earlier) ELSE named

\* What is named when the model, or the card, left it open.
Plan ==
    CASE request.tool = "update"   -> UpdateTo
      [] request.tool = "rollback" -> RollbackTo
      [] request.tool = "snapshot" -> SnapshotName
      [] OTHER -> request.action

\* What Run gets in place of the model's arguments: the card's Args.
NotSettled(plan) == request.named
Settled(plan) ==
    IF request.tool \in Named /\ plan # Images THEN plan ELSE request.named

\* A call, and how its job is waited for.
Call(method, to, wait) == [method |-> method, to |-> to, wait |-> wait]
DismissEach(plan) == [n \in 1..request.count |-> Call("dismiss", plan, "each")]
\* Before 26 a scrub's job fails at once when it's refused.
ScrubCalls(plan) ==
    <<Call(plan, plan, CASE plan = "cancel" -> "job" [] plan # "cancel" /\ newer -> "scrub" [] OTHER -> "refusal")>>
RunTask(plan) == <<Call("run", plan, "job")>>
AppCalls(plan) ==
    IF plan = "restart" THEN <<Call("stop", plan, "job"), Call("start", plan, "job")>> ELSE <<Call(plan, plan, "job")>>
\* A VM restarts by a job of its own, and a container by a stop and a start.
MachineCalls(plan) ==
    CASE plan = "start" -> <<Call("start", plan, "machine")>>
      [] plan = "restart" /\ request.tool = "container" -> <<Call("stop", plan, "job"), Call("start", plan, "machine")>>
      [] OTHER -> <<Call(plan, plan, "job")>>
ServiceCalls(plan) == <<Call(plan, plan, "service")>>
\* With the app's name alone it is for TrueNAS to say which version.
UpgradeCall(plan) == <<Call("update", IF plan = Images THEN None ELSE plan, "job")>>
RollbackCall(plan) == <<Call("rollback", plan, "job")>>
CallsOf(plan) ==
    CASE request.tool = "alerts"   -> DismissEach(plan)
      [] request.tool = "snapshot" -> <<Call("snapshot", plan, "nothing")>>
      [] request.tool = "scrub"    -> ScrubCalls(plan)
      [] request.tool \in Tasks     -> RunTask(plan)
      [] request.tool = "app"      -> AppCalls(plan)
      [] request.tool \in Machines  -> MachineCalls(plan)
      [] request.tool = "service"  -> ServiceCalls(plan)
      [] request.tool = "update"   -> UpgradeCall(plan)
      [] request.tool = "rollback" -> RollbackCall(plan)
-----------------------------------------------------------------------------
(***************************************************************************)
(* The action.                                                             *)
(***************************************************************************)
Ends(o) == step' = "over" /\ outcome' = o
Says(what) == [NoOutcome EXCEPT !.says = what]

Sees(at) == seen' = IF request.tool \in Named THEN [seen EXCEPT ![at] = nas] ELSE seen

\* Describe; the model is told why when there's no card.
Describe(readable) ==
    /\ step = "describe"
    /\ IF ~readable \/ Unsuitable \/ (InStateAlready /\ ~later)
       THEN Ends(Says("no card")) /\ UNCHANGED <<card, named, seen>>
       ELSE /\ card' = Plan /\ named' = Settled(Plan) /\ Sees("card")
            /\ step' = "card" /\ UNCHANGED outcome
    /\ UNCHANGED <<asked, nas, jobs, changes, todo, calls, refused, look>>

Approve ==
    /\ step = "card" /\ step' = "run"
    /\ UNCHANGED <<asked, nas, jobs, changes, card, named, seen, todo, calls, refused, look, outcome>>

\* Run plans again, and nothing is for later any more.
Run(readable) ==
    /\ step = "run"
    /\ IF ~readable \/ Unsuitable \/ InStateAlready
       THEN Ends(Says("error")) /\ UNCHANGED <<seen, todo>>
       ELSE step' = "call" /\ todo' = CallsOf(Plan) /\ Sees("run") /\ UNCHANGED outcome
    /\ UNCHANGED <<asked, nas, jobs, changes, card, named, calls, refused, look>>

job == Len(jobs)
Waits == Head(todo).wait
More == Len(todo) > 1

\* On with the next call, or done.  Ran is what the action saw through.
GoesOn(ran) ==
    IF More
    THEN step' = "call" /\ todo' = Tail(todo) /\ outcome' = [outcome EXCEPT !.ran = @ \cup ran]
    ELSE /\ Ends([outcome EXCEPT !.says = "done", !.ran = @ \cup ran])
         /\ UNCHANGED todo

\* A call TrueNAS takes: a snapshot, or an alert's dismissal, is then done;
\* starting a VM is no job, nor is a service before 25.10, which says
\* whether it came up.
IsJob == Waits \in {"job", "scrub", "refusal"} \/ (Waits \in {"machine", "service"} /\ newer)
CallTaken(cameUp) ==
    /\ step = "call"
    /\ calls' = Append(calls, Head(todo))
    /\ IF IsJob
       THEN /\ jobs' = Append(jobs, [method |-> Head(todo).method, to |-> Head(todo).to, state |-> "running"])
            /\ step' = "wait"
            /\ UNCHANGED <<nas, todo, outcome>>
       ELSE /\ nas' = CASE Waits = "nothing" -> [nas EXCEPT !.names = @ \cup {Head(todo).to}]
                        [] Waits \in {"machine", "service"} ->
                              [nas EXCEPT !.state = IF Head(todo).method = "stop" THEN "STOPPED"
                                                    ELSE IF cameUp THEN "RUNNING" ELSE @]
                        [] OTHER -> nas
            /\ IF Waits = "service" /\ ~cameUp /\ Head(todo).method # "stop"
               THEN Ends(Says("error")) /\ UNCHANGED todo
               ELSE IF refused > 0 /\ ~More
               THEN Ends(Says("partly")) /\ UNCHANGED todo
               ELSE GoesOn({})
            /\ UNCHANGED jobs
    /\ UNCHANGED <<asked, changes, card, named, seen, refused, look>>

\* A call TrueNAS refuses, or that fails.  The alerts after it are still
\* dismissed; a restart that stopped says so and starts nothing.
CallRefused ==
    /\ step = "call"
    /\ IF Waits = "each"
       THEN /\ refused' = refused + 1
            /\ IF More THEN step' = "call" /\ todo' = Tail(todo) /\ UNCHANGED outcome
               ELSE /\ Ends(Says(IF refused' = request.count THEN "error" ELSE "partly"))
                    /\ UNCHANGED todo
       ELSE Ends(Says("error")) /\ UNCHANGED <<refused, todo>>
    /\ UNCHANGED <<asked, nas, jobs, changes, card, named, seen, calls, look>>

\* What is only started is left to the feed, by its job.
LeftRunning == Ends([outcome EXCEPT !.says = "started", !.job = job])

\* runJob, startMachine and controlService, once the job has ended.  A
\* failed job is named, for its entry in the feed, except a machine's; a
\* service may not come up though its job succeeds.
SeenThrough == IF Waits = "machine" THEN {} ELSE {job}
JobFailed == jobs[job].state = "failed"
WaitEnds(cameUp) ==
    /\ step = "wait" /\ Waits # "scrub" /\ jobs[job].state # "running"
    /\ IF JobFailed
       THEN /\ Ends([Says("error") EXCEPT !.failed = IF Waits = "machine" THEN None ELSE job])
            /\ UNCHANGED todo
       ELSE IF Waits = "service" /\ ~cameUp /\ Head(todo).method # "stop"
       THEN Ends(Says("error")) /\ UNCHANGED todo
       ELSE IF Waits = "refusal" THEN LeftRunning /\ UNCHANGED todo
       ELSE GoesOn(SeenThrough)
    /\ UNCHANGED <<asked, nas, jobs, changes, card, named, seen, calls, refused, look>>

\* The wait runs out, or the job can't be read.  The job is left to the
\* feed; what had to end before the next call is an error, and so is a
\* service that takes long.  A machine is taken to have started.
NeedNotEnd == FALSE
MustEnd == More
OnlyServices == Waits = "service"
WaitIsBounded == Waits # "scrub"
WaitRunsOut ==
    /\ step = "wait" /\ WaitIsBounded
    /\ CASE Waits = "machine" -> GoesOn({})
         [] Waits = "service" -> Ends(Says("error")) /\ UNCHANGED todo
         [] Waits \in {"job", "refusal"} ->
               IF MustEnd THEN Ends(Says("error")) /\ UNCHANGED todo
               ELSE IF More THEN GoesOn({})
               ELSE LeftRunning /\ UNCHANGED todo
    /\ UNCHANGED <<asked, nas, jobs, changes, card, named, seen, calls, refused, look>>
-----------------------------------------------------------------------------
(***************************************************************************)
(* startScrub on 26: the job of a scrub that TrueNAS declines succeeds, so *)
(* the pool is looked at, and then the job, a few times.                   *)
(***************************************************************************)
ScrubDeclined == Ends(Says("error"))

LookAtPool(readable) ==
    /\ step = "wait" /\ Waits = "scrub"
    /\ IF look.taken = Checks
       THEN (IF jobs[job].state = "running" /\ readable THEN LeftRunning ELSE ScrubDeclined) /\ UNCHANGED look
       ELSE IF readable /\ Scanning
       THEN LeftRunning /\ UNCHANGED look
       ELSE /\ step' = "look" /\ UNCHANGED outcome
            /\ look' = [taken |-> look.taken + 1, scan |-> IF readable THEN nas.scan ELSE NoScan]
    /\ UNCHANGED <<asked, nas, jobs, changes, card, named, seen, todo, calls, refused>>

\* A scrub that ended after the call, or up to 5 s before it.
EndedSince(scan) == scan.state = "finished" /\ scan.function = "SCRUB" /\ scan.recent
LookAtJob(readable) ==
    /\ step = "look"
    /\ CASE ~readable \/ jobs[job].state = "running" -> step' = "wait" /\ UNCHANGED outcome
         [] readable /\ jobs[job].state = "failed" -> Ends([Says("error") EXCEPT !.failed = job])
         [] readable /\ jobs[job].state = "done" ->
               IF EndedSince(look.scan) THEN LeftRunning ELSE ScrubDeclined
    /\ UNCHANGED <<asked, nas, jobs, changes, card, named, seen, todo, calls, refused, look>>
-----------------------------------------------------------------------------
(***************************************************************************)
(* TrueNAS, and the others who use it.                                     *)
(***************************************************************************)
ScanOf(j) == [state |-> "scanning", function |-> "SCRUB", job |-> j, recent |-> FALSE]

\* A scrub's job goes on as long as its scan.
ScrubBegins(j) ==
    /\ j \in DOMAIN jobs /\ jobs[j].state = "running" /\ request.tool = "scrub" /\ jobs[j].method = "start"
    /\ ~Scanning /\ nas.scan.job # j
    /\ nas' = [nas EXCEPT !.scan = ScanOf(j)]
    /\ UNCHANGED <<asked, jobs, changes, step, card, named, seen, todo, calls, refused, look, outcome>>

After(j) ==
    LET m == jobs[j].method IN
    CASE request.tool \in {"app", "vm", "container", "service"} ->
            [nas EXCEPT !.state = IF m = "stop" THEN "STOPPED" ELSE "RUNNING"]
      [] request.tool = "update" ->
            IF jobs[j].to # None THEN [nas EXCEPT !.version = jobs[j].to]
            ELSE [nas EXCEPT !.images = FALSE, !.version = IF nas.custom THEN @ ELSE nas.newest]
      [] request.tool = "rollback" -> [nas EXCEPT !.version = jobs[j].to]
      [] request.tool = "scrub" /\ nas.scan.job = j -> [nas EXCEPT !.scan.state = "finished", !.scan.recent = TRUE]
      [] request.tool = "scrub" /\ m = "cancel" -> [nas EXCEPT !.scan.state = "cancelled"]
      [] OTHER -> nas

JobEnds(j, ok) ==
    /\ j \in DOMAIN jobs /\ jobs[j].state = "running"
    /\ jobs' = [jobs EXCEPT ![j].state = IF ok THEN "done" ELSE "failed"]
    /\ nas' = IF ok THEN After(j) ELSE nas
    /\ UNCHANGED <<asked, changes, step, card, named, seen, todo, calls, refused, look, outcome>>

\* Someone else turns it on or off, dismisses an alert, takes a snapshot,
\* updates the app or makes it a custom one, starts a scan; a new version is out, a minute passes.
Changed ==
    CASE request.tool \in {"app", "vm", "container", "service"} ->
            {[nas EXCEPT !.state = s] : s \in {"RUNNING", "STOPPED"}}
      [] request.tool = "alerts" -> {[nas EXCEPT !.active = @ \ {a}] : a \in nas.active}
      [] request.tool = "snapshot" ->
            {[nas EXCEPT !.minute = @ + 1], [nas EXCEPT !.names = @ \cup {nas.minute}]}
      [] request.tool \in Tasks ->
            {[nas EXCEPT !.busy = ~@], [nas EXCEPT !.locked = ~@], [nas EXCEPT !.enabled = ~@]}
      [] request.tool = "scrub" ->
            IF Scanning THEN {[nas EXCEPT !.scan.state = "finished", !.scan.recent = r] : r \in {calls # <<>>, TRUE}}
            ELSE {[nas EXCEPT !.scan = [NoScan EXCEPT !.state = "scanning", !.function = f]] :
                     f \in {"SCRUB", "RESILVER"}}
      [] request.tool \in {"update", "rollback"} ->
            {[nas EXCEPT !.newest = @ + 1], [nas EXCEPT !.images = TRUE], [nas EXCEPT !.state = "STOPPED"],
             [nas EXCEPT !.version = nas.newest], [nas EXCEPT !.custom = TRUE]}

OthersChange ==
    /\ changes < MaxChanges /\ changes' = changes + 1
    /\ nas' \in Changed
    /\ UNCHANGED <<asked, jobs, step, card, named, seen, todo, calls, refused, look, outcome>>
-----------------------------------------------------------------------------
ActionStep ==
    \/ \E readable \in BOOLEAN : Run(readable) \/ LookAtPool(readable) \/ LookAtJob(readable)
    \/ \E cameUp \in BOOLEAN : CallTaken(cameUp) \/ WaitEnds(cameUp)
    \/ CallRefused \/ WaitRunsOut

Next ==
    \/ \E readable \in BOOLEAN : Describe(readable)
    \/ Approve \/ ActionStep
    \/ \E j \in DOMAIN jobs : ScrubBegins(j) \/ (\E ok \in BOOLEAN : JobEnds(j, ok))
    \/ OthersChange

\* The goroutine that runs it goes on; every wait is bounded.
Spec == Init /\ [][Next]_vars /\ WF_vars(ActionStep)
-----------------------------------------------------------------------------
Steps == {"describe", "card", "run", "call", "wait", "look", "over"}
TypeOK ==
    /\ step \in Steps /\ changes \in 0..MaxChanges
    /\ step \in {"call", "wait", "look"} => todo # <<>>
    /\ step \in {"wait", "look"} => jobs # <<>>
    /\ outcome.ran \subseteq DOMAIN jobs
    /\ {outcome.job, outcome.failed} \subseteq DOMAIN jobs \cup {None}
    /\ look.taken \in 0..Checks

\* "the defaults Describe settled on, such as a snapshot's name or an update's
\* version, so what runs is what the card said" (registry.go:69-71): TrueNAS is
\* asked for the name or the version the card gave, whatever is new or the time
\* by then.  An update has two ways out of it.  Where someone else has put the
\* app at the card's version, or made it a custom one, TrueNAS is given the
\* app's name alone and picks the version (actions.go:1004); and a card of
\* images alone may come to a version, but only if the app or what is new for
\* it isn't as the card found it.
AppChanged == seen.run.version # seen.card.version \/ seen.run.newest # seen.card.newest
AsOnCard(to) ==
    \/ to = card
    \/ request.tool = "update" /\ to = None /\ (seen.run.custom \/ seen.run.version = card)
    \/ request.tool = "update" /\ card = Images /\ (to = None \/ AppChanged)
NamedAsOnCard == request.tool \in Named => \A n \in DOMAIN calls : AsOnCard(calls[n].to)

\* "The stop has to finish before the start": what is restarted isn't
\* started under a stop that still runs, which would then leave it off.
StopEndsFirst ==
    \A i, j \in DOMAIN jobs :
        (i < j /\ jobs[i].method = "stop" /\ jobs[j].method = "start") => jobs[i].state = "done"

\* What the action says it saw through has succeeded, and what it says is
\* only started is a job to follow.
SaysWhatHappened ==
    /\ outcome.says = "done" => \A j \in outcome.ran : jobs[j].state = "done"
    /\ outcome.says = "error" /\ outcome.failed # None => jobs[outcome.failed].state = "failed"
    /\ outcome.says = "started" => outcome.job # None

\* An approved action ends: whatever TrueNAS does, no wait is for ever.
ActionEnds == (step = "run") ~> (step = "over")

\* An action's jobs run one after another, and what it says of them is so
\* (actionhelpers.go:109-144, actions.go:872-886).
JobsAreAsSaid == TypeOK /\ StopEndsFirst /\ SaysWhatHappened
=============================================================================
