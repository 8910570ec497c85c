----------------------------- MODULE UpdateRule -----------------------------
(***************************************************************************)
(* One run of an update rule (internal/schedule/rules.go): the apps in its *)
(* scope that have updates are updated one at a time, and one that isn't   *)
(* running on its new version afterwards is rolled back.                   *)
(*                                                                         *)
(* Around the run are TrueNAS, whose jobs go on whether or not the rule    *)
(* still waits for them; the apps, which start and crash at any time; the  *)
(* rule's row in the jobs table, which the app may pause, resume or        *)
(* delete; and the helper, which may be told to stop.  Each call to        *)
(* TrueNAS is one step, and may fail.                                      *)
(*                                                                         *)
(* An app's version is "old", the one it was listed with, or "new".  Time  *)
(* in settle is counted in polls: a slow call takes two.                   *)
(***************************************************************************)
EXTENDS Naturals

CONSTANTS
    Apps,       \* in the rule's scope
    NotSeen,    \* settle hasn't seen the app
    RunningFor, \* polls an updated app gets to be running again (5 min)
    Settle      \* polls it has to stay running to count (30 s)

ASSUME ConstantsAssumption ==
    /\ NotSeen \notin [version: {"old", "new"}, running: BOOLEAN]
    /\ RunningFor \in Nat
    /\ Settle \in Nat \ {0}

VARIABLES
    nas,      \* the apps as TrueNAS has them
    work,     \* TrueNAS's jobs under way
    result,   \* how the last of them ended
    row,      \* the rule's row in the jobs table
    stopping, \* the run's context has ended
    pc, app,  \* where the run is, and with which app
    todo,     \* the apps it has yet to take up
    left,     \* and those it won't
    unchecked, \* apps TrueNAS couldn't say about
    sight, clock, since, \* settle's state, version and runningSince
    outcome,  \* what it did to each app
    status,   \* how the run ended
    said,     \* what its note in the feed speaks of
    \* history, for the properties
    wasPaused, \* the rule was paused when the run began
    listed,   \* the apps it set out to update
    begun,    \* those whose update it asked for
    after     \* those it asked for since the rule was paused or removed

nasVars  == <<nas, work, result>>
settling == <<sight, clock, since>>
ending   == <<status, said>>
history  == <<wasPaused, listed, begun, after>>
world    == <<nasVars, row, stopping>>
vars     == <<world, pc, app, todo, left, unchecked, settling, outcome, ending, history>>

View == [version: {"old", "new"}, running: BOOLEAN]
Job(a, kind) == [app |-> a, kind |-> kind]
AllJobs == [app: Apps, kind: {"upgrade", "rollback"}]
MaxClock == RunningFor + 2
Never == MaxClock + 1  \* runningSince when zero

Bad == {"unsent", "slow", "unknown", "not updated", "rolled back", "stuck"}
Outcome == Bad \cup {"none", "updated"}

Results == {a \in Apps : outcome[a] # "none"}
Init ==
    /\ nas \in [Apps -> {v \in View : v.version = "old"}]
    /\ work = {} /\ result = "none"
    /\ row \in {"booked", "paused"} \* Run Now runs a paused rule
    /\ stopping = FALSE
    /\ pc = "pools" /\ app \in Apps
    /\ todo = {} /\ left = {} /\ unchecked = {}
    /\ sight = NotSeen /\ clock = 0 /\ since = Never
    /\ outcome = [a \in Apps |-> "none"]
    /\ status = "running" /\ said = {}
    /\ wasPaused = (row = "paused")
    /\ listed = {} /\ begun = {} /\ after = {}
-----------------------------------------------------------------------------
(***************************************************************************)
(* Around the run.                                                         *)
(***************************************************************************)
run == <<pc, app, todo, left, unchecked, settling, outcome, ending>>

\* Containers come up, crash and are restarted.
AppTurns(a) ==
    /\ nas' = [nas EXCEPT ![a].running = ~@]
    /\ UNCHANGED <<work, result, row, stopping, run, history>>

\* A job of TrueNAS switches the version, and ends.  One that failed may have
\* switched it all the same.
Target(job) == IF job.kind = "upgrade" THEN "new" ELSE "old"

JobSwitches(job) ==
    /\ job \in work
    /\ nas' = [nas EXCEPT ![job.app].version = Target(job)]
    /\ UNCHANGED <<work, result, row, stopping, run, history>>

JobEnds(job, ended, version) ==
    /\ job \in work
    /\ ended = "ok" => version = Target(job)
    /\ work' = work \ {job}
    /\ nas' = [nas EXCEPT ![job.app].version = version]
    /\ result' = IF job.app = app THEN ended ELSE result
    /\ UNCHANGED <<row, stopping, run, history>>

\* The app pauses, resumes or deletes the rule.
RowChanges(to) ==
    /\ row # "removed" /\ to # row
    /\ row' = to
    /\ after' = {}
    /\ UNCHANGED <<nasVars, stopping, run, wasPaused, listed, begun>>

Stop ==
    /\ ~stopping
    /\ stopping' = TRUE
    /\ UNCHANGED <<nasVars, row, run, history>>

Around ==
    \/ \E a \in Apps : AppTurns(a)
    \/ \E job \in work : JobSwitches(job)
    \/ \E job \in work, ended \in {"ok", "failed"}, version \in {"old", "new"} :
          JobEnds(job, ended, version)
    \/ \E to \in {"booked", "paused", "removed"} : RowChanges(to)
    \/ Stop
-----------------------------------------------------------------------------
(***************************************************************************)
(* The run's ends: skipped with nothing done, stopped partway, or summed   *)
(* up.  All but a stop are recorded by Store.Finish (Schedule).            *)
(***************************************************************************)
End(how, about) ==
    /\ pc' = "end" /\ status' = how /\ said' = about
    /\ UNCHANGED <<app, todo, left, unchecked, settling, outcome>>

\* The helper is stopping: what's done is said, and the run is left to show
\* as interrupted.
Stopped == stopping /\ End("stopped", Results)

\* The pools are asked about once, before anything else.
CheckPools ==
    /\ pc = "pools"
    /\ \/ Stopped
       \/ ~stopping /\ End("skipped", {})  \* one isn't healthy, or TrueNAS couldn't say
       \/ /\ ~stopping
          /\ pc' = "catalog"
          /\ UNCHANGED <<app, todo, left, unchecked, settling, outcome, ending>>
    /\ UNCHANGED <<world, history>>

\* refreshCatalog: the run goes on however the job went.
RefreshCatalog ==
    /\ pc = "catalog"
    /\ pc' = "list"
    /\ UNCHANGED <<world, app, todo, left, unchecked, settling, outcome, ending, history>>

\* updatable: catalog apps in scope, running, with an update; some of them
\* TrueNAS may fail to say about.
List(found, unsure) ==
    /\ pc = "list"
    /\ \/ Stopped /\ UNCHANGED history
       \/ ~stopping /\ End("skipped", {}) /\ UNCHANGED history
       \/ /\ ~stopping
          /\ found \cup unsure = {}
          /\ End("done", {})  \* a quiet run
          /\ UNCHANGED history
       \/ /\ ~stopping
          /\ found \cup unsure # {} /\ found \cap unsure = {}
          /\ \A a \in found \cup unsure : nas[a].running
          /\ todo' = found /\ unchecked' = unsure
          /\ listed' = found
          /\ pc' = "next"
          /\ UNCHANGED <<app, left, settling, outcome, ending, wasPaused, begun, after>>
    /\ UNCHANGED world

\* Paused or removed since the run began.  Mutant: only removed counts.
OnlyRemoved == row = "removed"
OffNow == OnlyRemoved \/ (row = "paused" /\ ~wasPaused)

\* The loop's head.  Once the context has ended the row can't be read, and
\* the run goes on to the call that will find out.
NextApp ==
    /\ pc = "next"
    /\ \/ /\ todo = {}
          /\ pc' = "conclude"
          /\ UNCHANGED <<app, left>>
       \/ /\ todo # {} /\ ~stopping /\ OffNow
          /\ left' = todo
          /\ pc' = "conclude"
          /\ UNCHANGED app
       \/ /\ todo # {}
          /\ stopping \/ ~OffNow
          /\ app' \in todo
          /\ pc' = "upgrade"
          /\ UNCHANGED left
    /\ UNCHANGED <<world, todo, unchecked, settling, outcome, ending, history>>
-----------------------------------------------------------------------------
(***************************************************************************)
(* updateOne.                                                              *)
(***************************************************************************)
\* result, true: the app is done with, whatever came of it.
Settled(what) ==
    /\ outcome' = [outcome EXCEPT ![app] = what]
    /\ todo' = todo \ {app}
    /\ pc' = "after"
    /\ UNCHANGED <<app, left, unchecked, ending>>

\* runJob's call, unless the context has ended.  It may not get through.
Asks(kind) ==
    /\ ~stopping
    /\ \/ work' = work \cup {Job(app, kind)} /\ result' = "going"
       \/ work' = work /\ result' = "none"
    /\ pc' = IF kind = "upgrade" THEN "asked" ELSE "askedback"
    /\ UNCHANGED <<nas, row, stopping, app, todo, left, unchecked, settling, outcome, ending>>

\* The call's answer is a job's id; without it, whether the job began isn't
\* known.
Answered(next) ==
    /\ result # "none"
    /\ pc' = next
    /\ UNCHANGED <<app, todo, left, unchecked, settling, outcome, ending>>

AskUpgrade ==
    /\ pc = "upgrade"
    /\ \/ Stopped /\ UNCHANGED <<world, history>>
       \/ /\ Asks("upgrade")
          /\ begun' = begun \cup {app}
          /\ after' = IF row = "booked" THEN {} ELSE after \cup {app}
          /\ UNCHANGED <<wasPaused, listed>>

UpgradeAnswered ==
    /\ pc = "asked"
    /\ \/ Stopped
       \/ ~stopping /\ Settled("unsent") /\ UNCHANGED settling
       \/ ~stopping /\ Answered("wait")
    /\ UNCHANGED <<world, history>>

\* WaitJob: the job ended, or TrueNAS no longer lists it; or the wait is
\* over.  Mutants: a job that outlasted the wait is taken for ended; the
\* wait has no end of its own.
EndedOrSlow == TRUE
Ended == result \in {"ok", "failed"}
WaitForever == FALSE
WaitIsOver == TRUE

WaitUpgrade ==
    /\ pc = "wait"
    /\ \/ Stopped
       \/ ~stopping /\ WaitIsOver /\ Settled("slow") /\ UNCHANGED settling
       \/ /\ ~stopping /\ Ended
          /\ pc' = "settle"
          /\ sight' = NotSeen /\ clock' = 0 /\ since' = Never
          /\ UNCHANGED <<app, todo, left, unchecked, outcome, ending>>
    /\ UNCHANGED <<world, history>>

\* What updateOne makes of settle's last sight of the app.
Judged(seen) ==
    \/ seen = NotSeen /\ Settled("unknown")
    \/ seen # NotSeen /\ seen.version = "old" /\ Settled("not updated")
    \/ seen # NotSeen /\ seen.version = "new" /\ seen.running /\ Settled("updated")
    \/ /\ seen # NotSeen /\ seen.version = "new" /\ ~seen.running
       /\ pc' = "rollback"
       /\ UNCHANGED <<app, todo, left, unchecked, outcome, ending>>

\* Mutant: settle without its deadline.
TimeIsUp == clock > RunningFor

SinceWhen(seen) ==
    IF ~seen.running THEN Never ELSE IF since = Never THEN clock ELSE since

Steady(seen) == seen.running /\ clock - SinceWhen(seen) >= Settle

\* The end of a round of settle: it's over, or the poll's wait goes by.
Round(over, seen, took) ==
    \/ over /\ Judged(seen) /\ UNCHANGED clock
    \/ /\ ~over
       /\ clock' = clock + took
       /\ UNCHANGED <<pc, app, todo, left, unchecked, outcome, ending>>

\* A round of settle: a query that shows the app, or fails.
Poll(took) ==
    /\ pc = "settle"
    /\ \/ Stopped
       \/ /\ ~stopping
          /\ sight' = nas[app] /\ since' = SinceWhen(nas[app])
          /\ Round(Steady(nas[app]) \/ TimeIsUp, nas[app], took)
       \/ /\ ~stopping
          /\ UNCHANGED <<sight, since>>
          /\ Round(TimeIsUp, sight, took)
    /\ UNCHANGED <<world, history>>

AskRollback ==
    /\ pc = "rollback"
    /\ \/ Stopped /\ UNCHANGED world
       \/ Asks("rollback")
    /\ UNCHANGED history

RollbackAnswered ==
    /\ pc = "askedback"
    /\ \/ Stopped
       \/ ~stopping /\ Settled("stuck") /\ UNCHANGED settling
       \/ ~stopping /\ Answered("waitback")
    /\ UNCHANGED <<world, history>>

\* jobEnd.ok.  Mutant: a failed rollback counts too.
WentBackSomehow == result \in {"ok", "failed"}
WentBack == result = "ok"

WaitRollback ==
    /\ pc = "waitback"
    /\ \/ Stopped
       \/ ~stopping /\ WentBack /\ Settled("rolled back") /\ UNCHANGED settling
       \/ ~stopping /\ (Ended \/ WaitIsOver) /\ Settled("stuck") /\ UNCHANGED settling
    /\ UNCHANGED <<world, history>>
-----------------------------------------------------------------------------
(***************************************************************************)
(* The rest of the loop, and its end.                                      *)
(***************************************************************************)
AfterApp ==
    /\ pc = "after"
    /\ IF stopping /\ todo # {}
       THEN left' = todo /\ pc' = "conclude"
       ELSE pc' = "next" /\ UNCHANGED left
    /\ UNCHANGED <<world, app, todo, unchecked, settling, outcome, ending, history>>

\* ruleSummary goes by every result.  Mutant: by the last one.
AllWell == unchecked = {} /\ \A a \in Results : outcome[a] \notin Bad

Conclude ==
    /\ pc = "conclude"
    /\ IF Results \cup unchecked = {}
       THEN End("skipped", left)
       ELSE End(IF AllWell THEN "done" ELSE "failed", Results \cup unchecked \cup left)
    /\ UNCHANGED <<world, history>>

Rule ==
    \/ CheckPools \/ RefreshCatalog
    \/ \E found, unsure \in SUBSET Apps : List(found, unsure)
    \/ NextApp
    \/ AskUpgrade \/ UpgradeAnswered \/ WaitUpgrade
    \/ \E took \in 1..2 : Poll(took)
    \/ AskRollback \/ RollbackAnswered \/ WaitRollback
    \/ AfterApp \/ Conclude

Next == Around \/ Rule

Spec == Init /\ [][Next]_vars

\* Calls to TrueNAS time out, and so do the waits for its jobs.
FairSpec == Spec /\ WF_vars(Rule)
-----------------------------------------------------------------------------
TypeOK ==
    /\ nas \in [Apps -> View]
    /\ work \subseteq AllJobs
    /\ result \in {"none", "going", "ok", "failed"}
    /\ stopping \in BOOLEAN /\ wasPaused \in BOOLEAN
    /\ row \in {"booked", "paused", "removed"}
    /\ pc \in {"pools", "catalog", "list", "next", "upgrade", "asked", "wait", "settle",
               "rollback", "askedback", "waitback", "after", "conclude", "end"}
    /\ app \in Apps
    /\ todo \subseteq Apps /\ left \subseteq Apps /\ unchecked \subseteq Apps
    /\ sight \in View \cup {NotSeen}
    /\ clock \in 0..MaxClock /\ since \in 0..Never
    /\ outcome \in [Apps -> Outcome]
    /\ status \in {"running", "skipped", "stopped", "done", "failed"}
    /\ said \subseteq Apps
    /\ listed \subseteq Apps /\ begun \subseteq Apps /\ after \subseteq Apps

(***************************************************************************)
(* "Rolling back under an update still going would make things worse"      *)
(* (rules.go): TrueNAS never has an update and a rollback of an app under  *)
(* way together, whatever the rule was told of either, or not told.        *)
(***************************************************************************)
NoRollbackUnderUpdate ==
    \A a \in Apps : ~({Job(a, "upgrade"), Job(a, "rollback")} \subseteq work)

(***************************************************************************)
(* What the run says of an app still holds: one it says it updated is on   *)
(* its new version, and one it says it rolled back, or that didn't update, *)
(* is on the version it had, with no job going that could change that.     *)
(***************************************************************************)
OutcomesAreTrue ==
    \A a \in Apps :
       /\ outcome[a] = "updated" => nas[a].version = "new"
       /\ outcome[a] \in {"rolled back", "not updated"} => nas[a].version = "old"
       /\ outcome[a] \in {"updated", "rolled back", "not updated"} =>
             \A job \in work : job.app # a

(***************************************************************************)
(* No app is touched in silence.  However the run ends, its note speaks of *)
(* every app it began to update, but for the one it was stopped at; a run  *)
(* that was done says so of apps that are all on their new version, or     *)
(* left for later, and a skipped one began nothing.                        *)
(***************************************************************************)
NothingUnsaid ==
    pc = "end" =>
       /\ begun \ said \subseteq (IF status = "stopped" THEN {app} ELSE {})
       /\ status \in {"done", "failed"} => listed \subseteq said
       /\ status = "done" => \A a \in begun : nas[a].version = "new"
       /\ status = "skipped" => begun = {}

(***************************************************************************)
(* A rule paused or removed since its run began goes no further than the   *)
(* app it was at.                                                          *)
(***************************************************************************)
PauseIsHeeded ==
    row # "booked" /\ ~wasPaused => \A a, b \in after : a = b

(***************************************************************************)
(* A run ends, whatever TrueNAS and the apps do: neither a job that never  *)
(* ends nor an app that never settles holds it up.                         *)
(***************************************************************************)
RunEnds == <>(pc = "end")

(***************************************************************************)
(* What a run says is true, and it says all it did (rules.go:97-120).      *)
(***************************************************************************)
SaysWhatItDid == OutcomesAreTrue /\ NothingUnsaid
=============================================================================
