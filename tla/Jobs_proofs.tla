---------------------------- MODULE Jobs_proofs ----------------------------
(***************************************************************************)
(* Proofs about the jobs of the schedule package, for every value of the   *)
(* constants: an update rule's run (UpdateRule), for any apps and any      *)
(* times to settle, then when a job runs next (When), for any calendar and *)
(* any zones whose clocks change as ZonesAssumption says.                  *)
(***************************************************************************)
EXTENDS UpdateRule, When, WellFoundedInduction, TLAPS

LEMMA TypesInit == Init => TypeOK
<1> SUFFICES ASSUME Init PROVE TypeOK
  OBVIOUS
<1> USE ConstantsAssumption DEF Init, View, AllJobs, MaxClock, Never, Outcome, Bad
<1>1. nas \in [Apps -> View]
  OBVIOUS
<1>2. outcome \in [Apps -> Outcome]
  OBVIOUS
<1>3. clock \in 0..MaxClock /\ since \in 0..Never
  OBVIOUS
<1> QED  BY <1>1, <1>2, <1>3 DEF TypeOK

\* TypeOK by parts, so that each step need only speak of those it changes.
NasTypes ==
    /\ nas \in [Apps -> View]
    /\ work \subseteq AllJobs
    /\ result \in {"none", "going", "ok", "failed"}
    /\ stopping \in BOOLEAN
    /\ row \in {"booked", "paused", "removed"}
HistoryTypes ==
    /\ wasPaused \in BOOLEAN
    /\ listed \subseteq Apps
    /\ begun \subseteq Apps
    /\ after \subseteq Apps
SettlingTypes ==
    /\ sight \in View \cup {NotSeen}
    /\ clock \in 0..MaxClock
    /\ since \in 0..Never
LoopTypes ==
    /\ app \in Apps
    /\ todo \subseteq Apps
    /\ left \subseteq Apps
    /\ unchecked \subseteq Apps
    /\ outcome \in [Apps -> Outcome]
    /\ pc \in {"pools", "catalog", "list", "next", "upgrade", "asked", "wait", "settle",
               "rollback", "askedback", "waitback", "after", "conclude", "end"}
EndTypesOK ==
    /\ status \in {"running", "skipped", "stopped", "done", "failed"}
    /\ said \subseteq Apps

LEMMA TypeParts ==
  /\ TypeOK <=> NasTypes /\ HistoryTypes /\ SettlingTypes /\ LoopTypes /\ EndTypesOK
  /\ TypeOK' <=> NasTypes' /\ HistoryTypes' /\ SettlingTypes' /\ LoopTypes' /\ EndTypesOK'
BY DEF TypeOK, NasTypes, HistoryTypes, SettlingTypes, LoopTypes, EndTypesOK

LEMMA Frame ==
  /\ UNCHANGED world => (NasTypes => NasTypes')
  /\ UNCHANGED history => (HistoryTypes => HistoryTypes')
  /\ UNCHANGED settling => (SettlingTypes => SettlingTypes')
  /\ UNCHANGED ending => (EndTypesOK => EndTypesOK')
BY DEF world, nasVars, history, settling, ending, NasTypes, HistoryTypes, SettlingTypes,
       EndTypesOK

LEMMA StoppedTypes ==
  ASSUME TypeOK, Stopped
  PROVE  LoopTypes' /\ SettlingTypes' /\ EndTypesOK'
BY TypeParts DEF LoopTypes, SettlingTypes, EndTypesOK, Stopped, End, settling, Results

LEMMA EndedTypes ==
  ASSUME TypeOK, NEW how \in {"skipped", "done", "failed"}, NEW about \in SUBSET Apps,
         End(how, about)
  PROVE  LoopTypes' /\ SettlingTypes' /\ EndTypesOK'
BY TypeParts DEF LoopTypes, SettlingTypes, EndTypesOK, End, settling

LEMMA SettledLoop ==
  ASSUME TypeOK, NEW what \in Outcome, Settled(what)
  PROVE  LoopTypes' /\ EndTypesOK'
BY TypeParts DEF LoopTypes, EndTypesOK, Settled, ending

LEMMA AsksTypes ==
  ASSUME TypeOK, NEW kind \in {"upgrade", "rollback"}, Asks(kind)
  PROVE  NasTypes' /\ LoopTypes' /\ SettlingTypes' /\ EndTypesOK'
<1>1. Job(app, kind) \in AllJobs
  BY DEF TypeOK, Job, AllJobs
<1>2. NasTypes'
  BY <1>1, TypeParts DEF Asks, NasTypes
<1>3. LoopTypes'
  BY TypeParts DEF Asks, LoopTypes
<1>4. UNCHANGED settling /\ UNCHANGED ending
  BY DEF Asks
<1> QED  BY <1>2, <1>3, <1>4, Frame, TypeParts

LEMMA AnsweredTypes ==
  ASSUME TypeOK, NEW next \in {"wait", "waitback"}, Answered(next)
  PROVE  LoopTypes' /\ SettlingTypes' /\ EndTypesOK'
<1>1. LoopTypes'
  BY TypeParts DEF Answered, LoopTypes
<1>2. UNCHANGED settling /\ UNCHANGED ending
  BY DEF Answered
<1> QED  BY <1>1, <1>2, Frame, TypeParts

LEMMA JudgedTypes ==
  ASSUME TypeOK, NEW seen \in View \cup {NotSeen}, Judged(seen)
  PROVE  LoopTypes' /\ EndTypesOK'
<1>1. CASE \E what \in Outcome : Settled(what)
  BY <1>1, SettledLoop
<1>2. CASE pc' = "rollback" /\ UNCHANGED <<app, todo, left, unchecked, outcome, ending>>
  BY <1>2, TypeParts DEF LoopTypes, EndTypesOK, ending
<1> QED  BY <1>1, <1>2 DEF Judged, Outcome, Bad

\* A poll's time: settle asks again only before its deadline.
LEMMA PollTypes ==
  ASSUME TypeOK, NEW took \in 1..2, Poll(took), ~Stopped
  PROVE  LoopTypes' /\ SettlingTypes' /\ EndTypesOK'
<1>1. nas[app] \in View
  BY DEF TypeOK
<1>2. SinceWhen(nas[app]) \in 0..Never
  BY ConstantsAssumption, <1>1 DEF TypeOK, SinceWhen, View, Never, MaxClock
<1>3. sight' \in View \cup {NotSeen} /\ since' \in 0..Never
  BY <1>1, <1>2 DEF Poll, TypeOK
<1>4. /\ clock' \in 0..MaxClock
      /\ LoopTypes' /\ EndTypesOK'
  <2>1. ASSUME NEW seen \in View \cup {NotSeen}, NEW over \in BOOLEAN,
               TimeIsUp => over, Round(over, seen, took)
        PROVE  clock' \in 0..MaxClock /\ LoopTypes' /\ EndTypesOK'
    <3>1. CASE over
      BY <3>1, <2>1, JudgedTypes DEF Round, TypeOK
    <3>2. CASE ~over
      <4>1. clock' \in 0..MaxClock
        BY <3>2, <2>1, ConstantsAssumption DEF Round, TypeOK, TimeIsUp, MaxClock
      <4>2. LoopTypes' /\ EndTypesOK'
        BY <3>2, <2>1, TypeParts DEF Round, LoopTypes, EndTypesOK, ending
      <4> QED  BY <4>1, <4>2
    <3> QED  BY <3>1, <3>2
  <2>2. (Steady(nas[app]) \/ TimeIsUp) \in BOOLEAN /\ TimeIsUp \in BOOLEAN
    BY <1>1 DEF Steady, TimeIsUp, View
  <2>3. sight \in View \cup {NotSeen}
    BY DEF TypeOK
  <2>4. CASE Round(Steady(nas[app]) \/ TimeIsUp, nas[app], took)
    BY <2>1, <2>2, <2>4, <1>1
  <2>5. CASE Round(TimeIsUp, sight, took)
    BY <2>1, <2>2, <2>3, <2>5
  <2> QED  BY <2>4, <2>5 DEF Poll
<1> QED  BY <1>3, <1>4 DEF SettlingTypes

LEMMA TypesStep == TypeOK /\ [Next]_vars => TypeOK'
<1> SUFFICES ASSUME TypeOK, [Next]_vars
             PROVE  TypeOK'
  OBVIOUS
<1>0. NasTypes /\ HistoryTypes /\ SettlingTypes /\ LoopTypes /\ EndTypesOK
  BY TypeParts
<1> SUFFICES NasTypes' /\ HistoryTypes' /\ SettlingTypes' /\ LoopTypes' /\ EndTypesOK'
  BY TypeParts
<1>1. CASE UNCHANGED run /\ NasTypes' /\ HistoryTypes'
  <2>1. LoopTypes' /\ UNCHANGED settling /\ UNCHANGED ending
    BY <1>0, <1>1 DEF run, LoopTypes
  <2> QED  BY <2>1, <1>0, <1>1, Frame
<1>2. CASE Around
  <2>1. UNCHANGED run
    BY <1>2 DEF Around, AppTurns, JobSwitches, JobEnds, RowChanges, Stop
  <2>2. ASSUME NEW a \in Apps, AppTurns(a)
        PROVE  NasTypes' /\ HistoryTypes'
    BY <2>2, <1>0, Frame DEF AppTurns, NasTypes, View
  <2>3. ASSUME NEW job \in work, JobSwitches(job)
        PROVE  NasTypes' /\ HistoryTypes'
    <3>1. Target(job) \in {"old", "new"} /\ job.app \in Apps
      BY <1>0 DEF Target, NasTypes, AllJobs
    <3> QED  BY <2>3, <3>1, <1>0, Frame DEF JobSwitches, NasTypes, View
  <2>4. ASSUME NEW job \in work, NEW ended \in {"ok", "failed"}, NEW version \in {"old", "new"},
               JobEnds(job, ended, version)
        PROVE  NasTypes' /\ HistoryTypes'
    BY <2>4, <1>0, Frame DEF JobEnds, NasTypes, View
  <2>5. ASSUME NEW to \in {"booked", "paused", "removed"}, RowChanges(to)
        PROVE  NasTypes' /\ HistoryTypes'
    BY <2>5, <1>0 DEF RowChanges, NasTypes, nasVars, HistoryTypes
  <2>6. ASSUME Stop
        PROVE  NasTypes' /\ HistoryTypes'
    <3>1. NasTypes'
      BY <2>6, <1>0 DEF Stop, NasTypes, nasVars
    <3>2. HistoryTypes'
      BY <2>6, <1>0 DEF Stop, history, HistoryTypes
    <3> QED  BY <3>1, <3>2
  <2> QED  BY <1>1, <1>2, <2>1, <2>2, <2>3, <2>4, <2>5, <2>6 DEF Around
<1>3. CASE CheckPools
  <2>1. CASE Stopped
    BY <2>1, <1>0, <1>3, StoppedTypes, Frame DEF CheckPools
  <2>2. CASE End("skipped", {})
    BY <2>2, <1>0, <1>3, EndedTypes, Frame DEF CheckPools
  <2>3. CASE pc' = "catalog" /\ UNCHANGED <<app, todo, left, unchecked, settling, outcome, ending>>
    BY <2>3, <1>0, <1>3, Frame DEF CheckPools, LoopTypes
  <2> QED  BY <1>3, <2>1, <2>2, <2>3 DEF CheckPools
<1>4. CASE RefreshCatalog
  BY <1>4, <1>0, Frame DEF RefreshCatalog, LoopTypes
<1>5. ASSUME NEW found \in SUBSET Apps, NEW unsure \in SUBSET Apps, List(found, unsure)
      PROVE  NasTypes' /\ HistoryTypes' /\ SettlingTypes' /\ LoopTypes' /\ EndTypesOK'
  <2>1. CASE Stopped /\ UNCHANGED history
    BY <2>1, <1>0, <1>5, StoppedTypes, Frame DEF List
  <2>2. CASE (End("skipped", {}) \/ End("done", {})) /\ UNCHANGED history
    BY <2>2, <1>0, <1>5, EndedTypes, Frame DEF List
  <2>3. CASE /\ todo' = found /\ unchecked' = unsure /\ listed' = found /\ pc' = "next"
             /\ UNCHANGED <<app, left, settling, outcome, ending, wasPaused, begun, after>>
    <3>1. HistoryTypes'
      BY <2>3, <1>0 DEF HistoryTypes
    <3>2. LoopTypes'
      BY <2>3, <1>0 DEF LoopTypes
    <3> QED  BY <3>1, <3>2, <2>3, <1>0, <1>5, Frame DEF List
  <2> QED  BY <1>5, <2>1, <2>2, <2>3 DEF List
<1>6. CASE NextApp
  <2>1. LoopTypes'
    BY <1>6, <1>0 DEF NextApp, LoopTypes
  <2> QED  BY <2>1, <1>6, <1>0, Frame DEF NextApp
<1>7. CASE AskUpgrade
  <2>1. CASE Stopped /\ UNCHANGED <<world, history>>
    BY <2>1, <1>0, StoppedTypes, Frame
  <2>2. CASE Asks("upgrade") /\ begun' = begun \cup {app}
    <3>1. HistoryTypes'
      BY <2>2, <1>0, <1>7 DEF AskUpgrade, HistoryTypes, LoopTypes, Stopped, Asks
    <3> QED  BY <3>1, <2>2, AsksTypes
  <2> QED  BY <1>7, <2>1, <2>2 DEF AskUpgrade
<1>8. CASE UpgradeAnswered
  <2>1. CASE Stopped
    BY <2>1, <1>8, <1>0, StoppedTypes, Frame DEF UpgradeAnswered
  <2>2. CASE Settled("unsent") /\ UNCHANGED settling
    <3>1. "unsent" \in Outcome
      BY DEF Outcome, Bad
    <3> QED  BY <3>1, <2>2, <1>8, <1>0, SettledLoop, Frame DEF UpgradeAnswered
  <2>3. CASE Answered("wait")
    BY <2>3, <1>8, <1>0, AnsweredTypes, Frame DEF UpgradeAnswered
  <2> QED  BY <1>8, <2>1, <2>2, <2>3 DEF UpgradeAnswered
<1>9. CASE WaitUpgrade
  <2>1. CASE Stopped
    BY <2>1, <1>9, <1>0, StoppedTypes, Frame DEF WaitUpgrade
  <2>2. CASE Settled("slow") /\ UNCHANGED settling
    <3>1. "slow" \in Outcome
      BY DEF Outcome, Bad
    <3> QED  BY <3>1, <2>2, <1>9, <1>0, SettledLoop, Frame DEF WaitUpgrade
  <2>3. CASE /\ pc' = "settle"
             /\ sight' = NotSeen /\ clock' = 0 /\ since' = Never
             /\ UNCHANGED <<app, todo, left, unchecked, outcome, ending>>
    <3>1. SettlingTypes'
      BY <2>3, ConstantsAssumption DEF SettlingTypes, Never, MaxClock
    <3>2. LoopTypes' /\ EndTypesOK'
      BY <2>3, <1>0 DEF LoopTypes, EndTypesOK, ending
    <3> QED  BY <3>1, <3>2, <1>9, <1>0, Frame DEF WaitUpgrade
  <2> QED  BY <1>9, <2>1, <2>2, <2>3 DEF WaitUpgrade
<1>10. ASSUME NEW took \in 1..2, Poll(took)
       PROVE  NasTypes' /\ HistoryTypes' /\ SettlingTypes' /\ LoopTypes' /\ EndTypesOK'
  <2>1. NasTypes' /\ HistoryTypes'
    BY <1>10, <1>0, Frame DEF Poll
  <2>2. CASE Stopped
    BY <2>1, <2>2, StoppedTypes
  <2>3. CASE ~Stopped
    BY <2>1, <2>3, <1>10, PollTypes
  <2> QED  BY <2>2, <2>3
<1>11. CASE AskRollback
  <2>1. CASE Stopped /\ UNCHANGED <<world, history>>
    BY <2>1, <1>0, StoppedTypes, Frame
  <2>2. CASE Asks("rollback") /\ UNCHANGED history
    BY <2>2, <1>0, AsksTypes, Frame
  <2> QED  BY <1>11, <2>1, <2>2 DEF AskRollback
<1>12. CASE RollbackAnswered
  <2>1. CASE Stopped
    BY <2>1, <1>12, <1>0, StoppedTypes, Frame DEF RollbackAnswered
  <2>2. CASE Settled("stuck") /\ UNCHANGED settling
    <3>1. "stuck" \in Outcome
      BY DEF Outcome, Bad
    <3> QED  BY <3>1, <2>2, <1>12, <1>0, SettledLoop, Frame DEF RollbackAnswered
  <2>3. CASE Answered("waitback")
    BY <2>3, <1>12, <1>0, AnsweredTypes, Frame DEF RollbackAnswered
  <2> QED  BY <1>12, <2>1, <2>2, <2>3 DEF RollbackAnswered
<1>13. CASE WaitRollback
  <2>1. CASE Stopped
    BY <2>1, <1>13, <1>0, StoppedTypes, Frame DEF WaitRollback
  <2>2. CASE (Settled("rolled back") \/ Settled("stuck")) /\ UNCHANGED settling
    <3>1. "rolled back" \in Outcome /\ "stuck" \in Outcome
      BY DEF Outcome, Bad
    <3> QED  BY <3>1, <2>2, <1>13, <1>0, SettledLoop, Frame DEF WaitRollback
  <2> QED  BY <1>13, <2>1, <2>2 DEF WaitRollback
<1>14. CASE AfterApp
  <2>1. LoopTypes'
    BY <1>14, <1>0 DEF AfterApp, LoopTypes
  <2> QED  BY <2>1, <1>14, <1>0, Frame DEF AfterApp
<1>15. CASE Conclude
  <2>1. left \in SUBSET Apps /\ Results \cup unchecked \cup left \in SUBSET Apps
    BY <1>0 DEF LoopTypes, Results
  <2>2. \E how \in {"skipped", "done", "failed"}, about \in SUBSET Apps : End(how, about)
    BY <2>1, <1>15 DEF Conclude
  <2> QED  BY <2>2, <1>15, <1>0, EndedTypes, Frame DEF Conclude
<1>16. CASE UNCHANGED vars
  BY <1>1, <1>0, <1>16 DEF vars, world, nasVars, run, history, settling, ending, NasTypes, HistoryTypes
<1> QED
  BY <1>2, <1>3, <1>4, <1>5, <1>6, <1>7, <1>8, <1>9, <1>10, <1>11, <1>12, <1>13, <1>14,
     <1>15, <1>16 DEF Next, Rule

(***************************************************************************)
(* Every variable keeps its type; in particular settle's clock never runs  *)
(* past its deadline by more than a poll.                                  *)
(***************************************************************************)
THEOREM TypeCorrect == Spec => []TypeOK
<1>1. TypeOK /\ [Next]_vars => TypeOK'
  BY TypesStep
<1> QED  BY <1>1, TypesInit, PTL DEF Spec

(***************************************************************************)
(* The rule and TrueNAS.  What is left of an app that was taken up is      *)
(* known from its outcome; one not taken up yet is as it was listed; and   *)
(* of the app in hand, the job under way is the one the rule asked for.    *)
(***************************************************************************)
Idle(a) == \A job \in work : job.app # a
Only(kind) == \A job \in work : job.app = app => job.kind = kind
Choosing == {"pools", "catalog", "list", "next", "upgrade", "conclude"}
Starting == {"pools", "catalog", "list"}
With == {"upgrade", "asked", "wait", "settle", "rollback", "askedback", "waitback"}

Fresh ==
    \A a \in Apps : outcome[a] = "none" /\ (a = app => pc \in Choosing) =>
       Idle(a) /\ nas[a].version = "old"
TodoFresh ==
    /\ \A a \in todo : outcome[a] = "none"
    /\ pc \in Starting => \A a \in Apps : outcome[a] = "none"
    /\ pc \in With => app \in todo
    /\ pc = "after" => outcome[app] # "none"
Forth ==
    pc \in {"asked", "wait"} => Only("upgrade") /\ (result # "going" => Idle(app))
Quiet ==
    /\ pc \in {"settle", "rollback"} => Idle(app)
    /\ pc = "settle" /\ sight # NotSeen => sight.version = nas[app].version
Back ==
    pc \in {"askedback", "waitback"} =>
       /\ Only("rollback")
       /\ result # "going" => Idle(app)
       /\ result = "ok" => nas[app].version = "old"
True ==
    \A a \in Apps :
       /\ outcome[a] = "updated" => Idle(a) /\ nas[a].version = "new"
       /\ outcome[a] \in {"rolled back", "not updated"} => Idle(a) /\ nas[a].version = "old"

RuleInv == NoRollbackUnderUpdate /\ Fresh /\ TodoFresh /\ Forth /\ Quiet /\ Back /\ True


\* Conjunct by conjunct, for a step that leaves the NAS alone.
LEMMA EndKeeps ==
  ASSUME TypeOK, RuleInv, NEW how, NEW about, End(how, about), UNCHANGED world
  PROVE  RuleInv'
<1> USE DEF End, world, nasVars
<1>1. NoRollbackUnderUpdate' /\ Fresh' /\ True'
  BY DEF RuleInv, NoRollbackUnderUpdate, Fresh, True, Idle, Choosing
<1>2. TodoFresh' /\ Forth' /\ Quiet' /\ Back'
  BY DEF RuleInv, TodoFresh, Forth, Quiet, Back, With, Starting
<1> QED  BY <1>1, <1>2 DEF RuleInv

LEMMA SettledKeeps ==
  ASSUME TypeOK, RuleInv, NEW what \in Outcome \ {"none"}, Settled(what), UNCHANGED world,
         what = "updated" => Idle(app) /\ nas[app].version = "new",
         what \in {"rolled back", "not updated"} => Idle(app) /\ nas[app].version = "old",
         pc \in With
  PROVE  RuleInv'
<1> USE DEF Settled, world, nasVars
<1>1. /\ app \in Apps
      /\ outcome'[app] = what
      /\ \A a \in Apps : a # app => outcome'[a] = outcome[a]
  BY DEF TypeOK
<1>2. NoRollbackUnderUpdate'
  BY DEF RuleInv, NoRollbackUnderUpdate
<1>3. Fresh'
  BY <1>1 DEF RuleInv, Fresh, Idle
<1>4. True'
  BY <1>1 DEF RuleInv, True, Idle
<1>5. TodoFresh'
  BY <1>1 DEF RuleInv, TodoFresh, With, Starting, TypeOK
<1>6. Forth' /\ Quiet' /\ Back'
  BY DEF Forth, Quiet, Back
<1> QED  BY <1>2, <1>3, <1>4, <1>5, <1>6 DEF RuleInv

\* The run is somewhere else, with the same app and the same NAS.
LEMMA MovesKeeps ==
  ASSUME TypeOK, RuleInv, UNCHANGED world, UNCHANGED <<app, outcome, sight>>,
         todo' \subseteq Apps, \A a \in todo' : outcome[a] = "none",
         pc' \in Starting => pc \in Starting,
         pc' \in With => app \in todo',
         pc' = "after" => outcome[app] # "none",
         pc' \in Choosing => pc \in Choosing \cup {"after"},
         pc' \in {"asked", "wait"} => pc \in {"asked", "wait"},
         pc' \in {"settle", "rollback"} => pc \in {"settle", "rollback"},
         pc' = "settle" => pc = "settle",
         pc' \in {"askedback", "waitback"} => pc \in {"askedback", "waitback"}
  PROVE  RuleInv'
<1> USE DEF world, nasVars
<1>1. NoRollbackUnderUpdate' /\ True'
  BY DEF RuleInv, NoRollbackUnderUpdate, True, Idle
<1>2. Fresh'
  BY DEF RuleInv, Fresh, TodoFresh, Idle, TypeOK
<1>3. TodoFresh'
  BY DEF RuleInv, TodoFresh
<1>4. Forth' /\ Quiet' /\ Back'
  BY DEF RuleInv, Forth, Quiet, Back, Only, Idle
<1> QED  BY <1>1, <1>2, <1>3, <1>4 DEF RuleInv

LEMMA RuleInvInit == Init => RuleInv
BY DEF Init, Starting, RuleInv, NoRollbackUnderUpdate, Fresh, TodoFresh, Forth, Quiet, Back, True, Idle,
       Choosing, With, View

\* The apps, and TrueNAS's jobs, go on by themselves.
LEMMA AroundKeeps == TypeOK /\ RuleInv /\ Around => RuleInv'
<1> SUFFICES ASSUME TypeOK, RuleInv, Around
             PROVE  RuleInv'
  OBVIOUS
<1>1. ASSUME NEW a \in Apps, AppTurns(a)
      PROVE  RuleInv'
  <2>1. \A b \in Apps : nas'[b].version = nas[b].version
    BY <1>1 DEF AppTurns, TypeOK, View
  <2>2. UNCHANGED <<work, result, run>> /\ app \in Apps
    BY <1>1 DEF AppTurns, TypeOK
  <2>3. NoRollbackUnderUpdate' /\ True'
    BY <2>1, <2>2 DEF RuleInv, run, NoRollbackUnderUpdate, True, Idle
  <2>4. Fresh' /\ TodoFresh'
    BY <2>1, <2>2 DEF RuleInv, run, settling, Fresh, TodoFresh, Idle
  <2>5. Forth' /\ Quiet' /\ Back'
    BY <2>1, <2>2 DEF RuleInv, run, settling, Forth, Quiet, Back, Only, Idle
  <2> QED
    BY <2>3, <2>4, <2>5 DEF RuleInv
<1>2. ASSUME NEW job \in work, NEW ended \in {"none", "ok", "failed"},
             NEW version \in {"old", "new"},
             ended = "ok" => version = Target(job),
             work' = IF ended = "none" THEN work ELSE work \ {job},
             nas' = [nas EXCEPT ![job.app].version = version],
             result' = IF ended # "none" /\ job.app = app THEN ended ELSE result,
             UNCHANGED run
      PROVE  RuleInv'
  <2>1. /\ job.app \in Apps /\ app \in Apps
        /\ \A b \in Apps : b # job.app => nas'[b].version = nas[b].version
    BY <1>2 DEF TypeOK, View, AllJobs
  <2>2. work' \subseteq work
    BY <1>2
  <2>3. UNCHANGED <<pc, app, todo, outcome, sight>>
    BY <1>2 DEF run, settling
  <2>4. NoRollbackUnderUpdate'
    BY <2>2 DEF RuleInv, NoRollbackUnderUpdate
  <2>5. Fresh' /\ True'
    BY <2>1, <2>2, <2>3 DEF RuleInv, Fresh, True, Idle
  <2>6. TodoFresh' /\ Quiet'
    BY <2>1, <2>2, <2>3 DEF RuleInv, TodoFresh, Quiet, Idle
  <2>7. \A other \in work' : other.app = job.app /\ other.kind = job.kind => ended = "none"
    BY <1>2 DEF TypeOK, AllJobs
  <2>8. Forth'
    <3>1. CASE job.app = app /\ ended # "none"
      BY <3>1, <2>2, <2>3, <2>7, <1>2 DEF RuleInv, Forth, Only, Idle
    <3>2. CASE ~(job.app = app /\ ended # "none")
      BY <3>2, <2>2, <2>3, <1>2 DEF RuleInv, Forth, Only, Idle
    <3> QED  BY <3>1, <3>2
  <2>9. Back'
    <3>1. CASE job.app = app /\ ended # "none"
      <4>1. pc \in {"askedback", "waitback"} => job.kind = "rollback"
        BY <3>1 DEF RuleInv, Back, Only
      <4>2. pc \in {"askedback", "waitback"} /\ ended = "ok" => nas'[app].version = "old"
        BY <4>1, <3>1, <1>2, <2>1 DEF Target, TypeOK, View
      <4> QED  BY <4>1, <4>2, <3>1, <2>2, <2>3, <2>7, <1>2 DEF RuleInv, Back, Only, Idle
    <3>2. CASE ~(job.app = app /\ ended # "none")
      BY <3>2, <2>1, <2>2, <2>3, <1>2 DEF RuleInv, Back, Only, Idle
    <3> QED  BY <3>1, <3>2
  <2> QED  BY <2>4, <2>5, <2>6, <2>8, <2>9 DEF RuleInv
<1>3. ASSUME NEW job \in work, JobSwitches(job)
      PROVE  RuleInv'
  <2>1. Target(job) \in {"old", "new"}
    BY DEF Target
  <2> QED  BY <1>2, <1>3, <2>1 DEF JobSwitches
<1>4. ASSUME NEW job \in work, NEW ended \in {"ok", "failed"}, NEW version \in {"old", "new"},
             JobEnds(job, ended, version)
      PROVE  RuleInv'
  BY <1>2, <1>4 DEF JobEnds
<1>5. ASSUME UNCHANGED <<nasVars, run>>
      PROVE  RuleInv'
  BY <1>5 DEF RuleInv, nasVars, run, settling, NoRollbackUnderUpdate, Fresh, TodoFresh, Forth,
              Quiet, Back, True, Idle, Only
<1>6. ASSUME NEW to \in {"booked", "paused", "removed"}, RowChanges(to)
      PROVE  RuleInv'
  BY <1>5, <1>6 DEF RowChanges
<1>7. CASE Stop
  BY <1>5, <1>7 DEF Stop
<1> QED  BY <1>1, <1>3, <1>4, <1>6, <1>7 DEF Around

LEMMA RuleKeeps == TypeOK /\ RuleInv /\ Rule => RuleInv'
<1> SUFFICES ASSUME TypeOK, RuleInv, Rule
             PROVE  RuleInv'
  OBVIOUS
<1> USE DEF Choosing, With, Starting
<1>1. ASSUME Stopped, UNCHANGED world
      PROVE  RuleInv'
  BY <1>1, EndKeeps DEF Stopped
<1>2. CASE CheckPools
  <2>1. CASE \E how, about : End(how, about)
    BY <2>1, <1>2, EndKeeps DEF CheckPools
  <2>2. CASE pc' = "catalog" /\ UNCHANGED <<app, todo, left, unchecked, settling, outcome, ending>>
    BY <2>2, <1>2, MovesKeeps DEF CheckPools, RuleInv, TodoFresh, settling, TypeOK
  <2> QED  BY <1>2, <2>1, <2>2 DEF CheckPools, Stopped
<1>3. CASE RefreshCatalog
  BY <1>3, MovesKeeps DEF RefreshCatalog, RuleInv, TodoFresh, settling, TypeOK
<1>4. ASSUME NEW found \in SUBSET Apps, NEW unsure \in SUBSET Apps, List(found, unsure)
      PROVE  RuleInv'
  <2>1. CASE \E how, about : End(how, about)
    BY <2>1, <1>4, EndKeeps DEF List
  <2>2. CASE todo' = found /\ pc' = "next" /\ UNCHANGED <<app, settling, outcome>>
    <3>1. \A a \in Apps : outcome[a] = "none"
      BY <1>4 DEF List, RuleInv, TodoFresh
    <3> QED  BY <3>1, <2>2, <1>4, MovesKeeps DEF List, settling
  <2> QED  BY <1>4, <2>1, <2>2 DEF List, Stopped
<1>5. CASE NextApp
  <2>1. CASE pc' = "conclude" /\ UNCHANGED app
    BY <2>1, <1>5, MovesKeeps DEF NextApp, RuleInv, TodoFresh, settling, TypeOK
  <2>2. CASE pc' = "upgrade" /\ app' \in todo
    <3>1. UNCHANGED <<world, todo, outcome, sight>> /\ pc = "next"
      BY <1>5 DEF NextApp, settling
    <3>2. NoRollbackUnderUpdate' /\ True'
      BY <3>1 DEF RuleInv, NoRollbackUnderUpdate, True, Idle, world, nasVars
    <3>3. Fresh' /\ TodoFresh'
      BY <2>2, <3>1 DEF RuleInv, Fresh, TodoFresh, Idle, world, nasVars
    <3>4. Forth' /\ Quiet' /\ Back'
      BY <2>2 DEF Forth, Quiet, Back
    <3> QED  BY <3>2, <3>3, <3>4 DEF RuleInv
  <2> QED  BY <1>5, <2>1, <2>2 DEF NextApp
<1>6. CASE AskUpgrade
  <2>1. CASE Stopped /\ UNCHANGED <<world, history>>
    BY <1>1, <2>1
  <2>2. CASE Asks("upgrade")
    <3>1. /\ pc = "upgrade" /\ pc' = "asked"
          /\ UNCHANGED <<nas, app, todo, outcome, sight>>
      BY <1>6, <2>2 DEF AskUpgrade, Asks, settling
    <3>2. /\ app \in Apps /\ app \in todo /\ outcome[app] = "none"
          /\ Idle(app)
      BY <3>1 DEF RuleInv, TodoFresh, Fresh, TypeOK
    <3>3. work' \subseteq work \cup {Job(app, "upgrade")}
      BY <2>2 DEF Asks
    <3>4. NoRollbackUnderUpdate'
      BY <3>2, <3>3 DEF RuleInv, NoRollbackUnderUpdate, Job, Idle
    <3>5. Fresh' /\ True'
      <4>1. \A a \in Apps : a # app /\ Idle(a) => Idle(a)'
        BY <3>3 DEF Idle, Job
      <4>2. Fresh'
        BY <4>1, <3>1 DEF RuleInv, Fresh
      <4>3. True'
        BY <4>1, <3>1, <3>2 DEF RuleInv, True
      <4> QED  BY <4>2, <4>3
    <3>6. TodoFresh'
      BY <3>1, <3>2 DEF RuleInv, TodoFresh
    <3>7. Forth'
      BY <3>1, <3>2, <2>2 DEF Forth, Only, Idle, Asks, Job
    <3>8. Quiet' /\ Back'
      BY <3>1 DEF Quiet, Back
    <3> QED  BY <3>4, <3>5, <3>6, <3>7, <3>8 DEF RuleInv
  <2> QED  BY <1>6, <2>1, <2>2 DEF AskUpgrade
<1>7. CASE UpgradeAnswered
  <2>1. CASE Stopped
    BY <1>1, <1>7, <2>1 DEF UpgradeAnswered
  <2>2. CASE Settled("unsent")
    BY <2>2, <1>7, SettledKeeps DEF UpgradeAnswered, Outcome, Bad
  <2>3. CASE Answered("wait")
    BY <2>3, <1>7, MovesKeeps DEF UpgradeAnswered, Answered, RuleInv, TodoFresh, settling, TypeOK
  <2> QED  BY <1>7, <2>1, <2>2, <2>3 DEF UpgradeAnswered
<1>8. CASE WaitUpgrade
  <2>1. CASE Stopped
    BY <1>1, <1>8, <2>1 DEF WaitUpgrade
  <2>2. CASE Settled("slow")
    BY <2>2, <1>8, SettledKeeps DEF WaitUpgrade, Outcome, Bad
  <2>3. CASE Ended /\ pc' = "settle" /\ sight' = NotSeen /\ UNCHANGED <<app, todo, outcome>>
    <3>1. Idle(app) /\ pc = "wait" /\ UNCHANGED <<nas, work, result>>
      BY <2>3, <1>8 DEF WaitUpgrade, RuleInv, Forth, Ended, world, nasVars
    <3>2. NoRollbackUnderUpdate' /\ True'
      BY <2>3, <3>1 DEF RuleInv, NoRollbackUnderUpdate, True, Idle
    <3>3. Fresh' /\ TodoFresh'
      BY <2>3, <3>1 DEF RuleInv, Fresh, TodoFresh, Idle
    <3>4. Forth' /\ Quiet' /\ Back'
      BY <2>3, <3>1 DEF Forth, Quiet, Back, Idle
    <3> QED  BY <3>2, <3>3, <3>4 DEF RuleInv
  <2> QED  BY <1>8, <2>1, <2>2, <2>3 DEF WaitUpgrade
<1>9. ASSUME NEW took \in 1..2, Poll(took)
      PROVE  RuleInv'
  <2>1. CASE Stopped
    BY <1>1, <1>9, <2>1 DEF Poll
  <2>2. ASSUME NEW seen, sight' = seen,
               seen # NotSeen => seen.version = nas[app].version,
               \/ Judged(seen)
               \/ UNCHANGED <<pc, app, todo, left, unchecked, outcome, ending>>
        PROVE  RuleInv'
    <3>1. pc = "settle" /\ UNCHANGED world /\ Idle(app)
      BY <1>9 DEF Poll, RuleInv, Quiet
    <3>2. ASSUME NEW what \in Outcome \ {"none"}, Settled(what),
                 what = "updated" => nas[app].version = "new",
                 what \in {"rolled back", "not updated"} => nas[app].version = "old"
          PROVE  RuleInv'
      BY <3>1, <3>2, SettledKeeps
    <3>3. ASSUME UNCHANGED <<app, todo, outcome>>, pc' \in {"settle", "rollback"}
          PROVE  RuleInv'
      <4>1. NoRollbackUnderUpdate' /\ True'
        BY <3>1, <3>3 DEF RuleInv, NoRollbackUnderUpdate, True, Idle, world, nasVars
      <4>2. Fresh' /\ TodoFresh'
        BY <3>1, <3>3 DEF RuleInv, Fresh, TodoFresh, Idle, world, nasVars
      <4>3. Forth' /\ Quiet' /\ Back'
        BY <2>2, <3>1, <3>3 DEF Forth, Quiet, Back, Idle, world, nasVars
      <4> QED  BY <4>1, <4>2, <4>3 DEF RuleInv
    <3>4. CASE Judged(seen)
      <4>1. CASE seen = NotSeen /\ Settled("unknown")
        BY <4>1, <3>2 DEF Outcome, Bad
      <4>2. CASE seen # NotSeen /\ seen.version = "old" /\ Settled("not updated")
        BY <4>2, <2>2, <3>2 DEF Outcome, Bad
      <4>3. CASE seen # NotSeen /\ seen.version = "new" /\ Settled("updated")
        BY <4>3, <2>2, <3>2 DEF Outcome, Bad
      <4>4. CASE pc' = "rollback" /\ UNCHANGED <<app, todo, left, unchecked, outcome, ending>>
        BY <4>4, <3>3
      <4> QED  BY <3>4, <4>1, <4>2, <4>3, <4>4 DEF Judged
    <3>5. CASE UNCHANGED <<pc, app, todo, left, unchecked, outcome, ending>>
      BY <3>1, <3>3, <3>5
    <3> QED  BY <2>2, <3>4, <3>5
  <2>3. sight # NotSeen => sight.version = nas[app].version
    BY <1>9 DEF Poll, RuleInv, Quiet
  <2> QED  BY <1>9, <2>1, <2>2, <2>3 DEF Poll, Round
<1>10. CASE AskRollback
  <2>1. CASE Stopped /\ UNCHANGED world
    BY <1>1, <2>1
  <2>2. CASE Asks("rollback")
    <3>1. /\ pc = "rollback" /\ pc' = "askedback"
          /\ UNCHANGED <<nas, app, todo, outcome, sight>>
      BY <1>10, <2>2 DEF AskRollback, Asks, settling
    <3>2. /\ app \in Apps /\ app \in todo /\ outcome[app] = "none"
          /\ Idle(app)
      BY <3>1 DEF RuleInv, TodoFresh, Quiet, TypeOK
    <3>3. work' \subseteq work \cup {Job(app, "rollback")}
      BY <2>2 DEF Asks
    <3>4. NoRollbackUnderUpdate'
      BY <3>2, <3>3 DEF RuleInv, NoRollbackUnderUpdate, Job, Idle
    <3>5. Fresh' /\ True'
      <4>1. \A a \in Apps : a # app /\ Idle(a) => Idle(a)'
        BY <3>3 DEF Idle, Job
      <4>2. Fresh'
        BY <4>1, <3>1 DEF RuleInv, Fresh
      <4>3. True'
        BY <4>1, <3>1, <3>2 DEF RuleInv, True
      <4> QED  BY <4>2, <4>3
    <3>6. TodoFresh'
      BY <3>1, <3>2 DEF RuleInv, TodoFresh
    <3>7. Back'
      BY <3>1, <3>2, <2>2 DEF Back, Only, Idle, Asks, Job
    <3>8. Quiet' /\ Forth'
      BY <3>1 DEF Quiet, Forth
    <3> QED  BY <3>4, <3>5, <3>6, <3>7, <3>8 DEF RuleInv
  <2> QED  BY <1>10, <2>1, <2>2 DEF AskRollback
<1>11. CASE RollbackAnswered
  <2>1. CASE Stopped
    BY <1>1, <1>11, <2>1 DEF RollbackAnswered
  <2>2. CASE Settled("stuck")
    BY <2>2, <1>11, SettledKeeps DEF RollbackAnswered, Outcome, Bad
  <2>3. CASE Answered("waitback")
    BY <2>3, <1>11, MovesKeeps DEF RollbackAnswered, Answered, RuleInv, TodoFresh, settling, TypeOK
  <2> QED  BY <1>11, <2>1, <2>2, <2>3 DEF RollbackAnswered
<1>12. CASE WaitRollback
  <2>1. CASE Stopped
    BY <1>1, <1>12, <2>1 DEF WaitRollback
  <2>2. CASE WentBack /\ Settled("rolled back")
    <3>1. Idle(app) /\ nas[app].version = "old"
      BY <2>2, <1>12 DEF WaitRollback, RuleInv, Back, WentBack
    <3> QED  BY <3>1, <2>2, <1>12, SettledKeeps DEF WaitRollback, Outcome, Bad
  <2>3. CASE Settled("stuck")
    BY <2>3, <1>12, SettledKeeps DEF WaitRollback, Outcome, Bad
  <2> QED  BY <1>12, <2>1, <2>2, <2>3 DEF WaitRollback
<1>13. CASE AfterApp
  BY <1>13, MovesKeeps DEF AfterApp, RuleInv, TodoFresh, settling, TypeOK
<1>14. CASE Conclude
  BY <1>14, EndKeeps DEF Conclude
<1> QED
  BY <1>2, <1>3, <1>4, <1>5, <1>6, <1>7, <1>8, <1>9, <1>10, <1>11, <1>12, <1>13, <1>14 DEF Rule

LEMMA RuleInvStep == TypeOK /\ RuleInv /\ [Next]_vars => RuleInv'
<1> SUFFICES ASSUME TypeOK, RuleInv, UNCHANGED vars
             PROVE  RuleInv'
  BY AroundKeeps, RuleKeeps DEF Next
<1> QED
  BY DEF vars, world, nasVars, settling, RuleInv, NoRollbackUnderUpdate, Fresh, TodoFresh, Forth,
         Quiet, Back, True, Idle, Only

LEMMA RuleInvHolds == Spec => [](TypeOK /\ RuleInv)
<1>1. Init => TypeOK /\ RuleInv
  BY TypesInit, RuleInvInit
<1>2. TypeOK /\ RuleInv /\ [Next]_vars => (TypeOK /\ RuleInv)'
  BY TypesStep, RuleInvStep
<1> QED  BY <1>1, <1>2, PTL DEF Spec

(***************************************************************************)
(* TrueNAS never has an update and a rollback of an app under way          *)
(* together.                                                               *)
(***************************************************************************)
THEOREM NoRollbackUnderUpdateHolds == Spec => []NoRollbackUnderUpdate
<1>1. RuleInv => NoRollbackUnderUpdate
  BY DEF RuleInv
<1> QED  BY <1>1, RuleInvHolds, PTL

(***************************************************************************)
(* What the run says of an app stays true of it.                           *)
(***************************************************************************)
THEOREM OutcomesAreTrueHolds == Spec => []OutcomesAreTrue
<1>1. RuleInv => OutcomesAreTrue
  BY DEF RuleInv, True, Idle, OutcomesAreTrue
<1> QED  BY <1>1, RuleInvHolds, PTL

(***************************************************************************)
(* What is said of the apps.  Until the end, every app whose update was    *)
(* asked for has its outcome or is in hand, and every one listed has its   *)
(* outcome or is to come; the end says so of them all.                     *)
(***************************************************************************)
Asked == {"asked", "wait", "settle", "rollback", "askedback", "waitback"}

Kept ==
    /\ \A a \in begun : outcome[a] # "none" \/ (a = app /\ pc \in Asked)
    /\ \A a \in listed : outcome[a] # "none" \/ a \in todo
    /\ pc = "conclude" => todo \subseteq left
    /\ pc \in Starting => begun = {} /\ listed = {}
AtEnd ==
    /\ begun \ said \subseteq (IF status = "stopped" THEN {app} ELSE {})
    /\ status \in {"done", "failed"} => listed \subseteq said
    /\ status = "done" => \A a \in begun : outcome[a] = "updated"
    /\ status = "skipped" => begun = {}
SaidInv == IF pc = "end" THEN AtEnd ELSE Kept

LEMMA SaidSettled ==
  ASSUME TypeOK, Kept, NEW what \in Outcome \ {"none"}, Settled(what),
         UNCHANGED <<listed, begun>>
  PROVE  SaidInv'
<1>1. /\ pc' = "after" /\ app' = app
      /\ \A a \in Apps : outcome'[a] = (IF a = app THEN what ELSE outcome[a])
      /\ \A a \in todo : a # app => a \in todo'
  BY DEF Settled, TypeOK
<1>2. listed \subseteq Apps /\ begun \subseteq Apps
  BY DEF TypeOK
<1> QED  BY <1>1, <1>2 DEF SaidInv, Kept, Starting

LEMMA SaidStopped ==
  ASSUME TypeOK, Kept, Stopped, UNCHANGED <<listed, begun>>
  PROVE  SaidInv'
BY DEF SaidInv, Kept, AtEnd, Stopped, End, Results, TypeOK

\* The run moves on within an app, or to the next.
LEMMA SaidMoves ==
  ASSUME Kept, UNCHANGED <<listed, begun, outcome, app, todo>>,
         pc' # "end", pc' # "conclude",
         pc' \in Starting => pc \in Starting,
         pc \in Asked => pc' \in Asked
  PROVE  SaidInv'
BY DEF SaidInv, Kept, Starting

LEMMA SaidStep == TypeOK /\ SaidInv /\ [Next]_vars => SaidInv'
<1> SUFFICES ASSUME TypeOK, SaidInv, [Next]_vars
             PROVE  SaidInv'
  OBVIOUS
<1>1. ASSUME UNCHANGED <<run, listed, begun>>
      PROVE  SaidInv'
  BY <1>1 DEF SaidInv, Kept, AtEnd, run, ending
<1>2. CASE Around
  BY <1>1, <1>2 DEF Around, AppTurns, JobSwitches, JobEnds, RowChanges, Stop, history
<1>3. CASE UNCHANGED vars
  BY <1>1, <1>3 DEF vars, run, history
<1>4. ASSUME Rule
      PROVE  pc # "end" /\ Kept
  BY <1>4 DEF Rule, CheckPools, RefreshCatalog, List, NextApp, AskUpgrade, UpgradeAnswered,
              WaitUpgrade, Poll, AskRollback, RollbackAnswered, WaitRollback, AfterApp, Conclude,
              SaidInv
<1> USE DEF history
<1>5. ASSUME Rule, CheckPools
      PROVE  SaidInv'
  <2>1. CASE End("skipped", {})
    BY <1>4, <1>5, <2>1 DEF CheckPools, End, SaidInv, Kept, AtEnd, Starting
  <2>2. CASE pc' = "catalog" /\ UNCHANGED <<app, todo, left, unchecked, settling, outcome, ending>>
    BY <1>4, <1>5, <2>2, SaidMoves DEF CheckPools, Starting, Asked
  <2> QED  BY <1>4, <1>5, <2>1, <2>2, SaidStopped DEF CheckPools
<1>6. ASSUME Rule, RefreshCatalog
      PROVE  SaidInv'
  BY <1>4, <1>6, SaidMoves DEF RefreshCatalog, Starting, Asked
<1>7. ASSUME Rule, NEW found \in SUBSET Apps, NEW unsure \in SUBSET Apps, List(found, unsure)
      PROVE  SaidInv'
  <2>1. CASE Stopped /\ UNCHANGED history
    BY <1>4, <1>7, <2>1, SaidStopped
  <2>2. CASE (End("skipped", {}) \/ End("done", {})) /\ UNCHANGED history
    BY <1>4, <1>7, <2>2 DEF List, End, SaidInv, Kept, AtEnd, Starting
  <2>3. CASE todo' = found /\ listed' = found /\ begun' = begun /\ pc' = "next"
    BY <1>4, <1>7, <2>3 DEF List, SaidInv, Kept, Starting
  <2> QED  BY <1>7, <2>1, <2>2, <2>3 DEF List
<1>8. ASSUME Rule, NextApp
      PROVE  SaidInv'
  BY <1>4, <1>8 DEF NextApp, SaidInv, Kept, Starting, Asked
<1>9. ASSUME Rule, AskUpgrade
      PROVE  SaidInv'
  <2>1. CASE Stopped /\ UNCHANGED history
    BY <1>4, <1>9, <2>1, SaidStopped
  <2>2. CASE Asks("upgrade") /\ begun' = begun \cup {app} /\ listed' = listed
    BY <1>4, <1>9, <2>2 DEF AskUpgrade, Asks, SaidInv, Kept, Starting, Asked
  <2> QED  BY <1>9, <2>1, <2>2 DEF AskUpgrade
<1>10. ASSUME Rule, UpgradeAnswered
       PROVE  SaidInv'
  <2>1. CASE Settled("unsent")
    BY <1>4, <1>10, <2>1, SaidSettled DEF UpgradeAnswered, Outcome, Bad
  <2>2. CASE Answered("wait")
    BY <1>4, <1>10, <2>2, SaidMoves DEF UpgradeAnswered, Answered, Starting, Asked
  <2> QED  BY <1>4, <1>10, <2>1, <2>2, SaidStopped DEF UpgradeAnswered
<1>11. ASSUME Rule, WaitUpgrade
       PROVE  SaidInv'
  <2>1. CASE Settled("slow")
    BY <1>4, <1>11, <2>1, SaidSettled DEF WaitUpgrade, Outcome, Bad
  <2>2. CASE pc' = "settle" /\ UNCHANGED <<app, todo, left, unchecked, outcome, ending>>
    BY <1>4, <1>11, <2>2, SaidMoves DEF WaitUpgrade, Starting, Asked
  <2> QED  BY <1>4, <1>11, <2>1, <2>2, SaidStopped DEF WaitUpgrade
<1>12. ASSUME Rule, NEW took \in 1..2, Poll(took)
       PROVE  SaidInv'
  <2>1. CASE \E what \in Outcome \ {"none"} : Settled(what)
    BY <1>4, <1>12, <2>1, SaidSettled DEF Poll
  <2>2. CASE pc' \in {"settle", "rollback"} /\ UNCHANGED <<app, todo, outcome>>
    BY <1>4, <1>12, <2>2, SaidMoves DEF Poll, Starting, Asked
  <2>3. CASE Stopped
    BY <1>4, <1>12, <2>3, SaidStopped DEF Poll
  <2>4. ASSUME NEW seen, Judged(seen)
        PROVE  \/ \E what \in Outcome \ {"none"} : Settled(what)
               \/ pc' \in {"settle", "rollback"} /\ UNCHANGED <<app, todo, outcome>>
    BY <2>4 DEF Judged, Outcome, Bad
  <2>5. ASSUME NEW seen, NEW over, Round(over, seen, took), pc = "settle"
        PROVE  \/ \E what \in Outcome \ {"none"} : Settled(what)
               \/ pc' \in {"settle", "rollback"} /\ UNCHANGED <<app, todo, outcome>>
    BY <2>4, <2>5 DEF Round
  <2> QED  BY <1>12, <2>1, <2>2, <2>3, <2>5 DEF Poll
<1>13. ASSUME Rule, AskRollback
       PROVE  SaidInv'
  <2>1. CASE Stopped
    BY <1>4, <1>13, <2>1, SaidStopped DEF AskRollback
  <2>2. CASE Asks("rollback")
    BY <1>4, <1>13, <2>2, SaidMoves DEF AskRollback, Asks, Starting, Asked
  <2> QED  BY <1>13, <2>1, <2>2 DEF AskRollback
<1>14. ASSUME Rule, RollbackAnswered
       PROVE  SaidInv'
  <2>1. CASE Settled("stuck")
    BY <1>4, <1>14, <2>1, SaidSettled DEF RollbackAnswered, Outcome, Bad
  <2>2. CASE Answered("waitback")
    BY <1>4, <1>14, <2>2, SaidMoves DEF RollbackAnswered, Answered, Starting, Asked
  <2> QED  BY <1>4, <1>14, <2>1, <2>2, SaidStopped DEF RollbackAnswered
<1>15. ASSUME Rule, WaitRollback
       PROVE  SaidInv'
  <2>1. CASE Settled("rolled back") \/ Settled("stuck")
    BY <1>4, <1>15, <2>1, SaidSettled DEF WaitRollback, Outcome, Bad
  <2> QED  BY <1>4, <1>15, <2>1, SaidStopped DEF WaitRollback
<1>16. ASSUME Rule, AfterApp
       PROVE  SaidInv'
  BY <1>4, <1>16 DEF AfterApp, SaidInv, Kept, Starting, Asked
<1>17. ASSUME Rule, Conclude
       PROVE  SaidInv'
  <2>1. begun \subseteq Results /\ listed \subseteq Results \cup left
    BY <1>4, <1>17 DEF Conclude, Kept, Asked, Results, TypeOK
  <2>2. AllWell => \A a \in Results : outcome[a] = "updated"
    BY DEF AllWell, Results, TypeOK, Outcome
  <2>3. UNCHANGED <<listed, begun, outcome>> /\ pc' = "end"
    BY <1>17 DEF Conclude, End
  <2>4. CASE Results \cup unchecked = {}
    <3>1. status' = "skipped" /\ said' = left
      BY <1>17, <2>4 DEF Conclude, End
    <3> QED  BY <2>1, <2>3, <2>4, <3>1 DEF SaidInv, AtEnd
  <2>5. CASE Results \cup unchecked # {}
    <3>1. /\ status' = (IF AllWell THEN "done" ELSE "failed")
          /\ said' = Results \cup unchecked \cup left
      BY <1>17, <2>5 DEF Conclude, End
    <3> QED  BY <2>1, <2>2, <2>3, <3>1 DEF SaidInv, AtEnd
  <2> QED  BY <2>4, <2>5
<1> QED
  BY <1>2, <1>3, <1>5, <1>6, <1>7, <1>8, <1>9, <1>10, <1>11, <1>12, <1>13, <1>14, <1>15,
     <1>16, <1>17 DEF Next, Rule

(***************************************************************************)
(* No app is touched in silence, however the run ends.                     *)
(***************************************************************************)
THEOREM NothingUnsaidHolds == Spec => []NothingUnsaid
<1>1. Init => SaidInv
  BY DEF Init, SaidInv, Kept, Asked
<1>2. TypeOK /\ RuleInv /\ SaidInv => NothingUnsaid
  BY DEF RuleInv, True, SaidInv, AtEnd, NothingUnsaid, TypeOK
<1> QED  BY <1>1, <1>2, SaidStep, RuleInvHolds, PTL DEF Spec

\* Once paused or removed, a run about to ask for an update hasn't asked for
\* another since.
PauseInv ==
    /\ PauseIsHeeded
    /\ row # "booked" /\ ~wasPaused /\ pc = "upgrade" /\ ~stopping => after = {}

LEMMA PauseStep == TypeOK /\ PauseInv /\ [Next]_vars => PauseInv'
<1> SUFFICES ASSUME TypeOK, PauseInv, [Next]_vars
             PROVE  PauseInv'
  OBVIOUS
<1> USE DEF PauseInv, PauseIsHeeded
<1>1. ASSUME UNCHANGED <<row, wasPaused, after, stopping>>, pc' = pc \/ pc' # "upgrade"
      PROVE  PauseInv'
  BY <1>1
<1>2. CASE Around
  <2>1. ASSUME NEW to \in {"booked", "paused", "removed"}, RowChanges(to)
        PROVE  PauseInv'
    BY <2>1 DEF RowChanges
  <2>2. CASE Stop
    BY <2>2 DEF Stop, history, run
  <2>3. ASSUME UNCHANGED <<row, stopping, run, history>>
        PROVE  PauseInv'
    BY <1>1, <2>3 DEF run, history
  <2> QED  BY <1>2, <2>1, <2>2, <2>3 DEF Around, AppTurns, JobSwitches, JobEnds
<1>3. CASE UNCHANGED vars
  BY <1>1, <1>3 DEF vars, world, history
<1>4. CASE AskUpgrade
  <2>1. CASE Stopped
    BY <1>1, <1>4, <2>1 DEF AskUpgrade, Stopped, End, world, history, Asks
  <2>2. CASE Asks("upgrade") /\ after' = IF row = "booked" THEN {} ELSE after \cup {app}
    <3>1. UNCHANGED row /\ pc = "upgrade" /\ pc' = "asked" /\ ~stopping
      BY <1>4, <2>2 DEF AskUpgrade, Asks
    <3>2. ~wasPaused' => ~wasPaused
      BY <1>4, <2>2 DEF AskUpgrade, Asks, Stopped
    <3>3. row # "booked" /\ ~wasPaused => after' = {app}
      BY <2>2, <3>1
    <3> QED  BY <3>1, <3>2, <3>3
  <2> QED  BY <1>4, <2>1, <2>2 DEF AskUpgrade
<1>5. CASE NextApp
  <2>1. UNCHANGED <<row, wasPaused, after, stopping>>
    BY <1>5 DEF NextApp, world, history
  <2>2. pc' = "upgrade" /\ row # "booked" /\ ~wasPaused => stopping
    BY <1>5 DEF NextApp, OffNow, OnlyRemoved, TypeOK
  <2> QED  BY <2>1, <2>2
<1>6. ASSUME Rule, ~AskUpgrade, ~NextApp
      PROVE  /\ UNCHANGED <<row, wasPaused, after, stopping>>
             /\ pc' # "upgrade"
  <2> USE DEF world, history, Stopped, End, Settled, Answered, Asks
  <2>1. CASE CheckPools \/ RefreshCatalog \/ AfterApp \/ Conclude
    BY <2>1 DEF CheckPools, RefreshCatalog, AfterApp, Conclude
  <2>2. ASSUME NEW found \in SUBSET Apps, NEW unsure \in SUBSET Apps, List(found, unsure)
        PROVE  /\ UNCHANGED <<row, wasPaused, after, stopping>>
               /\ pc' # "upgrade"
    BY <2>2 DEF List
  <2>3. CASE UpgradeAnswered \/ WaitUpgrade
    BY <2>3 DEF UpgradeAnswered, WaitUpgrade
  <2>4. ASSUME NEW took \in 1..2, Poll(took)
        PROVE  /\ UNCHANGED <<row, wasPaused, after, stopping>>
               /\ pc' # "upgrade"
    BY <2>4 DEF Poll, Round, Judged
  <2>5. CASE AskRollback \/ RollbackAnswered \/ WaitRollback
    BY <2>5 DEF AskRollback, RollbackAnswered, WaitRollback
  <2> QED  BY <1>6, <2>1, <2>2, <2>3, <2>4, <2>5 DEF Rule
<1> QED  BY <1>1, <1>2, <1>3, <1>4, <1>5, <1>6 DEF Next

(***************************************************************************)
(* A rule paused or removed since its run began goes no further than the   *)
(* app it was at, however many it has left.                                *)
(***************************************************************************)
THEOREM PauseIsHeededHolds == Spec => []PauseIsHeeded
<1>1. Init => PauseInv
  BY DEF Init, PauseInv, PauseIsHeeded
<1>2. PauseInv => PauseIsHeeded
  BY DEF PauseInv
<1> QED  BY <1>1, <1>2, PauseStep, TypeCorrect, PTL DEF Spec

(***************************************************************************)
(* However a run ends, what it says is true of every app, and it says all  *)
(* that it did.                                                            *)
(***************************************************************************)
THEOREM SaysWhatItDidHolds == Spec => []SaysWhatItDid
<1>1. OutcomesAreTrue /\ NothingUnsaid => SaysWhatItDid
  BY DEF SaysWhatItDid
<1> QED  BY <1>1, OutcomesAreTrueHolds, NothingUnsaidHolds, PTL
-----------------------------------------------------------------------------
(***************************************************************************)
(* When a job runs next.  First division, then time.Date and the time of   *)
(* a day's run, then what Next returns for each kind of booking.           *)
(***************************************************************************)
(***************************************************************************)
(* Division: the day a local time is of, and the weekday a day is.         *)
(***************************************************************************)
\* A number is what remains of it after whole days.
LEMMA Divided ==
    ASSUME NEW D \in Nat \ {0}, NEW x \in Int
    PROVE  /\ x \div D \in Int /\ x % D \in 0..(D - 1)
           /\ x = D * (x \div D) + (x % D)
           /\ D * (x \div D) =< x /\ x < D * (x \div D) + D
<1>1. D \in Int /\ D > 0
  OBVIOUS
<1>2. x \div D \in Int /\ x % D \in 0..(D - 1) /\ x = D * (x \div D) + (x % D)
  BY <1>1, SMT
<1>3. PICK y \in Int, r \in Int : y = D * (x \div D) /\ r = x % D
  BY <1>1, <1>2
<1> QED
  BY <1>1, <1>2, <1>3

\* Further on, no earlier a day; by whole days.
LEMMA Apart ==
    ASSUME NEW D \in Nat \ {0}, NEW p \in Int, NEW q \in Int, p < q
    PROVE  D * p \in Int /\ D * q \in Int /\ D * p + D =< D * q
<1>1. PICK k \in Nat : q = p + 1 + k
  <2>1. q - p - 1 \in Nat /\ q = p + 1 + (q - p - 1)
    OBVIOUS
  <2> QED
    BY <2>1
<1>2. D * q = D * p + D + D * k
  BY <1>1, SMT
<1>3. D * k \in Nat
  BY SMT
<1>4. D * p \in Int /\ D * q \in Int
  BY SMT
<1>5. PICK a \in Int, b \in Int, e \in Nat : a = D * p /\ b = D * q /\ e = D * k
  BY <1>3, <1>4
<1> QED
  BY <1>2, <1>5

\* Within D after D * q it is still q.
InPeriod(x, D, q) == D * q =< x /\ x < D * q + D

LEMMA Within ==
    ASSUME NEW D \in Nat \ {0}, NEW q \in Int, NEW x \in Int, InPeriod(x, D, q)
    PROVE  x \div D = q /\ x % D = x - D * q
<1>1. PICK d \in Int : d = x \div D
  BY Divided
<1>2. PICK s \in 0..(D - 1) : s = x % D
  BY Divided
<1>3. x = D * d + s
  BY <1>1, <1>2, Divided
<1>4. PICK a \in Int, b \in Int : a = D * d /\ b = D * q
  BY <1>1, SMT
<1>5. x = a + s /\ b =< x /\ x < b + D
  BY <1>3, <1>4 DEF InPeriod
<1>6. ~(d < q)
  <2> SUFFICES ASSUME d < q PROVE FALSE
    OBVIOUS
  <2>1. a + D =< b
    BY <1>4, Apart
  <2> QED
    BY <1>5, <2>1
<1>7. ~(q < d)
  <2> SUFFICES ASSUME q < d PROVE FALSE
    OBVIOUS
  <2>1. b + D =< a
    BY <1>4, Apart
  <2> QED
    BY <1>5, <2>1
<1>8. d = q
  BY <1>6, <1>7
<1>9. a = b
  BY <1>4, <1>8
<1> QED
  BY <1>1, <1>2, <1>4, <1>5, <1>8, <1>9

(***************************************************************************)
(* time.Date, and the time of a run.                                       *)
(***************************************************************************)
\* A zone's numbers.
LEMMA ZoneIs ==
    ASSUME NEW z \in Zones
    PROVE  /\ z.before \in Int /\ z.after \in Int /\ z.change \in Int /\ DayLength \in Nat \ {0}
           /\ -DayLength =< z.before /\ z.before =< DayLength /\ -DayLength =< z.after /\ z.after =< DayLength
           /\ 2 * (z.after - z.before) < DayLength /\ 2 * (z.before - z.after) < DayLength
BY ZonesAssumption, WhenConstants

\* Date finds the time a local time is of; one that the clocks skip it takes
\* for as long before the change, or after, as that is after it, or before.
LEMMA DateIs ==
    ASSUME zone \in Zones, NEW l \in Int
    PROVE  LET t == Date(l) IN
           /\ t \in Int
           /\ \/ t = l - zone.before /\ t < zone.change
              \/ t = l - zone.after /\ t >= zone.change
              \/ /\ zone.change + zone.before =< l /\ l < zone.change + zone.after
                 /\ \/ t = l - zone.after /\ t < zone.change
                    \/ t = l - zone.before /\ t >= zone.change
BY ZoneIs DEF Date, OffsetAt

\* A day's noon is never on another day.
LEMMA NoonIs ==
    ASSUME zone \in Zones, NEW day \in Int
    PROVE  LET noon == Date(day * DayLength + DayLength \div 2) IN noon \in Int /\ DayOf(noon) = day
<1>1. PICK half \in Int : half = DayLength \div 2 /\ 2 * half =< DayLength /\ DayLength =< 2 * half + 1
  BY WhenConstants
<1>2. PICK start \in Int : start = DayLength * day /\ start = day * DayLength
  BY WhenConstants, SMT
<1>3. PICK noon \in Int : noon = Date(start + half)
  BY <1>1, <1>2, DateIs
<1>4. Local(noon) \in Int /\ Local(noon) - start \in 0..(DayLength - 1)
  BY <1>1, <1>2, <1>3, DateIs, ZoneIs DEF Local, OffsetAt
<1>5. PICK x \in Int : x = Local(noon)
  BY <1>4
<1>6. InPeriod(x, DayLength, day)
  BY <1>2, <1>4, <1>5, WhenConstants DEF InPeriod
<1>7. x \div DayLength = day
  BY <1>6, WhenConstants, Within
<1> QED
  BY <1>1, <1>2, <1>3, <1>5, <1>7 DEF DayOf

\* The time of day, made up for by off where the day is another.
MadeUp(x, D, day, off) == (x % D) + (IF x \div D = day THEN 0 ELSE off)

\* That is how far a local time less than a day off is from the day's start.
LEMMA Counted ==
    ASSUME NEW D \in Nat \ {0}, NEW day \in Int, NEW x \in Int, NEW off \in Int,
           D * day - D =< x, x < D * day + 2 * D,
           x < D * day => off = -D, x >= D * day + D => off = D
    PROVE  MadeUp(x, D, day, off) = x - D * day
<1>1. PICK start \in Int : start = D * day
  BY SMT
<1>2. CASE start =< x /\ x < start + D
  <2>1. x \div D = day /\ x % D = x - start
    <3>1. InPeriod(x, D, day)
      BY <1>1, <1>2 DEF InPeriod
    <3> QED
      BY <1>1, <3>1, Within
  <2> QED
    BY <1>1, <2>1 DEF MadeUp
<1>3. CASE x < start
  <2>1. PICK q \in Int : q = day - 1
    OBVIOUS
  <2>2. D * q = start - D
    BY <1>1, <2>1, SMT
  <2>3. InPeriod(x, D, q)
    BY <1>1, <1>3, <2>2 DEF InPeriod
  <2>4. x \div D = q
    BY <2>3, Within
  <2>5. x % D = x - D * q
    BY <2>3, Within
  <2> QED
    BY <1>1, <1>3, <2>1, <2>2, <2>4, <2>5 DEF MadeUp
<1>4. CASE x >= start + D
  <2>1. PICK q \in Int : q = day + 1
    OBVIOUS
  <2>2. D * q = start + D
    BY <1>1, <2>1, SMT
  <2>3. InPeriod(x, D, q)
    BY <1>1, <1>4, <2>2 DEF InPeriod
  <2>4. x \div D = q
    BY <2>3, Within
  <2>5. x % D = x - D * q
    BY <2>3, Within
  <2> QED
    BY <1>1, <1>4, <2>1, <2>2, <2>4, <2>5 DEF MadeUp
<1> QED
  BY <1>1, <1>2, <1>3, <1>4

\* What the clock shows at the time a booking is dated to, from the day it's
\* for.
LEMMA ShownIs ==
    ASSUME zone \in Zones, NEW day \in Int, NEW hm \in Clocks, NEW t, t = Date(day * DayLength + hm)
    PROVE  Shown(t, day) = Local(t) - day * DayLength
<1>1. PICK half \in Int : half = DayLength \div 2 /\ 2 * half =< DayLength /\ DayLength =< 2 * half + 1
  BY WhenConstants
<1>2. PICK start \in Int : start = DayLength * day /\ start = day * DayLength
  BY WhenConstants, SMT
<1>3. PICK noon \in Int : noon = Date(start + half) /\ DayOf(noon) = day
  BY <1>1, <1>2, NoonIs
<1>4. PICK b \in Int, a \in Int, c \in Int, D \in Nat \ {0} :
        b = zone.before /\ a = zone.after /\ c = zone.change /\ D = DayLength
  BY ZoneIs
<1>5. /\ 2 * (a - b) < D /\ 2 * (b - a) < D /\ hm \in 0..(D - 1)
  BY <1>4, ZoneIs DEF Clocks
<1>6. /\ t \in Int
      /\ \/ t = start + hm - b /\ t < c
         \/ t = start + hm - a /\ t >= c
         \/ /\ c + b =< start + hm /\ start + hm < c + a
            /\ \/ t = start + hm - a /\ t < c
               \/ t = start + hm - b /\ t >= c
  BY <1>2, <1>4, <1>5, DateIs
<1>7. \/ noon = start + half - b /\ noon < c
      \/ noon = start + half - a /\ noon >= c
      \/ /\ c + b =< start + half /\ start + half < c + a
         /\ \/ noon = start + half - a /\ noon < c
            \/ noon = start + half - b /\ noon >= c
  BY <1>1, <1>2, <1>3, <1>4, DateIs
<1>8. PICK local \in Int : local = Local(t) /\ local = t + IF t < c THEN b ELSE a
  BY <1>4, <1>6 DEF Local, OffsetAt
<1>9. local >= start - D /\ local < start + 2 * D
  BY <1>5, <1>6, <1>8
<1>10. PICK off \in Int : off = IF t < noon THEN -D ELSE D
  BY <1>4
<1>11. Shown(t, day) = MadeUp(local, D, day, off)
  BY <1>1, <1>2, <1>3, <1>4, <1>8, <1>10 DEF Shown, DayOf, MadeUp
<1>12. (local < start => off = -D) /\ (local >= start + D => off = D)
  BY <1>1, <1>4, <1>5, <1>6, <1>7, <1>8, <1>10
<1>13. /\ D * day - D =< local /\ local < D * day + 2 * D
       /\ local < D * day => off = -D
       /\ local >= D * day + D => off = D
  BY <1>2, <1>4, <1>8, <1>9, <1>12
<1>14. MadeUp(local, D, day, off) = local - D * day
  BY <1>13, Counted, Zenon
<1> QED
  BY <1>2, <1>4, <1>8, <1>11, <1>14

StartOf(day) == day * DayLength

\* The time of a day's run: what the clock is to show, or as long after as
\* the clocks skip; either way it is the local time by one of the offsets.
LEMMA AtIs ==
    ASSUME zone \in Zones, when.clock \in Clocks, NEW day \in Int
    PROVE  /\ At(day) \in Int
           /\ \/ At(day) = StartOf(day) + when.clock - zone.before /\ At(day) < zone.change
              \/ At(day) = StartOf(day) + when.clock - zone.after /\ At(day) >= zone.change
              \/ /\ Skipped(day)
                 /\ At(day) = StartOf(day) + when.clock - zone.before /\ At(day) >= zone.change
<1>1. PICK start \in Int : start = day * DayLength
  BY WhenConstants, SMT
<1>2. PICK b \in Int, a \in Int, c \in Int : b = zone.before /\ a = zone.after /\ c = zone.change
  BY ZoneIs
<1>3. PICK hm \in Int : hm = when.clock
  BY WhenConstants DEF Clocks
<1>4. PICK l \in Int : l = start + hm
  BY <1>1, <1>3
<1>5. PICK t \in Int : t = AsDated(day)
  BY <1>1, <1>3, DateIs DEF AsDated
<1>6. \/ t = l - b /\ t < c
      \/ t = l - a /\ t >= c
      \/ /\ c + b =< l /\ l < c + a
         /\ \/ t = l - a /\ t < c
            \/ t = l - b /\ t >= c
  BY <1>1, <1>2, <1>3, <1>4, <1>5, DateIs DEF AsDated
<1>7. Shown(t, day) = Local(t) - start
  BY <1>1, <1>5, ShownIs DEF AsDated
<1>8. PICK local \in Int : local = Local(t) /\ local = t + IF t < c THEN b ELSE a
  BY <1>2, <1>5 DEF Local, OffsetAt
<1>9. At(day) = IF local - start < hm THEN t + (hm - (local - start)) ELSE t
  BY <1>3, <1>5, <1>7, <1>8 DEF At
<1>10. Skipped(day) <=> c + b =< l /\ l < c + a
  BY <1>1, <1>2, <1>3, <1>4 DEF Skipped
<1>11. /\ At(day) \in Int
       /\ \/ At(day) = l - b /\ At(day) < c
          \/ At(day) = l - a /\ At(day) >= c
          \/ c + b =< l /\ l < c + a /\ At(day) = l - b /\ At(day) >= c
  BY <1>4, <1>6, <1>8, <1>9
<1>12. StartOf(day) = start
  BY <1>1 DEF StartOf
<1> QED
  BY <1>2, <1>3, <1>4, <1>10, <1>11, <1>12

(***************************************************************************)
(* Days and their runs.                                                    *)
(***************************************************************************)
\* A day starts somewhere, and a clock shows a time within it.
LEMMA StartIs ==
    ASSUME NEW day \in Int
    PROVE  StartOf(day) \in Int /\ DayLength \in Nat /\ DayLength > 0
BY WhenConstants, SMT DEF StartOf

LEMMA ClockIs ==
    ASSUME when.clock \in Clocks
    PROVE  when.clock \in Int /\ 0 =< when.clock /\ when.clock < DayLength
BY WhenConstants DEF Clocks

\* Days follow each other.
LEMMA StartsApart ==
    ASSUME NEW p \in Int, NEW q \in Int
    PROVE  /\ StartOf(p) \in Int
           /\ p < q => StartOf(p) + DayLength =< StartOf(q)
<1>1. StartOf(p) = DayLength * p /\ StartOf(q) = DayLength * q
  BY WhenConstants, SMT DEF StartOf
<1>2. StartOf(p) \in Int
  BY WhenConstants, SMT DEF StartOf
<1>3. ASSUME p < q PROVE StartOf(p) + DayLength =< StartOf(q)
  <2>1. DayLength * p + DayLength =< DayLength * q
    BY <1>3, WhenConstants, Apart
  <2> QED
    BY <1>1, <2>1
<1> QED
  BY <1>2, <1>3

\* A day lasts from its start to the next one's.
LEMMA WithinDay ==
    ASSUME NEW x \in Int
    PROVE  /\ x \div DayLength \in Int
           /\ StartOf(x \div DayLength) =< x /\ x < StartOf(x \div DayLength) + DayLength
<1>1. PICK day \in Int : day = x \div DayLength /\ DayLength * day =< x /\ x < DayLength * day + DayLength
  BY WhenConstants, Divided
<1>2. StartOf(day) = DayLength * day
  BY WhenConstants, SMT DEF StartOf
<1> QED
  BY <1>1, <1>2

\* What comes later is on no earlier a day.
LEMMA DaysInOrder ==
    ASSUME NEW x \in Int, NEW y \in Int, x =< y
    PROVE  x \div DayLength =< y \div DayLength
<1>1. PICK p \in Int, q \in Int : p = x \div DayLength /\ q = y \div DayLength
  BY WithinDay
<1>2. StartOf(p) =< x /\ y < StartOf(q) + DayLength
  BY <1>1, WithinDay
<1>3. ~(q < p)
  <2> SUFFICES ASSUME q < p PROVE FALSE
    OBVIOUS
  <2>1. StartOf(q) + DayLength =< StartOf(p) /\ StartOf(p) \in Int /\ StartOf(q) \in Int /\ DayLength \in Int
    BY StartsApart, WhenConstants
  <2> QED
    BY <1>2, <2>1
<1> QED
  BY <1>1, <1>3

\* Offsets.
LEMMA LocalIs ==
    ASSUME zone \in Zones, NEW t \in Int
    PROVE  /\ Local(t) \in Int
           /\ Local(t) = t + (IF t < zone.change THEN zone.before ELSE zone.after)
           /\ t - DayLength =< Local(t) /\ Local(t) =< t + DayLength
           /\ DayOf(t) \in Int /\ StartOf(DayOf(t)) =< Local(t) /\ Local(t) < StartOf(DayOf(t)) + DayLength
<1>1. /\ Local(t) \in Int
      /\ Local(t) = t + (IF t < zone.change THEN zone.before ELSE zone.after)
      /\ t - DayLength =< Local(t) /\ Local(t) =< t + DayLength
  BY ZoneIs DEF Local, OffsetAt
<1> QED
  BY <1>1, WithinDay DEF DayOf

\* The runs of two days are in the days' order.
LEMMA RunsInOrder ==
    ASSUME zone \in Zones, when.clock \in Clocks, NEW d \in Int, NEW e \in Int, d < e
    PROVE  At(d) < At(e)
<1>1. StartOf(d) \in Int /\ StartOf(e) \in Int /\ StartOf(d) + DayLength =< StartOf(e)
  BY StartsApart
<1>2. when.clock \in Int
  BY WhenConstants DEF Clocks
<1>3. /\ At(d) \in Int
      /\ At(d) = StartOf(d) + when.clock - zone.before \/ At(d) = StartOf(d) + when.clock - zone.after
  BY AtIs
<1>4. /\ At(e) \in Int
      /\ At(e) = StartOf(e) + when.clock - zone.before \/ At(e) = StartOf(e) + when.clock - zone.after
  BY AtIs
<1> QED
  BY <1>1, <1>2, <1>3, <1>4, ZoneIs

\* The clock at a run: the time booked, or past it by the gap.
LEMMA RunShows ==
    ASSUME zone \in Zones, when.clock \in Clocks, NEW day \in Int
    PROVE  /\ Local(At(day)) = StartOf(day) + when.clock + (IF Skipped(day) THEN Gap ELSE 0)
           /\ Skipped(day) => Gap \in 1..DayLength /\ 2 * Gap < DayLength
<1>1. PICK s \in Int, k \in Int, b \in Int, a \in Int, c \in Int, t \in Int :
        s = StartOf(day) /\ k = when.clock /\ b = zone.before /\ a = zone.after /\ c = zone.change /\ t = At(day)
  BY StartIs, ClockIs, AtIs, ZoneIs
<1>2. Skipped(day) <=> c + b =< s + k /\ s + k < c + a
  BY <1>1 DEF Skipped, StartOf
<1>3. \/ t = s + k - b /\ t < c
      \/ t = s + k - a /\ t >= c
      \/ Skipped(day) /\ t = s + k - b /\ t >= c
  BY <1>1, AtIs
<1>4. Local(At(day)) = t + (IF t < c THEN b ELSE a)
  BY <1>1, LocalIs
<1>5. Gap = a - b /\ 2 * (a - b) < DayLength /\ DayLength \in Nat
  BY <1>1, ZoneIs DEF Gap
<1> QED
  BY <1>1, <1>2, <1>3, <1>4, <1>5

\* So it is on the day, or, skipped to after midnight, on the next.
LEMMA RunsDay ==
    ASSUME zone \in Zones, when.clock \in Clocks, NEW day \in Int
    PROVE  DayOf(At(day)) = day \/ DayOf(At(day)) = day + 1
<1>1. PICK t \in Int, e \in Int : t = At(day) /\ e = DayOf(At(day))
  BY AtIs, LocalIs
<1>2. StartOf(e) =< Local(t) /\ Local(t) < StartOf(e) + DayLength /\ Local(t) \in Int
  BY <1>1, LocalIs
<1>3. PICK s \in Int, k \in Int, g \in Int :
        s = StartOf(day) /\ k = when.clock /\ g = IF Skipped(day) THEN Gap ELSE 0
  BY StartIs, ClockIs, StartIs, RunShows
<1>4. Local(t) = s + k + g /\ 0 =< k /\ k < DayLength /\ 0 =< g /\ g < DayLength /\ DayLength \in Nat
  BY <1>1, <1>3, RunShows, StartIs, ClockIs
<1>5. ~(e < day)
  <2> SUFFICES ASSUME e < day PROVE FALSE
    OBVIOUS
  <2>1. StartOf(e) + DayLength =< s /\ StartOf(e) \in Int
    BY <1>3, StartsApart
  <2> QED
    BY <1>2, <1>4, <2>1
<1>6. ~(day + 1 < e)
  <2> SUFFICES ASSUME day + 1 < e PROVE FALSE
    OBVIOUS
  <2>1. PICK next \in Int : next = day + 1
    OBVIOUS
  <2>2. s + DayLength =< StartOf(next) /\ StartOf(next) \in Int
    BY <1>3, <2>1, StartsApart
  <2>3. StartOf(next) + DayLength =< StartOf(e) /\ StartOf(e) \in Int
    BY <2>1, StartsApart
  <2> QED
    BY <1>2, <1>4, <2>2, <2>3
<1> QED
  BY <1>1, <1>5, <1>6

\* A later day's run is still to come.
LEMMA LaterDayToCome ==
    ASSUME zone \in Zones, when.clock \in Clocks, NEW from \in Int, NEW day \in Int, DayOf(from) < day
    PROVE  At(day) > from
<1>1. PICK s \in Int, k \in Int, b \in Int, a \in Int, c \in Int, t \in Int, p \in Int :
        /\ s = StartOf(day) /\ k = when.clock /\ b = zone.before /\ a = zone.after /\ c = zone.change
        /\ t = At(day) /\ p = DayOf(from)
  BY StartIs, ClockIs, AtIs, ZoneIs, LocalIs
<1>2. Local(from) = from + (IF from < c THEN b ELSE a) /\ Local(from) < StartOf(p) + DayLength
  BY <1>1, LocalIs
<1>3. StartOf(p) + DayLength =< s /\ StartOf(p) \in Int /\ DayLength \in Nat /\ k >= 0
  BY <1>1, StartsApart, StartIs, ClockIs
<1>4. (t = s + k - b /\ t < c) \/ (t = s + k - a /\ t >= c) \/ (t = s + k - b /\ t >= c /\ a > b)
  BY <1>1, AtIs, RunShows DEF Gap
<1>5. SUFFICES ASSUME t =< from PROVE FALSE
  BY <1>1
<1>6. t = s + k - b /\ t < c /\ from >= c /\ a < b
  BY <1>1, <1>2, <1>3, <1>4, <1>5
<1>7. c + a =< Local(from) /\ s =< c + b - 1 /\ Local(from) \in Int
  BY <1>2, <1>3, <1>6
<1>8. (c + a) \div DayLength =< p
  BY <1>1, <1>7, DaysInOrder DEF DayOf
<1>9. day =< (c + b - 1) \div DayLength
  <2>1. PICK x \in Int, q \in Int : x = c + b - 1 /\ q = x \div DayLength
    BY WithinDay
  <2>2. x < StartOf(q) + DayLength /\ StartOf(q) \in Int
    BY <2>1, WithinDay, StartsApart
  <2>3. ~(q < day)
    <3> SUFFICES ASSUME q < day PROVE FALSE
      OBVIOUS
    <3>1. StartOf(q) + DayLength =< s
      BY <1>1, StartsApart
    <3> QED
      BY <1>3, <1>7, <2>1, <2>2, <3>1
  <2> QED
    BY <2>1, <2>3
<1>10. (c + a) \div DayLength = (c + b - 1) \div DayLength
  BY <1>1, <1>6, ZonesAssumption
<1>11. (c + a) \div DayLength \in Int
  BY <1>1, WithinDay
<1> QED
  BY <1>1, <1>8, <1>9, <1>10, <1>11

\* An earlier day's can be only if it was skipped to after midnight.
LEMMA EarlierDayToCome ==
    ASSUME zone \in Zones, when.clock \in Clocks, NEW from \in Int, NEW day \in Int,
           day < DayOf(from), from < At(day)
    PROVE  PastMidnight(day)
<1>1. PICK b \in Int, a \in Int, c \in Int, t \in Int, p \in Int :
        /\ b = zone.before /\ a = zone.after /\ c = zone.change /\ t = At(day) /\ p = DayOf(from)
  BY AtIs, ZoneIs, LocalIs
<1>2. SUFFICES ASSUME DayOf(t) = day PROVE FALSE
  BY <1>1 DEF PastMidnight
<1>3. Local(from) = from + (IF from < c THEN b ELSE a) /\ StartOf(p) =< Local(from)
  BY <1>1, LocalIs
<1>4. Local(t) = t + (IF t < c THEN b ELSE a) /\ Local(t) < StartOf(day) + DayLength
  BY <1>1, <1>2, LocalIs
<1>5. StartOf(day) + DayLength =< StartOf(p) /\ StartOf(p) \in Int /\ StartOf(day) \in Int /\ DayLength \in Nat
  BY <1>1, StartsApart, WhenConstants
<1>6. from < c /\ t >= c /\ a < b
  BY <1>1, <1>3, <1>4, <1>5
<1>7. c + a =< Local(t) /\ Local(from) =< c + b - 1 /\ Local(t) \in Int /\ Local(from) \in Int
  BY <1>1, <1>3, <1>4, <1>6
<1>8. (c + a) \div DayLength =< day
  BY <1>2, <1>7, DaysInOrder DEF DayOf
<1>9. p =< (c + b - 1) \div DayLength
  BY <1>1, <1>7, DaysInOrder DEF DayOf
<1>10. (c + a) \div DayLength = (c + b - 1) \div DayLength
  BY <1>1, <1>6, ZonesAssumption
<1>11. (c + a) \div DayLength \in Int
  BY <1>1, WithinDay
<1> QED
  BY <1>1, <1>8, <1>9, <1>10, <1>11

(***************************************************************************)
(* The instants asked of, and their days.                                  *)
(***************************************************************************)
\* Up to two days off the bounds is within a day of theirs.
LEMMA BoundsDays ==
    ASSUME NEW x \in Int, From - DayLength =< x, x =< Until + DayLength,
           NEW day \in Int, StartOf(day) =< x, x < StartOf(day) + DayLength
    PROVE  day \in Days
<1>1. From \in Nat /\ Until \in Nat /\ DayLength \in Nat
  BY WhenConstants
<1>2. PICK f \in Int, u \in Int : f = From \div DayLength /\ u = Until \div DayLength
  <2>1. From \in Int /\ Until \in Int
    BY <1>1
  <2>2. From \div DayLength \in Int
    BY <2>1, WithinDay
  <2>3. Until \div DayLength \in Int
    BY <2>1, WithinDay
  <2> QED
    BY <2>2, <2>3
<1>3. StartOf(f) =< From /\ Until < StartOf(u) + DayLength /\ StartOf(f) \in Int /\ StartOf(u) \in Int
  BY <1>1, <1>2, WithinDay, StartIs
<1>4. ~(day + 1 < f)
  <2> SUFFICES ASSUME day + 1 < f PROVE FALSE
    OBVIOUS
  <2>1. PICK next \in Int : next = day + 1
    OBVIOUS
  <2>2. StartOf(day) + DayLength =< StartOf(next) /\ StartOf(next) + DayLength =< StartOf(f)
    BY <1>2, <2>1, StartsApart
  <2>3. StartOf(day) \in Int /\ StartOf(next) \in Int
    BY <2>1, StartIs
  <2> QED
    BY <1>1, <1>3, <2>2, <2>3
<1>5. ~(u + 1 < day)
  <2> SUFFICES ASSUME u + 1 < day PROVE FALSE
    OBVIOUS
  <2>1. PICK next \in Int : next = u + 1
    OBVIOUS
  <2>2. StartOf(u) + DayLength =< StartOf(next) /\ StartOf(next) + DayLength =< StartOf(day)
    BY <1>2, <2>1, StartsApart
  <2>3. StartOf(day) \in Int /\ StartOf(next) \in Int
    BY <2>1, StartIs
  <2> QED
    BY <1>1, <1>3, <2>2, <2>3
<1> QED
  BY <1>2, <1>4, <1>5 DEF Days

\* An instant within the bounds, and a run, is of one of the days.
LEMMA InDays ==
    ASSUME zone \in Zones, NEW t \in From..Until
    PROVE  DayOf(t) \in Days
<1>1. t \in Int /\ From =< t /\ t =< Until /\ DayLength \in Nat /\ From \in Nat /\ Until \in Nat
  BY WhenConstants
<1>2. PICK x \in Int, day \in Int : x = Local(t) /\ day = DayOf(t)
  BY <1>1, LocalIs
<1>3. t - DayLength =< x /\ x =< t + DayLength /\ StartOf(day) =< x /\ x < StartOf(day) + DayLength
  BY <1>1, <1>2, LocalIs
<1>4. From - DayLength =< x /\ x =< Until + DayLength
  BY <1>1, <1>3
<1> QED
  BY <1>2, <1>3, <1>4, BoundsDays

LEMMA RunInDays ==
    ASSUME zone \in Zones, when.clock \in Clocks, NEW day \in Int, At(day) \in From..Until
    PROVE  day \in Days
<1>1. PICK t \in Int, s \in Int, k \in Int, b \in Int, a \in Int :
        t = At(day) /\ s = StartOf(day) /\ k = when.clock /\ b = zone.before /\ a = zone.after
  BY AtIs, StartIs, ClockIs, ZoneIs
<1>2. From =< t /\ t =< Until /\ DayLength \in Nat /\ From \in Nat /\ Until \in Nat
  BY <1>1, WhenConstants
<1>3. t = s + k - b \/ t = s + k - a
  BY <1>1, AtIs
<1>4. -DayLength =< b /\ b =< DayLength /\ -DayLength =< a /\ a =< DayLength
  BY <1>1, ZoneIs
<1>5. PICK x \in Int : x = s + k
  OBVIOUS
<1>6. From - DayLength =< x /\ x =< Until + DayLength
  BY <1>2, <1>3, <1>4, <1>5
<1>7. s =< x /\ x < s + DayLength
  BY <1>1, <1>2, <1>5, ClockIs
<1> QED
  BY <1>1, <1>6, <1>7, BoundsDays

(***************************************************************************)
(* The first run after an instant.                                         *)
(***************************************************************************)
\* Of two days of which the later is to come, and that have none booked
\* between or, from the instant's on, before, the earlier whose run is to
\* come.
LEMMA FirstOfIs ==
    ASSUME zone \in Zones, when.clock \in Clocks, NEW from \in Int, NEW d0 \in Int, NEW d1 \in Int,
           DayOf(from) < d1, d0 < d1,
           \A d \in Days : (Booked(d) /\ DayOf(from) =< d /\ d < d1) => d = d0
    PROVE  \E e \in {d0, d1} :
              /\ FirstOf(d0, d1, from) = At(e) /\ At(e) > from
              /\ \A d \in Days : (Booked(d) /\ DayOf(from) =< d /\ from < At(d)) => ~(At(d) < At(e))
<1>1. At(d1) > from
  BY LaterDayToCome
<1>2. PICK e \in {d0, d1} : FirstOf(d0, d1, from) = At(e) /\ At(e) > from /\ (e # d0 => ~(At(d0) > from))
  BY <1>1 DEF FirstOf, After
<1>3. ASSUME NEW d \in Days, Booked(d), DayOf(from) =< d, from < At(d), At(d) < At(e) PROVE FALSE
  <2>1. d \in Int /\ e \in Int /\ At(d) \in Int /\ At(e) \in Int /\ At(d0) \in Int
    BY AtIs, WhenConstants DEF Days
  <2>2. d < e
    <3>1. ~(e < d)
      <4> SUFFICES ASSUME e < d PROVE FALSE
        OBVIOUS
      <4>1. At(e) < At(d)
        BY <2>1, RunsInOrder
      <4> QED
        BY <1>3, <2>1, <4>1
    <3>2. d # e
      BY <1>3, <2>1
    <3> QED
      BY <2>1, <3>1, <3>2
  <2>3. d < d1
    <3>1. CASE e = d1
      BY <2>2, <3>1
    <3>2. CASE e = d0
      BY <2>1, <2>2, <3>2
    <3> QED
      BY <1>2, <3>1, <3>2
  <2>4. d = d0
    BY <1>3, <2>3
  <2> QED
    BY <1>2, <1>3, <2>1, <2>2, <2>4
<1> QED
  BY <1>2, <1>3

(***************************************************************************)
(* Weekdays.                                                               *)
(***************************************************************************)
\* Days of one weekday are weeks apart.
LEMMA WeeksApart ==
    ASSUME NEW p \in Int, NEW q \in Int, WeekdayOf(p) = WeekdayOf(q), p < q
    PROVE  p + WeekLength =< q
<1>1. PICK a \in Int, b \in Int, r \in Int :
        a = p \div WeekLength /\ b = q \div WeekLength /\ r = WeekdayOf(p) /\ r = WeekdayOf(q)
  <2>1. p \div WeekLength \in Int /\ WeekdayOf(p) \in Int
    BY WhenConstants, Divided DEF WeekdayOf
  <2>2. q \div WeekLength \in Int
    BY WhenConstants, Divided
  <2> QED
    BY <2>1, <2>2
<1>2. p = WeekLength * a + r
  BY <1>1, WhenConstants, Divided DEF WeekdayOf
<1>3. q = WeekLength * b + r
  BY <1>1, WhenConstants, Divided DEF WeekdayOf
<1>4. PICK x \in Int, y \in Int : x = WeekLength * a /\ y = WeekLength * b
  BY WhenConstants, SMT
<1>5. p = x + r /\ q = y + r
  BY <1>2, <1>3, <1>4
<1>6. ~(b < a)
  <2> SUFFICES ASSUME b < a PROVE FALSE
    OBVIOUS
  <2>1. y + WeekLength =< x
    BY <1>4, WhenConstants, Apart
  <2> QED
    BY <1>5, <2>1, WhenConstants
<1>7. a # b
  BY <1>4, <1>5
<1>8. a < b
  BY <1>6, <1>7
<1>9. x + WeekLength =< y
  BY <1>4, <1>8, WhenConstants, Apart
<1> QED
  BY <1>5, <1>9, WhenConstants

\* A number, plus whole weeks, is of the weekday it was.
LEMMA WholeWeeks ==
    ASSUME NEW q \in Int, NEW r \in 0..(WeekLength - 1)
    PROVE  WeekdayOf(WeekLength * q + r) = r
<1>1. PICK x \in Int, y \in Int : y = WeekLength * q /\ x = WeekLength * q + r
  BY WhenConstants, SMT
<1>2. x % WeekLength = r
  <2>1. InPeriod(x, WeekLength, q)
    BY <1>1, WhenConstants DEF InPeriod
  <2>2. x % WeekLength = x - WeekLength * q
    BY <2>1, WhenConstants, Within
  <2> QED
    BY <1>1, <2>2, WhenConstants
<1> QED
  BY <1>1, <1>2 DEF WeekdayOf

\* The day NextWeekly counts to is the first of the weekday, and the one a
\* week later is the next.
WeekdayFrom(d, wd) == d + ((wd - WeekdayOf(d)) % WeekLength)

LEMMA WeeklyIs ==
    ASSUME NEW d \in Int, NEW wd \in 0..(WeekLength - 1)
    PROVE  /\ WeekdayFrom(d, wd) \in Int
           /\ d =< WeekdayFrom(d, wd) /\ WeekdayFrom(d, wd) < d + WeekLength
           /\ WeekdayOf(WeekdayFrom(d, wd)) = wd /\ WeekdayOf(WeekdayFrom(d, wd) + WeekLength) = wd
           /\ \A f \in Int : (WeekdayOf(f) = wd /\ d =< f /\ f < WeekdayFrom(d, wd) + WeekLength)
                 => f = WeekdayFrom(d, wd)
<1>1. PICK a \in Int, r \in Int : a = d \div WeekLength /\ r = WeekdayOf(d) /\ r \in 0..(WeekLength - 1)
  <2>1. d \div WeekLength \in Int
    BY WhenConstants, Divided
  <2>2. WeekdayOf(d) \in 0..(WeekLength - 1)
    BY WhenConstants, Divided DEF WeekdayOf
  <2> QED
    BY <2>1, <2>2, WhenConstants
<1>2. d = WeekLength * a + r
  BY <1>1, WhenConstants, Divided DEF WeekdayOf
<1>3. PICK g \in Int : g = wd - r
  BY <1>1
<1>4. PICK b \in Int, k \in 0..(WeekLength - 1) : b = g \div WeekLength /\ k = g % WeekLength
  BY WhenConstants, Divided
<1>5. g = WeekLength * b + k
  BY <1>4, WhenConstants, Divided
<1>6. PICK W \in Nat \ {0} : W = WeekLength
  BY WhenConstants
<1>7. PICK e \in Int : e = WeekdayFrom(d, wd) /\ e = d + k /\ d =< e /\ e < d + W
  BY <1>1, <1>3, <1>4, <1>6 DEF WeekdayFrom
<1>8. e = W * (a - b) + wd
  <2>1. PICK x \in Int, y \in Int : x = W * a /\ y = W * b
    BY SMT
  <2>2. W * (a - b) = x - y
    BY <2>1, SMT
  <2>3. d = x + r /\ wd - r = y + k
    BY <1>2, <1>3, <1>5, <1>6, <2>1
  <2>4. wd \in Int /\ k \in Int
    BY <1>6
  <2>5. e = x - y + wd
    BY <1>7, <2>3, <2>4
  <2> QED
    BY <2>2, <2>5
<1>9. WeekdayOf(e) = wd
  <2>1. PICK q \in Int : q = a - b
    OBVIOUS
  <2> QED
    BY <1>6, <1>8, <2>1, WholeWeeks
<1>10. WeekdayOf(e + WeekLength) = wd
  <2>1. PICK q \in Int : q = a - b + 1
    OBVIOUS
  <2>2. W * q = W * (a - b) + W
    BY <2>1, SMT
  <2>3. PICK x \in Int : x = W * (a - b)
    BY SMT
  <2>4. e + W = W * q + wd
    BY <1>8, <2>2, <2>3
  <2> QED
    BY <1>6, <2>1, <2>4, WholeWeeks
<1>11. ASSUME NEW f \in Int, WeekdayOf(f) = wd, d =< f, f < e + W PROVE f = e
  <2>1. ~(f < e)
    BY <1>6, <1>7, <1>9, <1>11, WeeksApart
  <2>2. ~(e < f)
    BY <1>6, <1>7, <1>9, <1>11, WeeksApart
  <2> QED
    BY <1>7, <2>1, <2>2
<1> QED
  BY <1>6, <1>7, <1>9, <1>10, <1>11

(***************************************************************************)
(* Months.                                                                 *)
(***************************************************************************)
\* The first of some numbers.
LEMMA LeastOf ==
    ASSUME NEW T \in SUBSET Nat, T # {}
    PROVE  \E x \in T : \A y \in T : x =< y
<1> DEFINE R == OpToRel(<, Nat)
<1>1. \E x \in T : \A y \in T : <<y, x>> \notin R
  <2> HIDE DEF R
  <2>1. IsWellFoundedOn(R, Nat)
    BY NatLessThanWellFounded DEF R
  <2> QED
    BY <2>1, WFMin
<1>2. \A x, y \in Nat : <<y, x>> \in R <=> y < x
  BY DEF OpToRel
<1> HIDE DEF R
<1>3. PICK x \in T : \A y \in T : <<y, x>> \notin R
  BY <1>1
<1>4. ASSUME NEW y \in T
      PROVE  x =< y
  <2>1. x \in Nat /\ y \in Nat
    OBVIOUS
  <2>2. ~(y < x)
    BY <2>1, <1>2, <1>3
  <2> QED
    BY <2>1, <2>2
<1> QED
  BY <1>3, <1>4

\* The months begin one after the other.
LEMMA MonthsAre ==
           /\ Len(MonthStarts) \in Nat /\ Len(MonthStarts) > 1 /\ DOMAIN MonthStarts = 1..Len(MonthStarts)
           /\ \A m \in 1..Len(MonthStarts) : MonthStarts[m] \in Int
           /\ \A m, n \in 1..Len(MonthStarts) : m < n => MonthStarts[m] < MonthStarts[n]
BY CalendarAssumption

\* A day's month is the one it's in.
LEMMA MonthFound ==
    ASSUME NEW m \in Months, NEW day \in Int, MonthStarts[m] =< day, day < MonthStarts[m + 1]
    PROVE  MonthOf(day) = m
<1> DEFINE P(x) == x \in DOMAIN MonthStarts /\ MonthStarts[x] =< day
                   /\ \A n \in DOMAIN MonthStarts : n > x => day < MonthStarts[n]
<1>1. m \in DOMAIN MonthStarts /\ m + 1 \in DOMAIN MonthStarts /\ m \in Nat
  BY MonthsAre DEF Months
<1>2. P(m)
  <2> SUFFICES ASSUME NEW n \in DOMAIN MonthStarts, n > m PROVE day < MonthStarts[n]
    BY <1>1
  <2>1. n = m + 1 \/ m + 1 < n
    BY <1>1, MonthsAre
  <2> QED
    BY <1>1, <2>1, MonthsAre
<1>3. ASSUME NEW x, P(x) PROVE x = m
  <2>1. x \in Nat /\ MonthStarts[x] \in Int /\ MonthStarts[m] \in Int
    BY <1>1, <1>3, MonthsAre
  <2>2. ~(x < m)
    BY <1>1, <1>3, <2>1
  <2>3. ~(m < x)
    BY <1>1, <1>2, <1>3, <2>1
  <2> QED
    BY <1>1, <2>1, <2>2, <2>3
<1>4. MonthOf(day) = CHOOSE x : P(x)
  BY Zenon DEF MonthOf
<1> HIDE DEF P
<1> QED
  BY <1>2, <1>3, <1>4

\* Every day is in some month.
LEMMA MonthIs ==
    ASSUME NEW day \in Days
    PROVE  /\ MonthOf(day) \in Months
           /\ MonthStarts[MonthOf(day)] =< day /\ day < MonthStarts[MonthOf(day) + 1]
<1>1. PICK f \in Int, u \in Int : f = From \div DayLength /\ u = Until \div DayLength
  <2>1. From \in Int /\ Until \in Int
    BY WhenConstants
  <2>2. From \div DayLength \in Int
    BY <2>1, WithinDay
  <2>3. Until \div DayLength \in Int
    BY <2>1, WithinDay
  <2> QED
    BY <2>2, <2>3
<1>2. day \in Int /\ MonthStarts[1] =< day /\ day < MonthStarts[Len(MonthStarts)]
  BY <1>1, CalendarAssumption, MonthsAre DEF Days
<1> DEFINE T == {n \in DOMAIN MonthStarts : day < MonthStarts[n]}
<1>3. PICK n \in T : \A y \in T : n =< y
  <2>1. T \in SUBSET Nat
    BY MonthsAre
  <2>2. Len(MonthStarts) \in T
    BY <1>2, MonthsAre
  <2> HIDE DEF T
  <2> QED
    BY <2>1, <2>2, LeastOf
<1>4. n \in 1..Len(MonthStarts) /\ n \in Nat /\ n # 1 /\ day < MonthStarts[n]
  BY <1>2, <1>3, MonthsAre
<1>5. PICK m \in Months : n = m + 1
  <2>1. n - 1 \in Months /\ n = (n - 1) + 1
    BY <1>4, MonthsAre DEF Months
  <2> QED
    BY <2>1
<1>6. MonthStarts[m] =< day
  <2>1. m \in DOMAIN MonthStarts /\ m < n /\ m \in Nat
    BY <1>5, MonthsAre DEF Months
  <2>2. ~(m \in T)
    BY <1>3, <1>4, <2>1
  <2> QED
    BY <1>2, <2>1, <2>2, MonthsAre
<1>7. MonthOf(day) = m
  BY <1>2, <1>4, <1>5, <1>6, MonthFound
<1> QED
  BY <1>4, <1>5, <1>6, <1>7

(***************************************************************************)
(* What Next returns, for each kind of booking: a run of a day booked,     *)
(* that is to come, with no sooner one of a day from the instant's on.     *)
(***************************************************************************)
FirstFrom(e, from) ==
    /\ Booked(e) /\ NextRun(from) = At(e) /\ At(e) > from
    /\ \A d \in Days : (Booked(d) /\ DayOf(from) =< d /\ from < At(d)) => ~(At(d) < At(e))

WhenTypes == zone \in Zones /\ when \in Whens /\ now \in From..Until

LEMMA BookingIs ==
    ASSUME when \in Whens
    PROVE  /\ when.clock \in Clocks /\ when.repeat \in {"once", "daily", "weekly", "monthly"}
           /\ when.repeat = "once" => when.date \in Int
           /\ when.repeat = "weekly" => when.weekday \in 0..(WeekLength - 1)
           /\ when.repeat = "monthly" =>
                 when.day \in Nat /\ when.day > 0
                 /\ \A m \in Months : when.day =< MonthStarts[m + 1] - MonthStarts[m]
<1>1. CASE when.repeat = "once"
  <2>1. when.clock \in Clocks /\ when.date = (From + Until) \div (2 * DayLength)
    BY <1>1 DEF Whens
  <2>2. PICK x \in Int, y \in Nat \ {0} : x = From + Until /\ y = 2 * DayLength
    BY WhenConstants
  <2>3. x \div y \in Int
    BY Divided
  <2> QED
    BY <1>1, <2>1, <2>2, <2>3
<1>2. CASE when.repeat = "daily"
  BY <1>2 DEF Whens
<1>3. CASE when.repeat = "weekly"
  BY <1>3 DEF Whens
<1>4. CASE when.repeat = "monthly"
  <2>1. when.clock \in Clocks /\ when.day \in ValidDays
    BY <1>4 DEF Whens
  <2>2. when.day \in Nat /\ when.day > 0
    BY <2>1, MonthsAre DEF ValidDays, AnyDay
  <2>3. \A m \in Months : when.day =< MonthStarts[m + 1] - MonthStarts[m]
    BY <2>1 DEF ValidDays
  <2> QED
    BY <1>4, <2>1, <2>2, <2>3
<1>5. when.repeat \in {"once", "daily", "weekly", "monthly"}
  BY DEF Whens
<1> QED
  BY <1>1, <1>2, <1>3, <1>4, <1>5

\* The midnight a date is parsed to is of that date, unless the clocks skip it;
\* then it may be of the day before.
LEMMA OnceDayIs ==
    ASSUME zone \in Zones, when.repeat = "once", when.date \in Int
    PROVE  OnceDay = when.date \/ (NoMidnight /\ OnceDay = when.date - 1)
<1>1. PICK D \in Nat \ {0}, d \in Int : D = DayLength /\ d = when.date
  BY WhenConstants
<1>2. PICK l \in Int : l = d * DayLength /\ l = D * d
  BY <1>1, SMT
<1>3. PICK b \in Int, a \in Int, c \in Int :
        b = zone.before /\ a = zone.after /\ c = zone.change /\ 2 * (a - b) < D /\ 2 * (b - a) < D
  BY <1>1, ZoneIs
<1>4. PICK t \in Int : t = Date(l)
  BY <1>2, DateIs
<1>5. \/ t = l - b /\ t < c
      \/ t = l - a /\ t >= c
      \/ c + b =< l /\ l < c + a /\ t = l - a /\ t < c
      \/ c + b =< l /\ l < c + a /\ t = l - b /\ t >= c
  BY <1>2, <1>3, <1>4, DateIs
<1>6. PICK local \in Int : local = Local(t) /\ local = t + IF t < c THEN b ELSE a
  BY <1>3, <1>4 DEF Local, OffsetAt
<1>7. OnceDay = local \div D
  BY <1>1, <1>2, <1>4, <1>6 DEF OnceDay, DayOf
<1>8. \/ l =< local /\ local < l + D
      \/ c + b =< l /\ l < c + a /\ l - D =< local /\ local < l
  BY <1>3, <1>5, <1>6
<1>9. CASE l =< local /\ local < l + D
  <2>1. InPeriod(local, D, d)
    BY <1>2, <1>9 DEF InPeriod
  <2> QED
    BY <1>1, <1>7, <2>1, Within
<1>10. CASE c + b =< l /\ l < c + a /\ l - D =< local /\ local < l
  <2>1. PICK q \in Int : q = d - 1
    OBVIOUS
  <2>2. D * q = l - D
    BY <1>2, <2>1, SMT
  <2>3. InPeriod(local, D, q)
    BY <1>10, <2>2 DEF InPeriod
  <2>4. local \div D = q
    BY <2>3, Within
  <2>5. NoMidnight
    BY <1>1, <1>2, <1>3, <1>10 DEF NoMidnight
  <2> QED
    BY <1>1, <1>7, <2>1, <2>4, <2>5
<1> QED
  BY <1>8, <1>9, <1>10

LEMMA NextOnceIs ==
    ASSUME WhenTypes, NextRun(now) \in From..Until, when.repeat = "once"
    PROVE  NextRun(now) = At(OnceDay) /\ At(OnceDay) > now
<1>1. NextRun(now) = NextOnce(now)
  BY DEF NextRun
<1>2. NextRun(now) # NoRun
  BY WhenConstants DEF NoRun
<1> QED
  BY <1>1, <1>2 DEF NextOnce, After

\* A one-off of a day that has its midnight.
LEMMA NextOnDay ==
    ASSUME WhenTypes, NextRun(now) \in From..Until, when.repeat = "once", OnceDay = when.date
    PROVE  \E e \in Int : FirstFrom(e, now)
<1>1. when.date \in Int /\ now \in Int
  BY BookingIs, WhenConstants DEF WhenTypes
<1>2. NextRun(now) = At(when.date) /\ At(when.date) > now
  BY NextOnceIs
<1>3. \A d \in Days : Booked(d) <=> d = when.date
  BY DEF Booked
<1>4. At(when.date) \in Int
  BY <1>1, BookingIs, AtIs DEF WhenTypes
<1>5. FirstFrom(when.date, now)
  BY <1>2, <1>3, <1>4 DEF FirstFrom, Booked
<1> QED
  BY <1>1, <1>5

LEMMA NextDailyIs ==
    ASSUME WhenTypes, NextRun(now) \in From..Until, when.repeat = "daily"
    PROVE  \E e \in Int : FirstFrom(e, now)
<1>1. PICK d0 \in Int, d1 \in Int : d0 = DayOf(now) /\ d1 = d0 + 1
  BY LocalIs, WhenConstants DEF WhenTypes
<1>2. NextRun(now) = FirstOf(d0, d1, now)
  BY <1>1 DEF NextRun, NextDaily
<1>3. \A d \in Days : (Booked(d) /\ DayOf(now) =< d /\ d < d1) => d = d0
  BY <1>1, WhenConstants DEF Days
<1>4. zone \in Zones /\ when.clock \in Clocks /\ now \in Int /\ DayOf(now) < d1 /\ d0 < d1
  BY <1>1, BookingIs, WhenConstants DEF WhenTypes
<1>5. PICK e \in {d0, d1} :
         /\ FirstOf(d0, d1, now) = At(e) /\ At(e) > now
         /\ \A d \in Days : (Booked(d) /\ DayOf(now) =< d /\ now < At(d)) => ~(At(d) < At(e))
  BY <1>3, <1>4, FirstOfIs
<1>6. FirstFrom(e, now)
  BY <1>2, <1>5 DEF FirstFrom, Booked
<1> QED
  BY <1>6

LEMMA NextWeeklyIs ==
    ASSUME WhenTypes, NextRun(now) \in From..Until, when.repeat = "weekly"
    PROVE  \E e \in Int : FirstFrom(e, now)
<1>1. PICK p \in Int, wd \in 0..(WeekLength - 1), W \in Nat \ {0} :
        p = DayOf(now) /\ wd = when.weekday /\ W = WeekLength
  <2>1. now \in Int /\ zone \in Zones
    BY WhenConstants DEF WhenTypes
  <2>2. DayOf(now) \in Int
    BY <2>1, LocalIs
  <2>3. when.weekday \in 0..(WeekLength - 1)
    BY BookingIs DEF WhenTypes
  <2> QED
    BY <2>2, <2>3, WhenConstants
<1>2. PICK d0 \in Int : d0 = WeekdayFrom(p, wd)
  BY WeeklyIs
<1>3. /\ p =< d0 /\ d0 < p + W /\ WeekdayOf(d0) = wd
      /\ \A f \in Int : (WeekdayOf(f) = wd /\ p =< f /\ f < d0 + W) => f = d0
  BY <1>1, <1>2, WeeklyIs
<1>4. PICK d1 \in Int : d1 = d0 + WeekLength /\ WeekdayOf(d1) = wd
  <2>1. WeekdayOf(d0 + WeekLength) = wd
    BY <1>2, WeeklyIs
  <2>2. d0 + WeekLength \in Int
    BY WhenConstants
  <2> QED
    BY <2>1, <2>2
<1>5. NextRun(now) = FirstOf(d0, d1, now)
  BY <1>1, <1>2, <1>4 DEF NextRun, NextWeekly, WeekdayFrom
<1>6. \A d : Booked(d) <=> WeekdayOf(d) = wd
  BY <1>1 DEF Booked
<1>7. \A d \in Days : (Booked(d) /\ DayOf(now) =< d /\ d < d1) => d = d0
  BY <1>1, <1>3, <1>4, <1>6, WhenConstants DEF Days
<1>8. zone \in Zones /\ when.clock \in Clocks /\ now \in Int /\ DayOf(now) < d1 /\ d0 < d1
  BY <1>1, <1>3, <1>4, BookingIs, WhenConstants DEF WhenTypes
<1>9. PICK e \in {d0, d1} :
         /\ FirstOf(d0, d1, now) = At(e) /\ At(e) > now
         /\ \A d \in Days : (Booked(d) /\ DayOf(now) =< d /\ now < At(d)) => ~(At(d) < At(e))
  BY <1>7, <1>8, FirstOfIs
<1>10. FirstFrom(e, now)
  BY <1>3, <1>4, <1>5, <1>6, <1>9 DEF FirstFrom
<1> QED
  BY <1>10

LEMMA NextMonthlyIs ==
    ASSUME WhenTypes, NextRun(now) \in From..Until, when.repeat = "monthly"
    PROVE  \E e \in Int : FirstFrom(e, now)
<1> DEFINE DayIn(n) == MonthStarts[n] + when.day - 1
<1>1. DayOf(now) \in Days /\ zone \in Zones /\ when.clock \in Clocks /\ now \in Int
  BY InDays, BookingIs, WhenConstants DEF WhenTypes
<1>2. PICK p \in Int : p = DayOf(now)
  BY <1>1, WhenConstants DEF Days
<1>3. PICK m \in Months : m = MonthOf(p) /\ MonthStarts[m] =< p /\ p < MonthStarts[m + 1]
  BY <1>1, <1>2, MonthIs
<1>4. /\ when.day \in Nat /\ when.day > 0
      /\ \A n \in Months : /\ MonthStarts[n] \in Int /\ MonthStarts[n + 1] \in Int
                           /\ n \in 1..Len(MonthStarts) /\ n + 1 \in 1..Len(MonthStarts)
                           /\ MonthStarts[n] =< DayIn(n) /\ DayIn(n) < MonthStarts[n + 1] /\ DayIn(n) \in Int
  <2>1. \A n \in Months : n \in 1..Len(MonthStarts) /\ n + 1 \in 1..Len(MonthStarts)
    BY MonthsAre DEF Months
  <2>2. /\ when.day \in Nat /\ when.day > 0
        /\ \A n \in Months : when.day =< MonthStarts[n + 1] - MonthStarts[n]
    BY BookingIs DEF WhenTypes
  <2>3. \A n \in Months : MonthStarts[n] \in Int /\ MonthStarts[n + 1] \in Int
    BY <2>1, MonthsAre
  <2>4. ASSUME NEW n \in Months
        PROVE  MonthStarts[n] =< DayIn(n) /\ DayIn(n) < MonthStarts[n + 1] /\ DayIn(n) \in Int
    <3>1. PICK x \in Int, y \in Int, k \in Nat :
            x = MonthStarts[n] /\ y = MonthStarts[n + 1] /\ k = when.day /\ k > 0 /\ k =< y - x
      BY <2>2, <2>3
    <3> QED
      BY <3>1
  <2> HIDE DEF DayIn
  <2> QED
    BY <2>1, <2>2, <2>3, <2>4
<1>5. PICK d0 \in Int, d1 \in Int : d0 = DayIn(m) /\ d1 = DayIn(m + 1)
  BY <1>3, <1>4
<1>6. p < d1 /\ d0 < d1
  <2>1. PICK x \in Int, k \in Nat : x = MonthStarts[m + 1] /\ k = when.day /\ k > 0
    BY <1>4
  <2>2. d1 = x + k - 1 /\ d0 < x /\ p < x
    BY <1>3, <1>4, <1>5, <2>1
  <2> QED
    BY <2>1, <2>2
<1>7. NextRun(now) = FirstOf(d0, d1, now)
  BY <1>2, <1>3, <1>5 DEF NextRun, NextMonthly
<1>8. ASSUME NEW d \in Days
      PROVE  d \in Int /\ (Booked(d) <=> d = DayIn(MonthOf(d)))
  <2>1. d \in Int /\ MonthOf(d) \in Months
    BY MonthIs, WhenConstants DEF Days
  <2>2. PICK s \in Int, k \in Nat : s = MonthStarts[MonthOf(d)] /\ k = when.day
    BY <1>4, <2>1
  <2>3. Booked(d) <=> d - s + 1 = k
    BY <2>2 DEF Booked
  <2> QED
    BY <2>1, <2>2, <2>3
<1>9. ASSUME NEW d \in Days, Booked(d), p =< d, d < d1
      PROVE  d = d0
  <2>1. PICK n \in Months : n = MonthOf(d) /\ d = DayIn(n) /\ d < MonthStarts[n + 1] /\ d \in Int
    BY <1>8, <1>9, MonthIs
  <2>2. ~(n < m)
    <3> SUFFICES ASSUME n < m PROVE FALSE
      OBVIOUS
    <3>1. n + 1 = m \/ n + 1 < m
      BY <1>4
    <3>2. MonthStarts[n + 1] =< MonthStarts[m]
      BY <1>4, <3>1, MonthsAre
    <3>3. PICK x \in Int, y \in Int : x = MonthStarts[n + 1] /\ y = MonthStarts[m]
      BY <1>4
    <3> QED
      BY <1>3, <1>9, <2>1, <3>2, <3>3
  <2>3. ~(m < n)
    <3> SUFFICES ASSUME m < n PROVE FALSE
      OBVIOUS
    <3>1. m + 1 = n \/ m + 1 < n
      BY <1>4
    <3>2. MonthStarts[m + 1] =< MonthStarts[n]
      BY <1>4, <3>1, MonthsAre
    <3>3. PICK x \in Int, y \in Int, k \in Nat : x = MonthStarts[m + 1] /\ y = MonthStarts[n] /\ k = when.day
      BY <1>4
    <3>4. d1 = x + k - 1 /\ d = y + k - 1
      BY <1>5, <2>1, <3>3
    <3> QED
      BY <1>9, <3>2, <3>3, <3>4
  <2>4. n = m
    BY <2>2, <2>3, <1>4
  <2> QED
    BY <1>5, <2>1, <2>4
<1>10. PICK e \in {d0, d1} :
         /\ FirstOf(d0, d1, now) = At(e) /\ At(e) > now
         /\ \A d \in Days : (Booked(d) /\ DayOf(now) =< d /\ now < At(d)) => ~(At(d) < At(e))
  BY <1>1, <1>2, <1>6, <1>9, FirstOfIs
<1>11. e \in Days
  BY <1>1, <1>7, <1>10, RunInDays
<1>12. Booked(e)
  <2>1. CASE e = d0
    <3>1. MonthOf(e) = m
      BY <1>3, <1>4, <1>5, <2>1, MonthFound
    <3> QED
      BY <1>5, <1>8, <1>11, <2>1, <3>1
  <2>2. CASE e = d1
    <3>1. m + 1 \in Months
      <4>1. PICK n \in Months, L \in Nat : e < MonthStarts[n + 1] /\ L = Len(MonthStarts)
        BY <1>11, MonthIs, MonthsAre
      <4>2. n + 1 = L \/ n + 1 < L
        BY <1>4, <4>1
      <4>3. MonthStarts[n + 1] =< MonthStarts[L]
        <5>1. CASE n + 1 = L
          BY <1>4, <4>1, <5>1
        <5>2. CASE n + 1 < L
          <6>1. n + 1 \in 1..Len(MonthStarts) /\ L \in 1..Len(MonthStarts)
            BY <1>4, <4>1, MonthsAre
          <6>2. MonthStarts[n + 1] < MonthStarts[L] /\ MonthStarts[n + 1] \in Int /\ MonthStarts[L] \in Int
            BY <5>2, <6>1, MonthsAre
          <6> QED
            BY <6>2
        <5> QED
          BY <4>2, <5>1, <5>2
      <4>4. PICK x \in Int, y \in Int, k \in Nat :
              x = MonthStarts[n + 1] /\ y = MonthStarts[m + 1] /\ k = when.day /\ k > 0 /\ e = y + k - 1
        BY <1>4, <1>5, <2>2
      <4>5. MonthStarts[L] \in Int /\ e \in Int
        BY <4>1, MonthsAre
      <4>6. m + 1 # L
        <5> SUFFICES ASSUME m + 1 = L PROVE FALSE
          OBVIOUS
        <5>1. y = MonthStarts[L] /\ e < x /\ x =< y
          BY <4>1, <4>3, <4>4
        <5> QED
          BY <4>4, <4>5, <5>1
      <4> QED
        BY <1>4, <4>1, <4>6 DEF Months
    <3>2. MonthOf(e) = m + 1
      BY <1>4, <1>5, <2>2, <3>1, MonthFound
    <3> QED
      BY <1>5, <1>8, <1>11, <2>2, <3>2
  <2> QED
    BY <2>1, <2>2
<1>13. FirstFrom(e, now)
  BY <1>7, <1>10, <1>12 DEF FirstFrom
<1> QED
  BY <1>13

LEMMA NextIs ==
    ASSUME WhenTypes, NextRun(now) \in From..Until, when.repeat = "once" => OnceDay = when.date
    PROVE  \E e \in Int : e \in Days /\ FirstFrom(e, now)
<1>1. PICK e \in Int : FirstFrom(e, now)
  BY BookingIs, NextOnDay, NextDailyIs, NextWeeklyIs, NextMonthlyIs DEF WhenTypes
<1>2. e \in Days
  BY <1>1, BookingIs, RunInDays DEF WhenTypes, FirstFrom
<1> QED
  BY <1>1, <1>2

(***************************************************************************)
(* The properties, of every state and step.                                *)
(***************************************************************************)
LEMMA WhenTypesHolds == WhenSpec => []WhenTypes
<1>1. WhenInit => WhenTypes
  BY DEF WhenInit, WhenTypes
<1>2. WhenTypes /\ [Runs]_whenVars => WhenTypes'
  BY DEF WhenTypes, Runs, whenVars
<1> QED
  BY <1>1, <1>2, PTL DEF WhenSpec

\* A run is at the time of day booked, or past it by what the clocks skip,
\* whatever the zone's change (when.go At).
THEOREM RunsOnTimeHolds == WhenSpec => []RunsOnTime
<1>1. WhenTypes => RunsOnTime
  <2> SUFFICES ASSUME WhenTypes, NEW day \in Days
               PROVE  Local(At(day)) = day * DayLength + when.clock + (IF Skipped(day) THEN Gap ELSE 0)
    BY DEF RunsOnTime
  <2>1. day \in Int /\ zone \in Zones /\ when.clock \in Clocks
    BY BookingIs, WhenConstants DEF WhenTypes, Days
  <2> QED
    BY <2>1, RunShows DEF StartOf
<1> QED
  BY <1>1, WhenTypesHolds, PTL

\* Next returns the first run booked after an instant, from wherever in the
\* year it is asked; it passes over one only if that was skipped to after
\* midnight and is asked for since, and takes the day before only for a one-off
\* whose midnight the clocks skip (when.go Next).
THEOREM NextIsFirstHolds == WhenSpec => []NextIsFirst
<1> DEFINE IsFirst ==
      /\ NextRun(now) > now
      /\ NextRun(now) \in ToCome \/ (NoMidnight /\ NextRun(now) = At(when.date - 1))
      /\ \A day \in Days :
            (Booked(day) /\ now < At(day) /\ At(day) < NextRun(now)) =>
                PastMidnight(day) /\ DayOf(now) > day
<1>1. ASSUME WhenTypes, NextRun(now) \in From..Until, when.repeat = "once" => OnceDay = when.date
      PROVE  IsFirst
  <2>1. PICK e \in Int : e \in Days /\ FirstFrom(e, now)
    BY <1>1, NextIs
  <2>2. NextRun(now) = At(e) /\ At(e) > now /\ Booked(e)
    BY <2>1 DEF FirstFrom
  <2>3. NextRun(now) \in ToCome
    BY <2>1, <2>2 DEF ToCome
  <2>4. zone \in Zones /\ when.clock \in Clocks /\ now \in Int
    BY <1>1, BookingIs, WhenConstants DEF WhenTypes
  <2>5. ASSUME NEW day \in Days, Booked(day), now < At(day), At(day) < NextRun(now)
        PROVE  PastMidnight(day) /\ DayOf(now) > day
    <3>1. day \in Int /\ DayOf(now) \in Int
      BY <2>4, LocalIs, WhenConstants DEF Days
    <3>2. ~(DayOf(now) =< day)
      BY <2>1, <2>2, <2>5 DEF FirstFrom
    <3>3. day < DayOf(now)
      BY <3>1, <3>2
    <3>4. PastMidnight(day)
      BY <2>4, <2>5, <3>1, <3>3, EarlierDayToCome
    <3> QED
      BY <3>1, <3>3, <3>4
  <2> QED
    BY <2>2, <2>3, <2>5
<1>2. ASSUME WhenTypes, NextRun(now) \in From..Until, when.repeat = "once", OnceDay # when.date
      PROVE  IsFirst
  <2>1. zone \in Zones /\ when.clock \in Clocks /\ when.date \in Int
    BY <1>2, BookingIs DEF WhenTypes
  <2>2. NoMidnight /\ OnceDay = when.date - 1
    BY <1>2, <2>1, OnceDayIs
  <2>3. NextRun(now) = At(when.date - 1) /\ At(when.date - 1) > now
    BY <1>2, <2>2, NextOnceIs
  <2>4. At(when.date - 1) < At(when.date) /\ At(when.date - 1) \in Int /\ At(when.date) \in Int
    BY <2>1, RunsInOrder, AtIs
  <2>5. \A day \in Days : Booked(day) => day = when.date
    BY <1>2 DEF Booked
  <2>6. \A day \in Days : Booked(day) => ~(At(day) < NextRun(now))
    BY <2>3, <2>4, <2>5
  <2> QED
    BY <2>2, <2>3, <2>6
<1>3. ASSUME WhenTypes, when.repeat = "once", NextRun(now) = NoRun
      PROVE  At(when.date) =< now \/ NoMidnight
  <2>1. zone \in Zones /\ when.clock \in Clocks /\ when.date \in Int /\ now \in Int /\ now >= 0
    BY <1>3, BookingIs, WhenConstants DEF WhenTypes
  <2>2. CASE OnceDay = when.date
    <3>1. At(when.date) \in Int
      BY <2>1, AtIs
    <3>2. ~(At(when.date) > now)
      BY <1>3, <2>1, <2>2, <3>1 DEF NextRun, NextOnce, After, NoRun
    <3> QED
      BY <2>1, <3>1, <3>2
  <2>3. CASE OnceDay # when.date
    BY <1>3, <2>1, <2>3, OnceDayIs
  <2> QED
    BY <2>2, <2>3
<1>4. WhenTypes => NextIsFirst
  BY <1>1, <1>2, <1>3 DEF NextIsFirst
<1> QED
  BY <1>4, WhenTypesHolds, PTL

\* From run to run no day is left out, and none has two (schedule.go's loop
\* books the next run from the last one's).
THEOREM NoDayMissedHolds == WhenSpec => NoDayMissed
<1> DEFINE Follows(day) ==
      /\ \E next \in Days : Booked(next) /\ next > day /\ now' = At(next)
            /\ \A d \in (day + 1)..(next - 1) : ~Booked(d)
      /\ \A d \in Days : (Booked(d) /\ d # day) => At(d) # now
<1>1. ASSUME WhenTypes, Runs, NEW day \in Days, Booked(day), now = At(day)
      PROVE  Follows(day)
  <2>1. zone \in Zones /\ when.clock \in Clocks /\ now \in Int /\ day \in Int
    BY <1>1, BookingIs, WhenConstants DEF WhenTypes, Days
  <2>2. PICK e \in Int : e \in Days /\ FirstFrom(e, now)
    <3>1. ASSUME when.repeat = "once"
          PROVE  OnceDay = when.date
      <4>1. day = when.date
        BY <1>1, <3>1 DEF Booked
      <4>2. At(OnceDay) > At(day)
        BY <1>1, <3>1, NextOnceIs DEF Runs
      <4>3. OnceDay # day - 1
        <5>1. At(day - 1) < At(day) /\ At(day - 1) \in Int /\ At(day) \in Int
          BY <2>1, RunsInOrder, AtIs
        <5> QED
          BY <4>2, <5>1
      <4> QED
        BY <2>1, <3>1, <4>1, <4>3, OnceDayIs
    <3> QED
      BY <1>1, <3>1, NextIs DEF Runs
  <2>3. now' = At(e) /\ At(e) > At(day) /\ Booked(e)
    BY <1>1, <2>2 DEF Runs, FirstFrom
  <2>4. ASSUME NEW p \in Int, NEW q \in Int, At(p) < At(q)
        PROVE  p < q
    <3>1. At(p) \in Int /\ At(q) \in Int
      BY <2>1, AtIs
    <3>2. ~(q < p)
      <4> SUFFICES ASSUME q < p PROVE FALSE
        OBVIOUS
      <4>1. At(q) < At(p)
        BY <2>1, RunsInOrder
      <4> QED
        BY <2>4, <3>1, <4>1
    <3>3. p # q
      BY <2>4, <3>1
    <3> QED
      BY <3>2, <3>3
  <2>5. At(day) \in Int /\ At(e) \in Int
    BY <2>1, AtIs
  <2>6. e > day
    BY <2>1, <2>3, <2>4, <2>5
  <2>7. ASSUME NEW d \in (day + 1)..(e - 1)
        PROVE  ~Booked(d)
    <3>1. d \in Int /\ day < d /\ d < e /\ d \in Days
      BY <2>1, <2>2, WhenConstants DEF Days
    <3>2. At(day) < At(d) /\ At(d) < At(e)
      BY <2>1, <3>1, RunsInOrder
    <3>3. DayOf(now) =< d
      BY <1>1, <2>1, <3>1, RunsDay
    <3> QED
      BY <1>1, <2>2, <3>1, <3>2, <3>3 DEF FirstFrom
  <2>8. ASSUME NEW d \in Days, d # day
        PROVE  At(d) # now
    <3>1. d \in Int /\ At(d) \in Int
      BY <2>1, AtIs, WhenConstants DEF Days
    <3>2. d < day \/ day < d
      BY <2>1, <2>8, <3>1
    <3>3. At(d) < At(day) \/ At(day) < At(d)
      BY <2>1, <3>1, <3>2, RunsInOrder
    <3> QED
      BY <1>1, <2>5, <3>1, <3>3
  <2> QED
    BY <2>2, <2>3, <2>6, <2>7, <2>8
<1>2. WhenTypes /\ [Runs]_whenVars =>
        [\A day \in Days : (Booked(day) /\ now = At(day)) =>
            /\ \E next \in Days : Booked(next) /\ next > day /\ now' = At(next)
                  /\ \A d \in (day + 1)..(next - 1) : ~Booked(d)
            /\ \A d \in Days : (Booked(d) /\ d # day) => At(d) # now]_whenVars
  BY <1>1 DEF whenVars
<1> QED
  BY <1>2, WhenTypesHolds, PTL DEF WhenSpec, NoDayMissed
=============================================================================
