-------------------------- MODULE Schedule_proofs --------------------------
(***************************************************************************)
(* Proofs about Schedule, for every value of its constants.                *)
(***************************************************************************)
EXTENDS Schedule, TLAPS

(***************************************************************************)
(* When.Next: a slot after t, or none.                                     *)
(***************************************************************************)
LEMMA NextSlot ==
    ASSUME NEW t \in Nat, NEW when \in Whens
    PROVE  /\ NextOf(when, t) \in Nat
           /\ NextOf(when, t) # NULL => NextOf(when, t) > t
           /\ After(when, t) \in Nat
           /\ After(when, t) # NULL => After(when, t) > t
<1>1. Period \in Nat /\ Period > 0
  BY ConstantsAssumption
<1>5. when # Repeating => when \in Nat
  BY ConstantsAssumption DEF Whens
<1>2. /\ t = Period * (t \div Period) + (t % Period)
      /\ t % Period < Period
      /\ t \div Period \in Nat
  BY <1>1, SMT
<1>3. PICK q \in Nat : q = t \div Period
  BY <1>2
<1>4. /\ (q + 1) * Period \in Nat
      /\ (q + 1) * Period > t
  BY <1>1, <1>2, <1>3, SMT
<1> QED
  BY <1>3, <1>4, <1>5 DEF NextOf, After, NULL

(***************************************************************************)
(* Type correctness.  A request past its first step has its job, and a     *)
(* next run to write.                                                      *)
(***************************************************************************)
Pending ==
    /\ \A s \in Slots :
         /\ req[s].pc \in {"insert", "describe", "replace", "resume", "start"}
            => req[s].job \in Jobs
         /\ req[s].pc \in {"insert", "replace", "resume"} => req[s].next # NULL
    /\ tick.pc = "note" => tick.job \in Jobs

Types == TypeOK /\ Pending

LEMMA CopyTypes ==
    ASSUME row \in [Jobs -> Row], NEW S \in SUBSET Jobs
    PROVE  Copies(S) \in SUBSET CopyType
BY DEF Copies, Copy, CopyType, Row

LEMMA FreeType ==
    /\ Free \in ReqType
    /\ Repeating \in Whens
    /\ \A here \in {"never", "yes", "deleted"} : Absent(here) \in Row
    /\ \A when \in Whens, next \in Nat :
         /\ Booked(when, next) \in Row
         /\ ~Booked(when, next).held
         /\ Booked(when, next).here = "yes"
         /\ Booked(when, next).next = next
         /\ ~Booked(when, next).paused
    /\ \A pc \in {"down", "boot", "interrupts", "note", "waiting", "converge",
                  "converging", "due", "miss"}, at \in Nat, list \in SUBSET CopyType :
         Tick(pc, at, list) \in TickType
    /\ Unlocked \in HoldingType
<1>1. Repeating \in Whens
  BY DEF Whens
<1>2. \A here \in {"never", "yes", "deleted"} : Absent(here) \in Row
  BY <1>1 DEF Absent, Row, NULL, Statuses
<1>3. \A when \in Whens, next \in Nat :
         /\ Booked(when, next) \in Row
         /\ ~Booked(when, next).held
         /\ Booked(when, next).here = "yes"
         /\ Booked(when, next).next = next
         /\ ~Booked(when, next).paused
  BY <1>1, <1>2 DEF Booked, Absent, Row, NULL, Statuses
<1> QED
  BY <1>1, <1>2, <1>3 DEF Free, ReqType, NULL, Tick, TickType, Unlocked, HoldingType

LEMMA TypesInit == Init => Types
<1> SUFFICES ASSUME Init PROVE Types
  OBVIOUS
<1> USE ConstantsAssumption, FreeType DEF Init
<1>1. \A w \in Whens : NextOf(w, 0) \in Nat
  BY NextSlot
<1>2. row \in [Jobs -> Row]
  BY <1>1
<1>3. \A j \in Jobs : ~row[j].held
  BY <1>1 DEF Absent
<1>4. tick \in TickType /\ tick.pc = "boot"
  BY DEF Tick, TickType
<1>5. Pending
  BY <1>4 DEF Pending, Free
<1>6. /\ now \in 0..MaxTime
      /\ asked \in 0..MaxRequests
      /\ crashes \in 0..MaxCrashes
  OBVIOUS
<1> QED
  BY <1>2, <1>3, <1>4, <1>5, <1>6 DEF Types, TypeOK, TableOK, ProcessesOK, HistoryOK

(***************************************************************************)
(* The steps that write the table: every other leaves it alone.            *)
(***************************************************************************)
SchedulerWrites ==
    \/ NoteInterrupted \/ Hold
    \/ \E c \in tick.list : Miss(c) \/ StartDue(c)
    \/ \E c \in holding.list : Release(c)
    \/ \E j \in Jobs : Finish(j)

AppWrites(s) ==
    \/ \E j \in Jobs : \/ Pause(s, j) \/ Delete(s, j)
                       \/ \E when \in Whens : Create(s, j, when)
    \/ Insert(s) \/ Replace(s) \/ Resumed(s) \/ Started(s)

LEMMA TableFrame ==
    ASSUME [Next]_vars
    PROVE  UNCHANGED table \/ SchedulerWrites \/ \E s \in Slots : AppWrites(s)
<1> USE DEF helper, bounds, history, TickVars, ReqVars, table
<1>1. CASE Clock \/ Crash \/ Restart \/ UNCHANGED vars
  BY <1>1 DEF Clock, Crash, Restart, vars
<1>2. CASE SchedulerStep
  BY <1>2 DEF SchedulerStep, SchedulerWrites, ReadUnfinished, RunDue, TickConverges, ReadDue,
              TickDone, LookInterrupted, StillGoing, FindLate
<1>3. CASE ConvergeStep
  BY <1>3 DEF ConvergeStep, SchedulerWrites, Released
<1>4. ASSUME NEW j \in Jobs, RunStep(j)
      PROVE  UNCHANGED table \/ SchedulerWrites
  BY <1>4 DEF RunStep, SchedulerWrites, RunReleased
<1>5. ASSUME NEW s \in Slots, AppAsks(s)
      PROVE  UNCHANGED table \/ AppWrites(s)
  BY <1>5 DEF AppAsks, AppWrites, Resume, RunNow, Edit, PutPro
<1>6. ASSUME NEW s \in Slots, RequestStep(s)
      PROVE  UNCHANGED table \/ AppWrites(s)
  BY <1>6 DEF RequestStep, AppWrites, Describe, PutProClock, PutProConverges, PutProDone
<1>7. ASSUME NEW s \in Slots, ClientGone(s)
      PROVE  UNCHANGED table
  BY <1>7 DEF ClientGone
<1> QED
  BY <1>1, <1>2, <1>3, <1>4, <1>5, <1>6, <1>7 DEF Next

(***************************************************************************)
(* What a step may make of a row, whatever the table holds.                *)
(***************************************************************************)
RowOK(r) == r \in Row /\ (r.held => r.paused /\ r.next # NULL)

LEMMA RowEdits ==
    ASSUME NEW r, RowOK(r), NEW when \in Whens, NEW next \in Nat, NEW status \in Statuses
    PROVE  /\ RowOK(Ran(r, status))
           /\ ~r.paused => RowOK(Advanced(r, next, status))
           /\ RowOK(Carried(r, next))
           /\ RowOK(Unpaused(r, next))
           /\ next # NULL => RowOK(Replaced(r, when, next))
           /\ RowOK(PausedByHand(r))
           /\ RowOK(HoldRow(r))
           /\ RowOK(Booked(when, next))
           /\ RowOK(Absent("deleted"))
<1> USE DEF RowOK, Row, Statuses
<1>1. RowOK(Ran(r, status))
  BY DEF Ran
<1>2. ~r.paused => RowOK(Advanced(r, next, status))
  BY DEF Advanced
<1>3. RowOK(Carried(r, next))
  BY DEF Carried
<1>4. RowOK(Unpaused(r, next))
  BY DEF Unpaused
<1>5. next # NULL => RowOK(Replaced(r, when, next))
  BY DEF Replaced
<1>6. RowOK(PausedByHand(r)) /\ RowOK(HoldRow(r))
  BY DEF PausedByHand, HoldRow
<1>7. RowOK(Absent("deleted")) /\ RowOK(Booked(when, next))
  BY FreeType DEF Absent
<1> QED
  BY <1>1, <1>2, <1>3, <1>4, <1>5, <1>6, <1>7

LEMMA PutOK ==
    ASSUME TableOK, NEW j \in Jobs, NEW r, RowOK(r), Put(j, r)
    PROVE  TableOK'
BY DEF TableOK, RowOK, Put

LEMMA TableStep ==
    ASSUME Types, [Next]_vars
    PROVE  TableOK'
<1>1. /\ TableOK
      /\ \A j \in Jobs : RowOK(row[j])
      /\ \A s \in Slots : req[s] \in ReqType
      /\ tick \in TickType
      /\ holding \in HoldingType
      /\ {"running", "missed", "interrupted", "ran"} \subseteq Statuses
  BY DEF Types, TypeOK, TableOK, ProcessesOK, RowOK, Statuses
<1>2. /\ \A c \in tick.list : c.job \in Jobs /\ After(c.when, tick.at) \in Nat
      /\ \A c \in holding.list : c.job \in Jobs /\ NextOf(c.when, holding.at) \in Nat
  BY <1>1, NextSlot DEF TickType, HoldingType, CopyType
<1>3. \A s \in Slots : req[s].when \in Whens /\ req[s].next \in Nat
  BY <1>1 DEF ReqType
<1>4. Pending
  BY DEF Types
<1>5. CASE row' = row
  BY <1>1, <1>5 DEF TableOK
<1>6. CASE NoteInterrupted
  <2>1. tick.job \in Jobs
    BY <1>4, <1>6 DEF Pending, NoteInterrupted
  <2>2. RowOK(Ran(row[tick.job], "interrupted"))
    BY <1>1, <2>1, RowEdits, FreeType
  <2> QED  BY <1>1, <1>5, <1>6, <2>1, <2>2, PutOK DEF NoteInterrupted
<1>7. ASSUME NEW c \in tick.list, Miss(c) \/ StartDue(c)
      PROVE  TableOK'
  <2>1. CASE row' = row
    BY <1>1, <2>1 DEF TableOK
  <2>2. CASE row' # row
    <3>1. PICK status \in {"missed", "running"} :
            Put(c.job, Advanced(row[c.job], After(c.when, tick.at), status))
      BY <1>7, <2>2 DEF Miss, StartDue
    <3>2. ~row[c.job].paused
      BY <1>7, <2>2 DEF Miss, StartDue, Unmoved
    <3>3. RowOK(Advanced(row[c.job], After(c.when, tick.at), status))
      BY <1>1, <1>2, <3>2, RowEdits, FreeType
    <3> QED  BY <1>1, <1>2, <3>1, <3>3, PutOK
  <2> QED  BY <2>1, <2>2
<1>8. CASE Hold
  <2>1. row' = [j \in Jobs |-> HoldRow(row[j])]
    BY <1>8 DEF Hold
  <2>2. \A j \in Jobs : RowOK(HoldRow(row[j]))
    BY <1>1, RowEdits, FreeType
  <2> QED  BY <2>1, <2>2 DEF TableOK, RowOK
<1>9. ASSUME NEW c \in holding.list, Release(c)
      PROVE  TableOK'
  <2>1. RowOK(Carried(row[c.job], NextOf(c.when, holding.at)))
    BY <1>1, <1>2, RowEdits, FreeType
  <2> QED  BY <1>1, <1>2, <1>5, <1>9, <2>1, PutOK DEF Release
<1>10. ASSUME NEW j \in Jobs, Finish(j)
       PROVE  TableOK'
  <2>1. RowOK(Ran(row[j], "ran"))
    BY <1>1, RowEdits, FreeType
  <2> QED  BY <1>1, <1>5, <1>10, <2>1, PutOK DEF Finish
<1>11. ASSUME NEW s \in Slots, NEW j \in Jobs, Pause(s, j) \/ Delete(s, j)
       PROVE  TableOK'
  <2>1. RowOK(PausedByHand(row[j])) /\ RowOK(Absent("deleted"))
    BY <1>1, RowEdits, FreeType
  <2> QED  BY <1>1, <1>11, <2>1, PutOK DEF Pause, Delete
<1>12. ASSUME NEW s \in Slots, NEW j \in Jobs, NEW when \in Whens, Create(s, j, when)
       PROVE  TableOK'
  <2>1. PICK old \in SUBSET Jobs :
          row' = [i \in Jobs |-> IF i \in old THEN Absent("deleted") ELSE row[i]]
    BY <1>12 DEF Create
  <2>2. \A j1 \in Jobs : RowOK(Absent("deleted"))
    BY <1>1, RowEdits, FreeType
  <2> QED  BY <1>1, <2>1, <2>2 DEF TableOK, RowOK
<1>13. ASSUME NEW s \in Slots, Insert(s)
       PROVE  TableOK'
  <2>1. req[s].job \in Jobs
    BY <1>4, <1>13 DEF Pending, Insert
  <2>2. RowOK(Booked(req[s].when, req[s].next))
    BY <1>1, <1>3, <2>1, RowEdits
  <2> QED  BY <1>1, <1>13, <2>1, <2>2, PutOK DEF Insert
<1>14. ASSUME NEW s \in Slots, Replace(s) \/ Resumed(s)
       PROVE  TableOK'
  <2>1. req[s].job \in Jobs /\ req[s].next # NULL
    BY <1>4, <1>14 DEF Pending, Replace, Resumed
  <2>2. /\ RowOK(Replaced(row[req[s].job], req[s].when, req[s].next))
        /\ RowOK(Unpaused(row[req[s].job], req[s].next))
    BY <1>1, <1>3, <2>1, RowEdits
  <2> QED  BY <1>1, <1>5, <1>14, <2>1, <2>2, PutOK DEF Replace, Resumed, Write, table
<1>15. ASSUME NEW s \in Slots, Started(s)
       PROVE  TableOK'
  <2>1. req[s].job \in Jobs
    BY <1>4, <1>15 DEF Pending, Started
  <2>2. RowOK(Ran(row[req[s].job], "running"))
    BY <1>1, <2>1, RowEdits, FreeType
  <2> QED  BY <1>1, <1>5, <1>15, <2>1, <2>2, PutOK DEF Started
<1> QED
  BY TableFrame, <1>5, <1>6, <1>7, <1>8, <1>9, <1>10, <1>11, <1>12, <1>13, <1>14, <1>15
  DEF SchedulerWrites, AppWrites, table

(***************************************************************************)
(* The processes.                                                          *)
(***************************************************************************)
LEMMA TickStep ==
    ASSUME Types, [Next]_vars
    PROVE  /\ tick' \in TickType
           /\ tick'.pc = "note" => tick'.job \in Jobs
<1>1. /\ tick \in TickType
      /\ tick.pc = "note" => tick.job \in Jobs
      /\ now \in Nat
      /\ \A S \in SUBSET Jobs : Copies(S) \in SUBSET CopyType
  BY ConstantsAssumption, CopyTypes DEF Types, TypeOK, TableOK, ProcessesOK, Pending
<1>2. CASE tick' = tick
  BY <1>1, <1>2
<1>3. CASE ReadUnfinished \/ RunDue \/ ReadDue \/ TickDone \/ Crash \/ Restart
  <2>1. PICK pc \in {"down", "boot", "interrupts", "waiting", "converge", "due"},
             at \in Nat, list \in SUBSET CopyType :
          tick' = Tick(pc, at, list)
    BY <1>1, <1>3 DEF ReadUnfinished, RunDue, ReadDue, TickDone, Crash, Restart, Due, TickType
  <2> QED  BY <2>1 DEF Tick, TickType
<1>4. CASE NoteInterrupted \/ TickConverges
  BY <1>1, <1>4 DEF NoteInterrupted, TickConverges, TickType
<1>5. ASSUME NEW c \in tick.list,
             \/ LookInterrupted(c) \/ StillGoing(c) \/ FindLate(c) \/ Miss(c) \/ StartDue(c)
      PROVE  /\ tick' \in TickType
             /\ tick'.pc = "note" => tick'.job \in Jobs
  <2>1. c.job \in Jobs
    BY <1>1 DEF TickType, CopyType
  <2>2. CASE LookInterrupted(c)
    BY <1>1, <2>1, <2>2 DEF LookInterrupted, TickType
  <2>3. CASE StillGoing(c) \/ StartDue(c)
    BY <1>1, <2>1, <2>3 DEF StillGoing, StartDue, TickType
  <2>4. CASE FindLate(c) \/ Miss(c)
    BY <1>1, <2>1, <2>4 DEF FindLate, Miss, TickType
  <2> QED  BY <1>5, <2>2, <2>3, <2>4
<1>6. CASE SchedulerStep
  BY <1>3, <1>4, <1>5, <1>6 DEF SchedulerStep
<1>7. CASE Clock \/ ConvergeStep \/ (\E j \in Jobs : RunStep(j)) \/ UNCHANGED vars
  BY <1>2, <1>7 DEF Clock, ConvergeStep, Hold, Released, Release, RunStep, Finish, RunReleased,
                    vars, helper
<1>8. ASSUME NEW s \in Slots, AppAsks(s) \/ RequestStep(s) \/ ClientGone(s)
      PROVE  tick' = tick
  <2> USE DEF ReqVars
  <2>1. CASE AppAsks(s)
    BY <2>1 DEF AppAsks, Resume, Pause, Delete, RunNow, Create, Edit, PutPro
  <2>2. CASE RequestStep(s)
    BY <2>2 DEF RequestStep, Insert, Describe, Replace, Resumed, Started,
                PutProClock, PutProConverges, PutProDone
  <2> QED  BY <1>8, <2>1, <2>2 DEF ClientGone
<1> QED
  BY <1>2, <1>3, <1>6, <1>7, <1>8 DEF Next

LEMMA HoldingStep ==
    ASSUME Types, [Next]_vars
    PROVE  holding' \in HoldingType
<1>1. /\ holding \in HoldingType
      /\ tick.at \in Nat
      /\ \A s \in Slots : req[s].at \in Nat
      /\ \A S \in SUBSET Jobs : Copies(S) \in SUBSET CopyType
  BY CopyTypes DEF Types, TypeOK, TableOK, ProcessesOK, TickType, ReqType
<1>2. CASE holding' = holding
  BY <1>1, <1>2
<1>3. ASSUME NEW who \in Slots \cup {Sched}, NEW at \in Nat, Converge(who, at)
      PROVE  holding' \in HoldingType
  <2>1. Copies(HeldJobs) \in SUBSET CopyType
    BY <1>1 DEF HeldJobs
  <2> QED  BY <1>1, <1>3, <2>1 DEF Converge, HoldingType
<1>4. CASE Hold \/ Released \/ Crash
  BY <1>4, FreeType DEF Hold, Released, Crash
<1>5. ASSUME NEW c \in holding.list, Release(c)
      PROVE  holding' \in HoldingType
  BY <1>1, <1>5 DEF Release, HoldingType
<1>6. CASE SchedulerStep
  <2>1. CASE TickConverges
    BY <1>1, <1>3, <2>1 DEF TickConverges
  <2> QED
    BY <1>2, <1>6, <2>1 DEF SchedulerStep, ReadUnfinished, NoteInterrupted, RunDue, ReadDue,
       TickDone, LookInterrupted, StillGoing, FindLate, Miss, StartDue
<1>7. ASSUME NEW s \in Slots, AppAsks(s)
      PROVE  holding' = holding
  BY <1>7 DEF AppAsks, Resume, Pause, Delete, RunNow, Create, Edit, PutPro, ReqVars
<1>8. ASSUME NEW s \in Slots, RequestStep(s) \/ ClientGone(s)
      PROVE  holding' \in HoldingType
  <2>1. CASE PutProConverges(s)
    BY <1>1, <1>3, <2>1 DEF PutProConverges
  <2>2. CASE ClientGone(s)
    BY <1>1, <2>2, FreeType DEF ClientGone
  <2> QED
    BY <1>2, <1>8, <2>1, <2>2 DEF RequestStep, Insert, Describe, Replace, Resumed, Started,
       PutProClock, PutProDone, ReqVars
<1>9. CASE Clock \/ Restart \/ (\E j \in Jobs : RunStep(j)) \/ UNCHANGED vars
  BY <1>2, <1>9 DEF Clock, Restart, RunStep, Finish, RunReleased, vars, helper
<1> QED
  BY <1>2, <1>4, <1>5, <1>6, <1>7, <1>8, <1>9 DEF Next, ConvergeStep

LEMMA RequestsStep ==
    ASSUME Types, [Next]_vars
    PROVE  /\ req' \in [Slots -> ReqType]
           /\ \A s \in Slots :
                /\ req'[s].pc \in {"insert", "describe", "replace", "resume", "start"}
                   => req'[s].job \in Jobs
                /\ req'[s].pc \in {"insert", "replace", "resume"} => req'[s].next # NULL
<1> DEFINE ReqOK(r) ==
      /\ r \in ReqType
      /\ r.pc \in {"insert", "describe", "replace", "resume", "start"} => r.job \in Jobs
      /\ r.pc \in {"insert", "replace", "resume"} => r.next # NULL
<1>1. /\ req \in [Slots -> ReqType]
      /\ \A s \in Slots : ReqOK(req[s])
      /\ now \in Nat
      /\ \A j \in Jobs : row[j].when \in Whens
  BY ConstantsAssumption DEF Types, TypeOK, TableOK, ProcessesOK, Pending, Row
<1>2. SUFFICES req' \in [Slots -> ReqType] /\ \A s \in Slots : ReqOK(req'[s])
  OBVIOUS
<1>3. ReqOK(Free)
  BY FreeType DEF Free
<1>4. CASE req' = req
  BY <1>1, <1>4
<1>5. ASSUME NEW s \in Slots, NEW r, ReqOK(r), Becomes(s, r)
      PROVE  req' \in [Slots -> ReqType] /\ \A t \in Slots : ReqOK(req'[t])
  BY <1>1, <1>5 DEF Becomes
<1>7. ASSUME NEW s \in Slots, AppAsks(s)
      PROVE  req' \in [Slots -> ReqType] /\ \A t \in Slots : ReqOK(req'[t])
  <2>1. ASSUME NEW j \in Jobs, Resume(s, j)
        PROVE  req' \in [Slots -> ReqType] /\ \A t \in Slots : ReqOK(req'[t])
    <3>1. NextOf(row[j].when, now) \in Nat
      BY <1>1, NextSlot
    <3>2. NextOf(row[j].when, now) # NULL =>
            ReqOK([Free EXCEPT !.pc = "resume", !.job = j, !.next = NextOf(row[j].when, now)])
      BY <3>1, FreeType DEF Free, ReqType
    <3>3. \/ Becomes(s, Free)
          \/ /\ NextOf(row[j].when, now) # NULL
             /\ Becomes(s, [Free EXCEPT !.pc = "resume", !.job = j,
                                        !.next = NextOf(row[j].when, now)])
      BY <2>1 DEF Resume
    <3> QED  BY <1>3, <1>5, <3>2, <3>3
  <2>2. ASSUME NEW j \in Jobs, Pause(s, j) \/ Delete(s, j)
        PROVE  req' = req
    BY <2>2 DEF Pause, Delete
  <2>3. ASSUME NEW j \in Jobs, RunNow(s, j)
        PROVE  req' \in [Slots -> ReqType] /\ \A t \in Slots : ReqOK(req'[t])
    <3>1. ReqOK([Free EXCEPT !.pc = "start", !.job = j])
      BY FreeType DEF Free, ReqType
    <3> QED  BY <1>5, <2>3, <3>1 DEF RunNow
  <2>4. ASSUME NEW j \in Jobs, NEW when \in Whens, Create(s, j, when)
        PROVE  req' \in [Slots -> ReqType] /\ \A t \in Slots : ReqOK(req'[t])
    <3>1. NextOf(when, now) \in Nat \ {NULL}
      BY <1>1, <2>4, NextSlot DEF Create
    <3>2. ReqOK([Free EXCEPT !.pc = "insert", !.job = j, !.when = when,
                             !.next = NextOf(when, now)])
      BY <3>1, FreeType DEF Free, ReqType
    <3>3. \/ req' = req
          \/ Becomes(s, [Free EXCEPT !.pc = "insert", !.job = j, !.when = when,
                                     !.next = NextOf(when, now)])
      BY <2>4 DEF Create
    <3> QED  BY <1>4, <1>5, <3>2, <3>3
  <2>5. ASSUME NEW j \in Jobs, NEW when \in Whens, Edit(s, j, when)
        PROVE  req' \in [Slots -> ReqType] /\ \A t \in Slots : ReqOK(req'[t])
    <3>1. ReqOK([Free EXCEPT !.pc = "describe", !.job = j, !.when = when])
      BY FreeType DEF Free, ReqType
    <3> QED  BY <1>5, <2>5, <3>1 DEF Edit
  <2>6. ASSUME NEW says \in BOOLEAN, NEW saved \in BOOLEAN, PutPro(s, says, saved)
        PROVE  req' \in [Slots -> ReqType] /\ \A t \in Slots : ReqOK(req'[t])
    <3>1. ReqOK([Free EXCEPT !.pc = "clock"])
      BY FreeType DEF Free, ReqType
    <3> QED  BY <1>5, <2>6, <3>1 DEF PutPro
  <2> QED  BY <1>4, <1>7, <2>1, <2>2, <2>3, <2>4, <2>5, <2>6 DEF AppAsks
<1>8. ASSUME NEW s \in Slots, RequestStep(s) \/ ClientGone(s)
      PROVE  req' \in [Slots -> ReqType] /\ \A t \in Slots : ReqOK(req'[t])
  <2>1. NextOf(req[s].when, now) \in Nat /\ req[s] \in ReqType
    BY <1>1, NextSlot DEF ReqType
  <2>2. CASE Describe(s)
    <3>1. \/ Becomes(s, Free)
          \/ /\ NextOf(req[s].when, now) # NULL
             /\ Becomes(s, [req[s] EXCEPT !.pc = "replace", !.next = NextOf(req[s].when, now)])
      BY <2>2 DEF Describe
    <3>2. req[s].job \in Jobs
      BY <1>1, <2>2 DEF Describe
    <3>3. NextOf(req[s].when, now) # NULL =>
            ReqOK([req[s] EXCEPT !.pc = "replace", !.next = NextOf(req[s].when, now)])
      BY <2>1, <3>2 DEF ReqType
    <3> QED  BY <1>3, <1>5, <3>1, <3>3
  <2>3. CASE PutProClock(s)
    <3>1. ReqOK([req[s] EXCEPT !.pc = "lock", !.at = now])
      BY <1>1, <2>1 DEF ReqType
    <3> QED  BY <1>5, <2>3, <3>1 DEF PutProClock
  <2>4. CASE PutProConverges(s)
    <3>1. ReqOK([Free EXCEPT !.pc = "converging"])
      BY FreeType DEF Free, ReqType
    <3> QED  BY <1>5, <2>4, <3>1 DEF PutProConverges
  <2>5. CASE Becomes(s, Free)
    BY <1>3, <1>5, <2>5
  <2> QED
    BY <1>8, <2>2, <2>3, <2>4, <2>5 DEF RequestStep, Insert, Replace, Resumed, Started,
       PutProDone, ClientGone
<1>9. CASE Crash
  BY <1>3, <1>9 DEF Crash
<1>10. CASE Clock \/ Restart \/ ConvergeStep \/ (\E j \in Jobs : RunStep(j)) \/ UNCHANGED vars
  BY <1>4, <1>10 DEF Clock, Restart, ConvergeStep, Hold, Released, Release, RunStep, Finish,
                     RunReleased, vars, helper, TickVars
<1>11. CASE SchedulerStep
  BY <1>4, <1>11 DEF SchedulerStep, ReadUnfinished, NoteInterrupted, RunDue, TickConverges,
     ReadDue, TickDone, LookInterrupted, StillGoing, FindLate, Miss, StartDue, TickVars
<1> HIDE DEF ReqOK
<1> QED
  BY <1>7, <1>8, <1>9, <1>10, <1>11 DEF Next

LEMMA RunsStep ==
    ASSUME Types, [Next]_vars
    PROVE  run' \in [Jobs -> {"idle", "going", "recorded"}]
<1>1. run \in [Jobs -> {"idle", "going", "recorded"}]
  BY DEF Types, TypeOK, ProcessesOK
<1>2. CASE run' = run
  BY <1>1, <1>2
<1>3. CASE SchedulerStep
  BY <1>1, <1>3 DEF SchedulerStep, StartDue, ReadUnfinished, NoteInterrupted, RunDue,
     TickConverges, ReadDue, TickDone, LookInterrupted, StillGoing, FindLate, Miss
<1>4. CASE ConvergeStep \/ Clock \/ Restart \/ UNCHANGED vars
  BY <1>2, <1>4 DEF ConvergeStep, Hold, Released, Release, Clock, Restart, vars, helper
<1>5. ASSUME NEW j \in Jobs, RunStep(j)
      PROVE  run' \in [Jobs -> {"idle", "going", "recorded"}]
  BY <1>1, <1>5 DEF RunStep, Finish, RunReleased, Freed
<1>6. ASSUME NEW s \in Slots, AppAsks(s) \/ ClientGone(s)
      PROVE  run' = run
  BY <1>6 DEF AppAsks, Resume, Pause, Delete, RunNow, Create, Edit, PutPro, ClientGone, ReqVars
<1>7. ASSUME NEW s \in Slots, RequestStep(s)
      PROVE  run' \in [Jobs -> {"idle", "going", "recorded"}]
  BY <1>1, <1>7 DEF RequestStep, Insert, Describe, Replace, Resumed, Started, PutProClock,
     PutProConverges, PutProDone, ReqVars
<1>8. CASE Crash
  BY <1>8 DEF Crash
<1> QED
  BY <1>2, <1>3, <1>4, <1>5, <1>6, <1>7, <1>8 DEF Next

(***************************************************************************)
(* The clock, Pro, the counts and the history.                             *)
(***************************************************************************)
LEMMA ClockStep ==
    ASSUME Types, [Next]_vars
    PROVE  /\ now' \in 0..MaxTime
           /\ lapsed' \in BOOLEAN /\ onFile' \in BOOLEAN
           /\ asked' \in 0..MaxRequests
           /\ crashes' \in 0..MaxCrashes
<1> USE ConstantsAssumption DEF ReqVars, TickVars, bounds
<1>1. /\ now \in 0..MaxTime
      /\ lapsed \in BOOLEAN /\ onFile \in BOOLEAN
      /\ asked \in 0..MaxRequests
      /\ crashes \in 0..MaxCrashes
  BY DEF Types, TypeOK
<1>2. CASE UNCHANGED <<now, lapsed, onFile, asked, crashes>>
  BY <1>1, <1>2
<1>3. CASE SchedulerStep \/ UNCHANGED vars
  BY <1>2, <1>3 DEF SchedulerStep, StartDue, ReadUnfinished, NoteInterrupted, RunDue,
     TickConverges, ReadDue, TickDone, LookInterrupted, StillGoing, FindLate, Miss, vars
<1>4. CASE ConvergeStep \/ \E j \in Jobs : RunStep(j)
  BY <1>2, <1>4 DEF ConvergeStep, Hold, Released, Release, RunStep, Finish, RunReleased
<1>5. CASE Clock
  <2>1. now' \in 0..MaxTime
    BY <1>1, <1>5 DEF Clock
  <2> QED  BY <1>1, <1>5, <2>1 DEF Clock
<1>6. CASE Crash
  <2>1. crashes' \in 0..MaxCrashes
    BY <1>1, <1>6 DEF Crash
  <2> QED  BY <1>1, <1>6, <2>1 DEF Crash
<1>7. CASE Restart
  BY <1>1, <1>7 DEF Restart
<1>8. ASSUME NEW s \in Slots, AppAsks(s)
      PROVE  /\ asked' \in 0..MaxRequests
             /\ lapsed' \in BOOLEAN /\ onFile' \in BOOLEAN
             /\ UNCHANGED <<now, crashes>>
  <2>1. Ask(s)
    BY <1>8 DEF AppAsks, Resume, Pause, Delete, RunNow, Create, Edit, PutPro
  <2>2. asked' \in 0..MaxRequests
    BY <1>1, <2>1 DEF Ask
  <2>3. UNCHANGED <<now, crashes>>
    BY <1>8 DEF AppAsks, Resume, Pause, Delete, RunNow, Create, Edit, PutPro
  <2>4. lapsed' \in BOOLEAN /\ onFile' \in BOOLEAN
    <3>1. CASE \E says, saved \in BOOLEAN : PutPro(s, says, saved)
      BY <1>1, <3>1 DEF PutPro
    <3>2. CASE UNCHANGED <<lapsed, onFile>>
      BY <1>1, <3>2
    <3> QED  BY <1>8, <3>1, <3>2 DEF AppAsks, Resume, Pause, Delete, RunNow, Create, Edit
  <2> QED  BY <2>2, <2>3, <2>4
<1>9. ASSUME NEW s \in Slots, RequestStep(s) \/ ClientGone(s)
      PROVE  UNCHANGED <<now, lapsed, onFile, asked, crashes>>
  BY <1>9 DEF RequestStep, Insert, Describe, Replace, Resumed, Started, PutProClock,
     PutProConverges, PutProDone, ClientGone
<1> QED
  BY <1>1, <1>2, <1>3, <1>4, <1>5, <1>6, <1>7, <1>8, <1>9 DEF Next

LEMMA HistoryStep ==
    ASSUME Types, [Next]_vars
    PROVE  HistoryOK'
<1> USE DEF HistoryOK
<1>1. /\ HistoryOK
      /\ \A c \in tick.list : c.next \in Nat
      /\ lapsed \in BOOLEAN
      /\ run \in [Jobs -> {"idle", "going", "recorded"}]
  BY DEF Types, TypeOK, ProcessesOK, TickType, CopyType
<1>2. CASE UNCHANGED history
  BY <1>1, <1>2 DEF history
<1>3. CASE SchedulerStep
  <2>1. ASSUME NEW c \in tick.list, Miss(c) \/ StartDue(c)
        PROVE  HistoryOK'
    BY <1>1, <2>1 DEF Miss, StartDue
  <2>2. CASE NoteInterrupted
    BY <1>1, <2>2 DEF NoteInterrupted
  <2> QED
    BY <1>2, <1>3, <2>1, <2>2 DEF SchedulerStep, ReadUnfinished, RunDue, TickConverges, ReadDue,
       TickDone, LookInterrupted, StillGoing, FindLate
<1>4. CASE ConvergeStep
  <2>1. CASE Hold
    <3>1. swept' \in [Jobs -> BOOLEAN]
      BY <1>1, <2>1 DEF Hold
    <3> QED  BY <1>1, <2>1, <3>1 DEF Hold
  <2>2. ASSUME NEW c \in holding.list, Release(c)
        PROVE  HistoryOK'
    BY <1>1, <2>2 DEF Release
  <2> QED  BY <1>1, <1>4, <2>1, <2>2 DEF ConvergeStep, Released, table
<1>5. CASE Clock \/ Restart \/ (\E j \in Jobs : RunStep(j)) \/ UNCHANGED vars
  BY <1>2, <1>5 DEF Clock, Restart, RunStep, Finish, RunReleased, vars
<1>6. CASE Crash
  <2>1. swept' \in [Jobs -> BOOLEAN]
    BY <1>1, <1>6 DEF Crash
  <2> QED  BY <1>1, <1>6, <2>1 DEF Crash
<1>7. ASSUME NEW s \in Slots, AppAsks(s)
      PROVE  HistoryOK'
  <2>1. ASSUME NEW j \in Jobs, Pause(s, j)
        PROVE  HistoryOK'
    BY <1>1, <2>1 DEF Pause
  <2>2. ASSUME NEW says \in BOOLEAN, NEW saved \in BOOLEAN, PutPro(s, says, saved)
        PROVE  HistoryOK'
    <3>1. swept' \in [Jobs -> BOOLEAN]
      BY <1>1, <2>2 DEF PutPro
    <3> QED  BY <1>1, <2>2, <3>1 DEF PutPro
  <2> QED
    BY <1>2, <1>7, <2>1, <2>2 DEF AppAsks, Resume, Delete, RunNow, Create, Edit
<1>8. ASSUME NEW s \in Slots, RequestStep(s) \/ ClientGone(s)
      PROVE  HistoryOK'
  <2>1. CASE Replace(s) \/ Resumed(s)
    <3>1. /\ swept' \in [Jobs -> BOOLEAN]
      BY <1>1, <2>1 DEF Replace, Resumed
    <3>2. taken' \in [Jobs -> Nat]
      BY <1>1, <2>1 DEF Replace, Resumed, Write, table
    <3>3. req[s].job \in Jobs
      BY <2>1 DEF Types, Pending, Replace, Resumed
    <3>4. byHand' \in [Jobs -> BOOLEAN]
      <4>1. PICK ghost \in BOOLEAN :
              byHand' = byHand \/ byHand' = [byHand EXCEPT ![req[s].job] = ghost]
        BY <1>1, <2>1, <3>3 DEF Replace, Resumed, Write, table
      <4> QED  BY <1>1, <4>1
    <3> QED  BY <3>1, <3>2, <3>4
  <2>2. CASE Started(s)
    BY <1>1, <2>2 DEF Started
  <2>3. CASE ClientGone(s)
    BY <1>1, <2>3 DEF ClientGone, table
  <2> QED
    BY <1>2, <1>8, <2>1, <2>2, <2>3 DEF RequestStep, Insert, Describe, PutProClock,
       PutProConverges, PutProDone
<1> QED
  BY <1>3, <1>4, <1>5, <1>6, <1>7, <1>8 DEF Next

LEMMA TypesStep == Types /\ [Next]_vars => Types'
<1> SUFFICES ASSUME Types, [Next]_vars
             PROVE  Types'
  OBVIOUS
<1>1. ProcessesOK'
  BY TickStep, HoldingStep, RequestsStep, RunsStep DEF ProcessesOK
<1>2. Pending'
  BY TickStep, RequestsStep DEF Pending
<1> QED
  BY <1>1, <1>2, TableStep, HistoryStep, ClockStep DEF Types, TypeOK

\* Every state has its type: the rows, the copies of them the processes
\* hold, and a lapse's pause only ever on something booked (store.go).
THEOREM TypeCorrect == Spec => []TypeOK
<1>1. Types => TypeOK
  BY DEF Types
<1> QED
  BY <1>1, TypesInit, TypesStep, PTL DEF Spec

(***************************************************************************)
(* A job never booked has no history, and one request at most books it.    *)
(***************************************************************************)
NewJobs ==
    /\ \A j \in Jobs : row[j].here = "never"
                       => ~byHand[j] /\ ~swept[j] /\ taken[j] = 0
    /\ \A s \in Slots : req[s].pc = "insert" => row[req[s].job].here = "never"
    /\ \A s, t \in Slots : req[s].pc = "insert" /\ req[t].pc = "insert" /\ s # t
                           => req[s].job # req[t].job

LEMMA EditFields ==
    ASSUME NEW r \in Row
    PROVE  /\ \A status :
                /\ Ran(r, status).here = r.here
                /\ Ran(r, status).next = r.next
                /\ Ran(r, status).paused = r.paused
                /\ Ran(r, status).held = r.held
           /\ \A next, status :
                /\ Advanced(r, next, status).here = r.here
                /\ Advanced(r, next, status).next = next
                /\ Advanced(r, next, status).paused = r.paused
                /\ Advanced(r, next, status).held = r.held
           /\ \A next :
                /\ Carried(r, next).here = r.here
                /\ Carried(r, next).next = next
           /\ \A next :
                /\ Unpaused(r, next).here = r.here
                /\ Unpaused(r, next).next = next
           /\ \A when, next :
                /\ Replaced(r, when, next).here = r.here
                /\ Replaced(r, when, next).next = next
                /\ Replaced(r, when, next).paused = r.paused
                /\ Replaced(r, when, next).held = r.held
           /\ PausedByHand(r).here = r.here
           /\ PausedByHand(r).next = r.next
           /\ PausedByHand(r).paused
           /\ ~PausedByHand(r).held
           /\ HoldRow(r).here = r.here
           /\ HoldRow(r).next = r.next
           /\ HoldRow(r).paused = (r.paused \/ (r.here = "yes" /\ r.next # NULL))
           /\ r.paused => HoldRow(r).held = r.held
           /\ Absent("deleted").here = "deleted"
<1> USE DEF Row
<1>1. \A status :
         /\ Ran(r, status).here = r.here
         /\ Ran(r, status).next = r.next
         /\ Ran(r, status).paused = r.paused
         /\ Ran(r, status).held = r.held
  BY DEF Ran
<1>2. \A next, status :
         /\ Advanced(r, next, status).here = r.here
         /\ Advanced(r, next, status).next = next
         /\ Advanced(r, next, status).paused = r.paused
         /\ Advanced(r, next, status).held = r.held
  BY DEF Advanced
<1>3. \A next : Carried(r, next).here = r.here /\ Carried(r, next).next = next
  BY DEF Carried
<1>4. \A next : Unpaused(r, next).here = r.here /\ Unpaused(r, next).next = next
  BY DEF Unpaused
<1>5. \A when, next :
         /\ Replaced(r, when, next).here = r.here
         /\ Replaced(r, when, next).next = next
         /\ Replaced(r, when, next).paused = r.paused
         /\ Replaced(r, when, next).held = r.held
  BY DEF Replaced
<1>6. /\ PausedByHand(r).here = r.here
      /\ PausedByHand(r).next = r.next
      /\ PausedByHand(r).paused
      /\ ~PausedByHand(r).held
  BY DEF PausedByHand
<1>7. /\ HoldRow(r).here = r.here
      /\ HoldRow(r).next = r.next
      /\ HoldRow(r).paused = (r.paused \/ (r.here = "yes" /\ r.next # NULL))
      /\ r.paused => HoldRow(r).held = r.held
  BY DEF HoldRow
<1> QED
  BY <1>1, <1>2, <1>3, <1>4, <1>5, <1>6, <1>7 DEF Absent

LEMMA SweptFrame ==
    ASSUME Types, [Next]_vars, NEW j \in Jobs, swept'[j]
    PROVE  swept[j] \/ (Hold /\ lapsed /\ Here(j) /\ row[j].next # NULL)
<1> USE DEF history, table
<1>1. swept \in [Jobs -> BOOLEAN]
  BY DEF Types, TypeOK, HistoryOK
<1>2. CASE swept' = swept
  BY <1>2
<1>3. CASE SchedulerStep
  BY <1>2, <1>3 DEF SchedulerStep, StartDue, ReadUnfinished, NoteInterrupted, RunDue,
     TickConverges, ReadDue, TickDone, LookInterrupted, StillGoing, FindLate, Miss
<1>4. CASE ConvergeStep
  <2>1. CASE Hold
    BY <2>1 DEF Hold
  <2> QED  BY <1>2, <1>4, <2>1 DEF ConvergeStep, Released, Release
<1>5. CASE Clock \/ Restart \/ (\E i \in Jobs : RunStep(i)) \/ UNCHANGED vars
  BY <1>2, <1>5 DEF Clock, Restart, RunStep, Finish, RunReleased, vars
<1>6. CASE Crash
  BY <1>6 DEF Crash
<1>7. ASSUME NEW s \in Slots, AppAsks(s)
      PROVE  swept[j]
  BY <1>1, <1>7 DEF AppAsks, Resume, Pause, Delete, RunNow, Create, Edit, PutPro
<1>8. ASSUME NEW s \in Slots, RequestStep(s) \/ ClientGone(s)
      PROVE  swept[j]
  BY <1>1, <1>8 DEF RequestStep, Insert, Describe, Replace, Resumed, Started, PutProClock,
     PutProConverges, PutProDone, ClientGone
<1> QED
  BY <1>2, <1>3, <1>4, <1>5, <1>6, <1>7, <1>8 DEF Next

(***************************************************************************)
(* What a step may do to one job's row and its history.                    *)
(***************************************************************************)
HistoryKept(j) == taken'[j] = taken[j] /\ byHand'[j] = byHand[j]

Noted(j) ==
    /\ HistoryKept(j)
    /\ \/ row'[j] = row[j]
       \/ \E status \in Statuses : row'[j] = Ran(row[j], status)
       \/ row'[j] = HoldRow(row[j])
       \/ Here(j) /\ row'[j] = Absent("deleted")

Taken(j) ==
    /\ Here(j) /\ ~row[j].paused
    /\ tick.pc \in {"due", "miss"}
    /\ \E c \in tick.list, status \in Statuses :
         /\ c.next = row[j].next
         /\ row'[j] = Advanced(row[j], After(c.when, tick.at), status)
         /\ taken'[j] = c.next
    /\ byHand'[j] = byHand[j]

ReleasedRow(j) ==
    /\ Here(j) /\ row[j].held
    /\ \E c \in holding.list : row'[j] = Carried(row[j], NextOf(c.when, holding.at))
    /\ taken'[j] = IF holding.at < taken[j] THEN 0 ELSE taken[j]
    /\ byHand'[j] = byHand[j]

ByTheApp(j) ==
    \/ /\ Here(j)
       /\ row'[j] = PausedByHand(row[j])
       /\ taken'[j] = taken[j]
       /\ byHand'[j]
    \/ /\ HistoryKept(j)
       /\ \E s \in Slots : /\ Insert(s) /\ req[s].job = j
                          /\ row'[j] = Booked(req[s].when, req[s].next)
    \/ /\ Here(j)
       /\ taken'[j] = 0
       /\ \E s \in Slots : /\ req[s].pc \in {"replace", "resume"}
                          /\ \/ /\ row'[j] = Replaced(row[j], req[s].when, req[s].next)
                                /\ byHand'[j] = byHand[j]
                             \/ /\ row'[j] = Unpaused(row[j], req[s].next)
                                /\ ~byHand'[j] /\ ~swept'[j]

Effect(j) == Noted(j) \/ Taken(j) \/ ReleasedRow(j) \/ ByTheApp(j)

LEMMA Effects ==
    ASSUME Types, [Next]_vars, NEW i \in Jobs
    PROVE  Effect(i)
<1>1. /\ row \in [Jobs -> Row]
      /\ taken \in [Jobs -> Nat] /\ byHand \in [Jobs -> BOOLEAN]
      /\ swept \in [Jobs -> BOOLEAN]
      /\ {"running", "missed", "interrupted", "ran"} \subseteq Statuses
  BY DEF Types, TypeOK, TableOK, HistoryOK, Statuses
<1>2. CASE UNCHANGED table
  BY <1>2 DEF table, Effect, Noted, HistoryKept
<1>3. CASE NoteInterrupted
  BY <1>1, <1>3 DEF NoteInterrupted, Put, Effect, Noted, HistoryKept
<1>4. ASSUME NEW c \in tick.list, Miss(c) \/ StartDue(c)
      PROVE  Effect(i)
  <2>1. \/ UNCHANGED table
        \/ /\ Unmoved(c)
           /\ \E status \in Statuses :
                Put(c.job, Advanced(row[c.job], After(c.when, tick.at), status))
           /\ taken' = [taken EXCEPT ![c.job] = c.next]
           /\ byHand' = byHand
    BY <1>1, <1>4 DEF Miss, StartDue, table
  <2>2. tick.pc \in {"due", "miss"}
    BY <1>4 DEF Miss, StartDue
  <2>3. CASE UNCHANGED table
    BY <1>2, <2>3
  <2>4. CASE i # c.job /\ ~UNCHANGED table
    BY <1>1, <2>1, <2>4 DEF Put, Effect, Noted, HistoryKept
  <2>5. CASE i = c.job /\ ~UNCHANGED table
    BY <1>1, <2>1, <2>2, <2>5 DEF Put, Effect, Taken, Unmoved
  <2> QED  BY <2>3, <2>4, <2>5
<1>5. CASE Hold
  BY <1>1, <1>5 DEF Hold, Effect, Noted, HistoryKept
<1>6. ASSUME NEW c \in holding.list, Release(c)
      PROVE  Effect(i)
  <2>1. \/ UNCHANGED table
        \/ /\ Here(c.job) /\ row[c.job].held
           /\ Put(c.job, Carried(row[c.job], NextOf(c.when, holding.at)))
           /\ taken' = [taken EXCEPT ![c.job] = IF holding.at < @ THEN 0 ELSE @]
           /\ byHand' = byHand
    BY <1>6 DEF Release, StillHeld, HeldJobs, table
  <2>2. CASE UNCHANGED table
    BY <1>2, <2>2
  <2>3. CASE i # c.job /\ ~UNCHANGED table
    BY <1>1, <2>1, <2>3 DEF Put, Effect, Noted, HistoryKept
  <2>4. CASE i = c.job /\ ~UNCHANGED table
    BY <1>1, <2>1, <2>4 DEF Put, Effect, ReleasedRow
  <2> QED  BY <2>2, <2>3, <2>4
<1>7. ASSUME NEW j \in Jobs, Finish(j)
      PROVE  Effect(i)
  BY <1>1, <1>7 DEF Finish, Put, history, Effect, Noted, HistoryKept
<1>8. ASSUME NEW s \in Slots, NEW j \in Jobs, Pause(s, j)
      PROVE  Effect(i)
  <2>1. CASE i = j
    BY <1>1, <1>8, <2>1 DEF Pause, Put, Effect, ByTheApp
  <2>2. CASE i # j
    BY <1>1, <1>8, <2>2 DEF Pause, Put, Effect, Noted, HistoryKept
  <2> QED  BY <2>1, <2>2
<1>9. ASSUME NEW s \in Slots, NEW j \in Jobs, Delete(s, j)
      PROVE  Effect(i)
  BY <1>1, <1>9 DEF Delete, Put, history, Effect, Noted, HistoryKept
<1>10. ASSUME NEW s \in Slots, NEW j \in Jobs, NEW when \in Whens, Create(s, j, when)
       PROVE  Effect(i)
  BY <1>1, <1>10 DEF Create, history, Effect, Noted, HistoryKept
<1>11. ASSUME NEW s \in Slots, Insert(s)
       PROVE  Effect(i)
  <2>1. CASE i = req[s].job
    BY <1>1, <1>11, <2>1 DEF Insert, Put, history, Effect, ByTheApp, HistoryKept
  <2>2. CASE i # req[s].job
    BY <1>1, <1>11, <2>2 DEF Insert, Put, history, Effect, Noted, HistoryKept
  <2> QED  BY <2>1, <2>2
<1>12. ASSUME NEW s \in Slots, Replace(s) \/ Resumed(s)
       PROVE  Effect(i)
  <2>1. req[s].job \in Jobs /\ req[s].pc \in {"replace", "resume"}
    BY <1>12 DEF Types, Pending, Replace, Resumed
  <2>2. CASE UNCHANGED table
    BY <1>2, <2>2
  <2>3. CASE i # req[s].job /\ ~UNCHANGED table
    BY <1>1, <1>12, <2>3 DEF Replace, Resumed, Write, Put, Effect, Noted, HistoryKept
  <2>4. CASE i = req[s].job /\ ~UNCHANGED table
    <3>1. /\ Here(i) /\ taken'[i] = 0
          /\ \/ /\ row'[i] = Replaced(row[i], req[s].when, req[s].next)
                /\ byHand'[i] = byHand[i]
             \/ /\ row'[i] = Unpaused(row[i], req[s].next)
                /\ ~byHand'[i] /\ ~swept'[i]
      BY <1>1, <1>12, <2>4 DEF Replace, Resumed, Write, Put
    <3> QED  BY <2>1, <3>1 DEF Effect, ByTheApp
  <2> QED  BY <2>2, <2>3, <2>4
<1>13. ASSUME NEW s \in Slots, Started(s)
       PROVE  Effect(i)
  BY <1>1, <1>13 DEF Started, Put, Effect, Noted, HistoryKept
<1> QED
  BY TableFrame, <1>2, <1>3, <1>4, <1>5, <1>6, <1>7, <1>8, <1>9, <1>10, <1>11, <1>12, <1>13
  DEF SchedulerWrites, AppWrites

LEMMA NeverStep ==
    ASSUME Types, [Next]_vars, NEW j \in Jobs
    PROVE  /\ row'[j].here = "never" => row[j].here = "never" /\ HistoryKept(j)
           /\ row[j].here = "never" => \/ row'[j].here = "never"
                                      \/ \E s \in Slots : Insert(s) /\ req[s].job = j
<1>1. row[j] \in Row
  BY DEF Types, TypeOK, TableOK
<1>2. \A s \in Slots : req[s].when \in Whens /\ req[s].next \in Nat
  BY DEF Types, TypeOK, ProcessesOK, ReqType
<1>3. CASE Noted(j)
  <2>1. /\ HistoryKept(j)
        /\ \/ row'[j].here = row[j].here
           \/ Here(j) /\ row'[j].here = "deleted"
    BY <1>1, <1>3, EditFields DEF Noted
  <2> QED  BY <2>1 DEF Here
<1>4. CASE Taken(j) \/ ReleasedRow(j)
  <2>1. Here(j) /\ row'[j].here = row[j].here
    BY <1>1, <1>4, EditFields DEF Taken, ReleasedRow
  <2> QED  BY <2>1 DEF Here
<1>5. CASE ByTheApp(j)
  <2>1. \/ Here(j) /\ row'[j].here = row[j].here
        \/ row'[j].here = "yes" /\ \E s \in Slots : Insert(s) /\ req[s].job = j
    BY <1>1, <1>2, <1>5, EditFields, FreeType DEF ByTheApp
  <2> QED  BY <2>1 DEF Here
<1> QED
  BY <1>3, <1>4, <1>5, Effects DEF Effect

LEMMA InsertFrame ==
    ASSUME Types, [Next]_vars, NEW s \in Slots, req'[s].pc = "insert"
    PROVE  \/ req'[s] = req[s]
           \/ \E j \in Jobs, when \in Whens : Create(s, j, when) /\ req'[s].job = j
<1>1. req \in [Slots -> ReqType] /\ Free.pc = "free"
  BY DEF Types, TypeOK, ProcessesOK, Free
<1>2. CASE req' = req
  BY <1>2
<1>3. CASE SchedulerStep \/ UNCHANGED vars
  BY <1>2, <1>3 DEF SchedulerStep, StartDue, ReadUnfinished, NoteInterrupted, RunDue, TickConverges,
     ReadDue, TickDone, LookInterrupted, StillGoing, FindLate, Miss, TickVars, vars, helper
<1>4. CASE Clock \/ Restart \/ ConvergeStep \/ \E j \in Jobs : RunStep(j)
  BY <1>2, <1>4 DEF Clock, Restart, ConvergeStep, Hold, Released, Release, RunStep, Finish,
     RunReleased, helper, TickVars
<1>5. CASE Crash
  BY <1>1, <1>5 DEF Crash
<1>6. ASSUME NEW t \in Slots, RequestStep(t) \/ ClientGone(t)
      PROVE  req'[s] = req[s]
  <2>1. PICK r : Becomes(t, r) /\ r.pc # "insert"
    <3>1. CASE Describe(t) \/ PutProClock(t) \/ PutProConverges(t)
      <4>1. /\ [req[t] EXCEPT !.pc = "replace", !.next = NextOf(req[t].when, now)].pc = "replace"
            /\ [req[t] EXCEPT !.pc = "lock", !.at = now].pc = "lock"
            /\ [Free EXCEPT !.pc = "converging"].pc = "converging"
        BY <1>1 DEF ReqType, Free
      <4> QED  BY <1>1, <3>1, <4>1 DEF Describe, PutProClock, PutProConverges
    <3>2. CASE Becomes(t, Free)
      BY <1>1, <3>2
    <3> QED  BY <1>6, <3>1, <3>2 DEF RequestStep, ClientGone, Insert, Replace, Resumed, Started,
                                     PutProDone
  <2> QED  BY <1>1, <2>1 DEF Becomes
<1>7. ASSUME NEW t \in Slots, AppAsks(t)
      PROVE  \/ req'[s] = req[s]
             \/ \E j \in Jobs, when \in Whens : Create(s, j, when) /\ req'[s].job = j
  <2>1. CASE \E j \in Jobs, when \in Whens : Create(t, j, when)
    <3>1. PICK j \in Jobs, when \in Whens : Create(t, j, when)
      BY <2>1
    <3>2. [Free EXCEPT !.pc = "insert", !.job = j, !.when = when, !.next = NextOf(when, now)].job = j
      BY DEF Free
    <3> QED  BY <1>1, <3>1, <3>2 DEF Create, Becomes
  <2>2. CASE ~ \E j \in Jobs, when \in Whens : Create(t, j, when)
    <3>1. \/ req' = req
          \/ \E r : Becomes(t, r) /\ r.pc # "insert"
      <4>1. ASSUME NEW j, NEW when, NEW next
            PROVE  /\ [Free EXCEPT !.pc = "resume", !.job = j, !.next = next].pc # "insert"
                   /\ [Free EXCEPT !.pc = "start", !.job = j].pc # "insert"
                   /\ [Free EXCEPT !.pc = "describe", !.job = j, !.when = when].pc # "insert"
                   /\ [Free EXCEPT !.pc = "clock"].pc # "insert"
        BY DEF Free
      <4> QED  BY <1>1, <1>7, <2>2, <4>1 DEF AppAsks, Resume, Pause, Delete, RunNow, Edit, PutPro
    <3> QED  BY <1>1, <3>1 DEF Becomes
  <2> QED  BY <2>1, <2>2
<1> QED
  BY <1>3, <1>4, <1>5, <1>6, <1>7 DEF Next

LEMMA NewJobsStep ==
    ASSUME Types, NewJobs, [Next]_vars
    PROVE  NewJobs'
<1>1. req \in [Slots -> ReqType] /\ Free.pc = "free" /\ Absent("deleted").here = "deleted"
  BY DEF Types, TypeOK, ProcessesOK, Free, Absent
<1>2. ASSUME NEW j \in Jobs, row'[j].here = "never"
      PROVE  ~byHand'[j] /\ ~swept'[j] /\ taken'[j] = 0
  <2>1. row[j].here = "never" /\ HistoryKept(j)
    BY <1>2, NeverStep
  <2> QED  BY <2>1, SweptFrame DEF NewJobs, HistoryKept, Here
<1>3. ASSUME NEW s \in Slots, req'[s].pc = "insert"
      PROVE  row'[req'[s].job].here = "never"
  <2>1. ASSUME NEW j \in Jobs, NEW when \in Whens, Create(s, j, when), req'[s].job = j
        PROVE  row'[j].here = "never"
    BY <2>1 DEF Create, Here
  <2>2. CASE req'[s] = req[s]
    <3>1. req[s].job \in Jobs /\ row[req[s].job].here = "never"
      BY <1>3, <2>2 DEF Types, Pending, NewJobs
    <3>2. ASSUME NEW t \in Slots, Insert(t), req[t].job = req[s].job
          PROVE  FALSE
      BY <1>1, <1>3, <2>2, <3>2 DEF Insert, Becomes, NewJobs
    <3> QED  BY <2>2, <3>1, <3>2, NeverStep
  <2> QED  BY <1>3, <2>1, <2>2, InsertFrame
<1>4. ASSUME NEW s \in Slots, NEW t \in Slots, s # t,
             req'[s].pc = "insert", req'[t].pc = "insert"
      PROVE  req'[s].job # req'[t].job
  <2>1. ASSUME NEW a \in Slots, NEW b \in Slots, a # b, req'[b].pc = "insert",
               NEW j \in Jobs, NEW when \in Whens, Create(a, j, when)
        PROVE  req'[b].job # j
    BY <1>1, <2>1 DEF Create, Becomes
  <2> QED  BY <1>4, <2>1, InsertFrame DEF NewJobs
<1> QED
  BY <1>2, <1>3, <1>4 DEF NewJobs

LEMMA NewJobsInit == Init => NewJobs
BY DEF Init, NewJobs, Free

(***************************************************************************)
(* A pause by hand.                                                        *)
(***************************************************************************)
LEMMA HandStep ==
    ASSUME Types, NewJobs, HandPauseHolds, [Next]_vars
    PROVE  HandPauseHolds'
<1> SUFFICES ASSUME NEW j \in Jobs, row'[j].here = "yes", byHand'[j]
             PROVE  row'[j].paused /\ ~row'[j].held
  BY DEF HandPauseHolds, Here
<1>1. row[j] \in Row /\ byHand \in [Jobs -> BOOLEAN]
  BY DEF Types, TypeOK, TableOK, HistoryOK
<1>2. Here(j) /\ byHand[j] => row[j].paused /\ ~row[j].held
  BY DEF HandPauseHolds
<1>3. CASE Noted(j)
  <2>1. Here(j) /\ byHand[j]
    BY <1>1, <1>3, EditFields DEF Noted, HistoryKept, Here
  <2> QED  BY <1>1, <1>2, <1>3, <2>1, EditFields DEF Noted
<1>4. CASE Taken(j) \/ ReleasedRow(j)
  <2>1. Here(j) /\ byHand[j] /\ (~row[j].paused \/ row[j].held)
    BY <1>4 DEF Taken, ReleasedRow
  <2> QED  BY <1>2, <2>1
<1>5. CASE ByTheApp(j)
  <2>1. CASE row'[j] = PausedByHand(row[j])
    BY <1>1, <2>1, EditFields
  <2>2. ASSUME NEW s \in Slots, Insert(s), req[s].job = j, HistoryKept(j)
        PROVE  FALSE
    BY <2>2 DEF NewJobs, Insert, HistoryKept
  <2>3. ASSUME NEW s \in Slots, Here(j), byHand'[j] = byHand[j],
               row'[j] = Replaced(row[j], req[s].when, req[s].next)
        PROVE  row'[j].paused /\ ~row'[j].held
    BY <1>1, <1>2, <2>3, EditFields
  <2> QED  BY <1>5, <2>1, <2>2, <2>3 DEF ByTheApp
<1> QED
  BY <1>3, <1>4, <1>5, Effects DEF Effect

\* A pause made by hand outlasts every hold and release of a lapse, until
\* the job is resumed by hand: Release lifts only what Hold paused, row by
\* row, though it read the rows before (store.go, Pause, Hold, Release).
THEOREM HandPauseOutlastsLapses == Spec => []HandPauseHolds
<1>1. Init => HandPauseHolds
  BY DEF Init, HandPauseHolds
<1>2. Types /\ NewJobs /\ HandPauseHolds /\ [Next]_vars => (Types /\ NewJobs /\ HandPauseHolds)'
  BY TypesStep, NewJobsStep, HandStep
<1> QED
  BY <1>1, <1>2, TypesInit, NewJobsInit, PTL DEF Spec

(***************************************************************************)
(* A slot is taken once.                                                   *)
(***************************************************************************)
DueList == tick.pc \in {"due", "miss"} => \A c \in tick.list : c.next <= tick.at

LEMMA DueListStep ==
    ASSUME Types, DueList, [Next]_vars
    PROVE  DueList'
<1>1. tick \in TickType /\ tick.at \in Nat
  BY DEF Types, TypeOK, ProcessesOK, TickType
<1>2. CASE tick' = tick
  BY <1>2 DEF DueList
<1>3. ASSUME NEW pc, pc \notin {"due", "miss"}, NEW at, NEW list, tick' = Tick(pc, at, list)
      PROVE  DueList'
  BY <1>3 DEF Tick, DueList
<1>4. CASE ReadUnfinished \/ RunDue \/ TickDone \/ Crash \/ Restart
  BY <1>3, <1>4 DEF ReadUnfinished, RunDue, TickDone, Crash, Restart
<1>5. CASE ReadDue
  <2>1. \A c \in Copies(Due(tick.at)) : c.next <= tick.at
    BY DEF Copies, Copy, Due
  <2> QED  BY <1>5, <2>1 DEF ReadDue, Tick, DueList
<1>6. CASE NoteInterrupted \/ TickConverges
  BY <1>1, <1>6 DEF NoteInterrupted, TickConverges, TickType, DueList
<1>7. ASSUME NEW c \in tick.list,
             \/ LookInterrupted(c) \/ StillGoing(c) \/ FindLate(c) \/ Miss(c) \/ StartDue(c)
      PROVE  DueList'
  <2>1. CASE LookInterrupted(c)
    BY <1>1, <2>1 DEF LookInterrupted, TickType, DueList
  <2>2. CASE StillGoing(c) \/ FindLate(c)
    BY <1>1, <2>2 DEF StillGoing, FindLate, TickType, DueList
  <2>3. CASE Miss(c) \/ StartDue(c)
    BY <1>1, <2>3 DEF Miss, StartDue, TickType, DueList
  <2> QED  BY <1>7, <2>1, <2>2, <2>3
<1>8. CASE SchedulerStep
  BY <1>4, <1>5, <1>6, <1>7, <1>8 DEF SchedulerStep
<1>9. CASE Clock \/ ConvergeStep \/ (\E j \in Jobs : RunStep(j)) \/ UNCHANGED vars
  BY <1>2, <1>9 DEF Clock, ConvergeStep, Hold, Released, Release, RunStep, Finish, RunReleased,
                    vars, helper
<1>10. ASSUME NEW s \in Slots, AppAsks(s) \/ RequestStep(s) \/ ClientGone(s)
       PROVE  tick' = tick
  <2> USE DEF ReqVars
  <2>1. CASE AppAsks(s)
    BY <2>1 DEF AppAsks, Resume, Pause, Delete, RunNow, Create, Edit, PutPro
  <2>2. CASE RequestStep(s)
    BY <2>2 DEF RequestStep, Insert, Describe, Replace, Resumed, Started,
                PutProClock, PutProConverges, PutProDone
  <2> QED  BY <1>10, <2>1, <2>2 DEF ClientGone
<1> QED
  BY <1>2, <1>4, <1>8, <1>9, <1>10 DEF Next

LEMMA OnceStep ==
    ASSUME Types, NewJobs, DueList, TakenOnce, [Next]_vars
    PROVE  TakenOnce'
<1> SUFFICES ASSUME NEW j \in Jobs, row'[j].here = "yes", row'[j].next # NULL
             PROVE  row'[j].next > taken'[j]
  BY DEF TakenOnce, Here
<1>1. /\ row[j] \in Row
      /\ taken[j] \in Nat
      /\ tick.at \in Nat /\ holding.at \in Nat
      /\ \A c \in tick.list : c.when \in Whens /\ c.next \in Nat
      /\ \A c \in holding.list : c.when \in Whens
      /\ \A s \in Slots : req[s].when \in Whens /\ req[s].next \in Nat
  BY DEF Types, TypeOK, TableOK, HistoryOK, ProcessesOK, TickType, HoldingType, CopyType, ReqType
<1>2. Here(j) /\ row[j].next # NULL => row[j].next > taken[j]
  BY DEF TakenOnce
<1>3. CASE Noted(j)
  <2>1. Here(j) /\ row'[j].next = row[j].next /\ taken'[j] = taken[j]
    BY <1>1, <1>3, EditFields DEF Noted, HistoryKept, Here
  <2> QED  BY <1>2, <2>1
<1>4. CASE Taken(j)
  <2>1. PICK c \in tick.list : /\ c.next <= tick.at
                              /\ row'[j].next = After(c.when, tick.at)
                              /\ taken'[j] = c.next
    BY <1>1, <1>4, EditFields DEF Taken, DueList
  <2>2. After(c.when, tick.at) \in Nat /\ After(c.when, tick.at) > tick.at
    BY <1>1, <2>1, NextSlot
  <2> QED  BY <1>1, <2>1, <2>2
<1>5. CASE ReleasedRow(j)
  <2>1. PICK c \in holding.list : row'[j].next = NextOf(c.when, holding.at)
    BY <1>1, <1>5, EditFields DEF ReleasedRow
  <2>2. NextOf(c.when, holding.at) \in Nat /\ NextOf(c.when, holding.at) > holding.at
    BY <1>1, <2>1, NextSlot
  <2>3. taken'[j] = IF holding.at < taken[j] THEN 0 ELSE taken[j]
    BY <1>5 DEF ReleasedRow
  <2> QED  BY <1>1, <2>1, <2>2, <2>3
<1>6. CASE ByTheApp(j)
  <2>1. CASE Here(j) /\ row'[j] = PausedByHand(row[j]) /\ taken'[j] = taken[j]
    BY <1>1, <1>2, <2>1, EditFields
  <2>2. ASSUME NEW s \in Slots, Insert(s), req[s].job = j, HistoryKept(j),
               row'[j] = Booked(req[s].when, req[s].next)
        PROVE  row'[j].next > taken'[j]
    <3>1. taken'[j] = 0
      BY <2>2 DEF NewJobs, Insert, HistoryKept
    <3>2. row'[j].next \in Nat
      BY <1>1, <2>2, FreeType
    <3> QED  BY <3>1, <3>2 DEF NULL
  <2>3. ASSUME NEW s \in Slots, taken'[j] = 0,
               \/ row'[j] = Replaced(row[j], req[s].when, req[s].next)
               \/ row'[j] = Unpaused(row[j], req[s].next)
        PROVE  row'[j].next > taken'[j]
    <3>1. row'[j].next \in Nat
      BY <1>1, <2>3, EditFields
    <3> QED  BY <2>3, <3>1 DEF NULL
  <2> QED  BY <1>6, <2>1, <2>2, <2>3 DEF ByTheApp
<1> QED
  BY <1>3, <1>4, <1>5, <1>6, Effects DEF Effect

\* No slot is run or missed and then scheduled again, unless someone books
\* it again: Claim and Miss book a slot strictly after the clock runDue
\* read, and whatever was due was due by that clock (scheduler.go, startDue,
\* missed; store.go, Claim, Miss, Release).
THEOREM NoSlotTakenTwice == Spec => []TakenOnce
<1> DEFINE Inv == Types /\ NewJobs /\ DueList /\ TakenOnce
<1>1. Init => TakenOnce /\ DueList
  <2>1. \A w \in Whens : NextOf(w, 0) \in Nat
    BY NextSlot
  <2>2. ASSUME Init
        PROVE  TakenOnce
    <3>1. \A j \in Jobs : row[j].next \in Nat /\ taken[j] = 0
      BY <2>2, TypesInit DEF Types, TypeOK, TableOK, Row, Init
    <3> QED  BY <3>1 DEF TakenOnce, NULL
  <2>3. ASSUME Init
        PROVE  DueList
    BY <2>3 DEF Init, DueList, Tick
  <2> QED  BY <2>2, <2>3
<1>2. Inv /\ [Next]_vars => Inv'
  BY TypesStep, NewJobsStep, DueListStep, OnceStep
<1> QED
  BY <1>1, <1>2, TypesInit, NewJobsInit, PTL DEF Spec

(***************************************************************************)
(* What a lapse holds stays held.  While the helper is down nothing is     *)
(* under way; a release under way has read that Pro is back.               *)
(***************************************************************************)
Down ==
    tick.pc = "down" => /\ holding = Unlocked
                        /\ \A s \in Slots : req[s] = Free
                        /\ \A j \in Jobs : ~swept[j]

Swept ==
    /\ \A j \in Jobs : swept[j] => lapsed /\ (Here(j) => row[j].paused)
    /\ holding.list # {} => \A j \in Jobs : ~swept[j]

LEMMA DownStep ==
    ASSUME Types, Down, [Next]_vars
    PROVE  Down'
<1>1. tick \in TickType /\ Free.pc = "free" /\ Unlocked.by = NoOne /\ Unlocked.list = {}
  BY DEF Types, TypeOK, ProcessesOK, Free, Unlocked
<1>2. CASE Crash
  BY <1>2 DEF Crash, Down
<1>3. CASE Restart
  BY <1>3 DEF Restart, Down, Tick
<1>4. CASE SchedulerStep
  <2>1. tick'.pc # "down"
    <3>1. ASSUME NEW pc, NEW at, NEW list, pc # "down", tick' = Tick(pc, at, list)
          PROVE  tick'.pc # "down"
      BY <3>1 DEF Tick
    <3>2. CASE ReadUnfinished \/ RunDue \/ ReadDue \/ TickDone
      BY <3>1, <3>2 DEF ReadUnfinished, RunDue, ReadDue, TickDone
    <3>3. CASE NoteInterrupted \/ TickConverges
      BY <1>1, <3>3 DEF NoteInterrupted, TickConverges, TickType
    <3>4. ASSUME NEW c \in tick.list, LookInterrupted(c) \/ StillGoing(c) \/ FindLate(c)
          PROVE  tick'.pc # "down"
      BY <1>1, <3>4 DEF LookInterrupted, StillGoing, FindLate, TickType
    <3>5. ASSUME NEW c \in tick.list, Miss(c) \/ StartDue(c)
          PROVE  tick'.pc # "down"
      BY <1>1, <3>5 DEF Miss, StartDue, TickType
    <3> QED  BY <1>4, <3>2, <3>3, <3>4, <3>5 DEF SchedulerStep
  <2> QED  BY <2>1 DEF Down
<1>5. CASE Clock \/ (\E j \in Jobs : RunStep(j)) \/ UNCHANGED vars
  BY <1>5 DEF Clock, RunStep, Finish, RunReleased, vars, helper, history, TickVars, Down
<1>6. CASE ConvergeStep
  <2>1. tick' = tick /\ req' = req
    BY <1>6 DEF ConvergeStep, Hold, Released, Release
  <2>2. CASE tick.pc = "down"
    BY <1>1, <1>6, <2>2 DEF ConvergeStep, Hold, Released, Release, Down
  <2> QED  BY <2>1, <2>2 DEF Down
<1>7. ASSUME NEW s \in Slots, AppAsks(s)
      PROVE  Down'
  <2>1. Up /\ tick' = tick
    BY <1>7 DEF AppAsks, Resume, Pause, Delete, RunNow, Create, Edit, PutPro, Ask, ReqVars
  <2> QED  BY <2>1 DEF Down, Up
<1>8. ASSUME NEW s \in Slots, RequestStep(s) \/ ClientGone(s)
      PROVE  Down'
  <2>1. req[s].pc # "free" \/ req[s] # Free
    BY <1>8 DEF RequestStep, Insert, Describe, Replace, Resumed, Started, PutProClock,
       PutProConverges, PutProDone, ClientGone
  <2>2. tick' = tick
    BY <1>8 DEF RequestStep, Insert, Describe, Replace, Resumed, Started, PutProClock,
       PutProConverges, PutProDone, ClientGone, ReqVars
  <2> QED  BY <1>1, <2>1, <2>2 DEF Down
<1> QED
  BY <1>2, <1>3, <1>4, <1>5, <1>6, <1>7, <1>8 DEF Next

LEMMA LapsedFrame ==
    ASSUME Types, Down, Swept, [Next]_vars, NEW j \in Jobs, swept'[j]
    PROVE  lapsed'
<1>1. swept[j] \/ lapsed
  BY SweptFrame
<1>2. lapsed
  BY <1>1 DEF Swept
<1>3. CASE lapsed' = lapsed
  BY <1>2, <1>3
<1>4. CASE Restart
  BY <1>4 DEF Restart, history, Down
<1>5. ASSUME NEW s \in Slots, AppAsks(s)
      PROVE  lapsed'
  <2>1. ASSUME NEW says \in BOOLEAN, NEW saved \in BOOLEAN, PutPro(s, says, saved)
        PROVE  lapsed'
    BY <2>1 DEF PutPro
  <2> QED  BY <1>3, <1>5, <2>1 DEF AppAsks, Resume, Pause, Delete, RunNow, Create, Edit
<1>6. ASSUME NEW s \in Slots, RequestStep(s) \/ ClientGone(s)
      PROVE  lapsed' = lapsed
  BY <1>6 DEF RequestStep, Insert, Describe, Replace, Resumed, Started, PutProClock,
     PutProConverges, PutProDone, ClientGone
<1>7. CASE SchedulerStep
  BY <1>3, <1>7 DEF SchedulerStep, StartDue, ReadUnfinished, NoteInterrupted, RunDue,
     TickConverges, ReadDue, TickDone, LookInterrupted, StillGoing, FindLate, Miss, TickVars
<1>8. CASE Clock \/ Crash \/ ConvergeStep \/ (\E i \in Jobs : RunStep(i)) \/ UNCHANGED vars
  BY <1>3, <1>8 DEF Clock, Crash, ConvergeStep, Hold, Released, Release, RunStep, Finish,
     RunReleased, TickVars, vars
<1> QED
  BY <1>3, <1>4, <1>5, <1>6, <1>7, <1>8 DEF Next

\* A list to release appears only when Pro is back, and Hold leaves none.
LEMMA ReleasingStep ==
    ASSUME Types, Down, Swept, [Next]_vars, NEW j \in Jobs, swept'[j]
    PROVE  holding'.list = {}
<1>1. /\ holding \in HoldingType
      /\ Unlocked.list = {}
  BY DEF Types, TypeOK, ProcessesOK, Unlocked
<1>2. swept[j] \/ Hold
  BY SweptFrame
<1>3. CASE Hold
  BY <1>1, <1>3 DEF Hold
<1>4. CASE swept[j] /\ ~Hold
  <2>1. holding.list = {} /\ lapsed
    BY <1>4 DEF Swept
  <2>2. CASE holding' = holding
    BY <2>1, <2>2
  <2>3. ASSUME NEW who, NEW at, Converge(who, at)
        PROVE  holding'.list = {}
    BY <2>1, <2>3 DEF Converge
  <2>4. CASE SchedulerStep
    BY <2>2, <2>3, <2>4 DEF SchedulerStep, StartDue, ReadUnfinished, NoteInterrupted, RunDue,
       TickConverges, ReadDue, TickDone, LookInterrupted, StillGoing, FindLate, Miss
  <2>5. CASE ConvergeStep
    BY <1>1, <1>4, <2>1, <2>5 DEF ConvergeStep, Released, Release
  <2>6. CASE Clock \/ Restart \/ (\E i \in Jobs : RunStep(i)) \/ UNCHANGED vars
    BY <2>2, <2>6 DEF Clock, Restart, RunStep, Finish, RunReleased, vars, helper
  <2>7. CASE Crash
    BY <1>1, <2>7 DEF Crash
  <2>8. ASSUME NEW s \in Slots, AppAsks(s)
        PROVE  holding' = holding
    BY <2>8 DEF AppAsks, Resume, Pause, Delete, RunNow, Create, Edit, PutPro, ReqVars
  <2>9. ASSUME NEW s \in Slots, RequestStep(s) \/ ClientGone(s)
        PROVE  holding'.list = {}
    <3>1. CASE PutProConverges(s)
      BY <2>3, <3>1 DEF PutProConverges
    <3>2. CASE ClientGone(s)
      BY <1>1, <2>1, <3>2 DEF ClientGone
    <3> QED
      BY <2>2, <2>9, <3>1, <3>2 DEF RequestStep, Insert, Describe, Replace, Resumed, Started,
         PutProClock, PutProDone, ReqVars
  <2> QED
    BY <2>2, <2>4, <2>5, <2>6, <2>7, <2>8, <2>9 DEF Next
<1> QED
  BY <1>2, <1>3, <1>4

LEMMA SweptStep ==
    ASSUME Types, NewJobs, Down, Swept, [Next]_vars
    PROVE  Swept'
<1>1. ASSUME NEW j \in Jobs, swept'[j]
      PROVE  row'[j].here = "yes" => row'[j].paused
  <2>1. row[j] \in Row
    BY DEF Types, TypeOK, TableOK
  <2>2. SUFFICES ASSUME row'[j].here = "yes" PROVE row'[j].paused
    OBVIOUS
  <2>3. CASE Hold
    <3>1. row[j].here = "yes" /\ row[j].next # NULL
      BY <1>1, <2>3 DEF Hold, Here
    <3>2. row'[j] = HoldRow(row[j])
      BY <2>3 DEF Hold
    <3> QED  BY <2>1, <3>1, <3>2 DEF HoldRow, Row
  <2>4. CASE swept[j]
    <3>1. Here(j) => row[j].paused
      BY <2>4 DEF Swept
    <3>2. CASE Noted(j)
      <4>1. Here(j)
        BY <2>1, <2>2, <3>2, EditFields DEF Noted, Here
      <4>2. CASE row'[j] = HoldRow(row[j])
        BY <2>1, <3>1, <4>1, <4>2 DEF HoldRow, Row
      <4> QED  BY <2>1, <2>2, <3>1, <3>2, <4>1, <4>2, EditFields DEF Noted, Absent
    <3>3. CASE Taken(j)
      BY <3>1, <3>3 DEF Taken
    <3>4. CASE ReleasedRow(j)
      BY <2>4, <3>4 DEF ReleasedRow, Swept
    <3>5. CASE ByTheApp(j)
      <4>1. CASE row'[j] = PausedByHand(row[j])
        BY <2>1, <4>1, EditFields
      <4>2. ASSUME NEW s \in Slots, Insert(s), req[s].job = j
            PROVE  FALSE
        BY <2>4, <4>2 DEF NewJobs, Insert
      <4>3. ASSUME NEW s \in Slots, Here(j),
                   row'[j] = Replaced(row[j], req[s].when, req[s].next)
            PROVE  row'[j].paused
        BY <2>1, <3>1, <4>3, EditFields
      <4> QED  BY <1>1, <3>5, <4>1, <4>2, <4>3 DEF ByTheApp
    <3> QED  BY <3>2, <3>3, <3>4, <3>5, Effects DEF Effect
  <2> QED  BY <1>1, <2>3, <2>4, SweptFrame
<1> QED
  BY <1>1, LapsedFrame, ReleasingStep DEF Swept, Here

LEMMA StartsStep ==
    ASSUME Types, Swept, [Next]_vars, NEW j \in Jobs,
           run[j] = "idle", run'[j] = "going", swept[j]
    PROVE  row'[j].next = row[j].next
<1>1. /\ row \in [Jobs -> Row]
      /\ run \in [Jobs -> {"idle", "going", "recorded"}]
  BY DEF Types, TypeOK, TableOK, ProcessesOK
<1>2. run' # run
  OBVIOUS
<1>3. CASE SchedulerStep
  <2>1. PICK c \in tick.list : StartDue(c)
    BY <1>2, <1>3 DEF SchedulerStep, ReadUnfinished, NoteInterrupted, RunDue, TickConverges,
       ReadDue, TickDone, LookInterrupted, StillGoing, FindLate, Miss
  <2>2. c.job = j /\ Unmoved(c)
    BY <1>1, <1>2, <2>1 DEF StartDue
  <2> QED  BY <2>2 DEF Unmoved, Swept
<1>4. CASE ConvergeStep \/ Clock \/ Restart \/ UNCHANGED vars
  BY <1>2, <1>4 DEF ConvergeStep, Hold, Released, Release, Clock, Restart, vars, helper
<1>5. ASSUME NEW i \in Jobs, RunStep(i)
      PROVE  FALSE
  BY <1>1, <1>5 DEF RunStep, Finish, RunReleased, Freed
<1>6. ASSUME NEW s \in Slots, AppAsks(s) \/ ClientGone(s)
      PROVE  FALSE
  BY <1>2, <1>6 DEF AppAsks, Resume, Pause, Delete, RunNow, Create, Edit, PutPro, ClientGone,
     ReqVars
<1>7. ASSUME NEW s \in Slots, RequestStep(s)
      PROVE  row'[j].next = row[j].next
  <2>1. Started(s)
    BY <1>2, <1>7 DEF RequestStep, Insert, Describe, Replace, Resumed, PutProClock,
       PutProConverges, PutProDone, ReqVars
  <2>2. req[s].job = j /\ Put(j, Ran(row[j], "running"))
    BY <1>1, <1>2, <2>1 DEF Started
  <2> QED  BY <1>1, <2>2, EditFields DEF Put
<1>8. CASE Crash
  BY <1>8 DEF Crash
<1> QED
  BY <1>2, <1>3, <1>4, <1>5, <1>6, <1>7, <1>8 DEF Next

\* Once a lapse has held a job, the schedule doesn't start it until Pro is
\* back or someone resumes it, however old the list of due jobs the
\* scheduler is going through (scheduler.go, runDue; store.go, Hold, Claim).
THEOREM HeldJobsDontStart == Spec => NothingStartsHeld
<1> DEFINE Inv == Types /\ NewJobs /\ Down /\ Swept
<1>1. Init => Down /\ Swept
  BY DEF Init, Down, Swept, Tick, Unlocked
<1>2. Inv /\ [Next]_vars => Inv'
  BY TypesStep, NewJobsStep, DownStep, SweptStep
<1>3. Inv /\ [Next]_vars
      => [\A j \in Jobs : run[j] = "idle" /\ run'[j] = "going" /\ swept[j]
                          => row'[j].next = row[j].next]_vars
  BY StartsStep
<1> QED
  BY <1>1, <1>2, <1>3, TypesInit, NewJobsInit, PTL DEF Spec, NothingStartsHeld
=============================================================================
