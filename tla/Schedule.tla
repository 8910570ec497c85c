------------------------------ MODULE Schedule ------------------------------
(***************************************************************************)
(* What is booked, and who runs it (internal/schedule/store.go,            *)
(* scheduler.go, http.go), with the app's word on Zephyr Pro as far as it  *)
(* holds bookings (internal/pro/pro.go).                                   *)
(*                                                                         *)
(* The jobs are rows of one SQLite table on one connection, so each        *)
(* statement is one step; whatever is read is a copy by the next.  Three   *)
(* kinds of process write them: the scheduler's loop, the runs it          *)
(* launches, and the app's requests.  A request may end between any two    *)
(* of its steps (its context goes with the client), and the helper may     *)
(* crash and restart at any point: the table and the Pro file stay, the    *)
(* rest is lost.                                                           *)
(*                                                                         *)
(* Time is a number.  A repeating job's slots are the multiples of Period; *)
(* a one-off has the one slot it names.  0 is a next_run of NULL.          *)
(***************************************************************************)
EXTENDS Naturals, FiniteSets

CONSTANTS
    Jobs,        \* job ids; each is booked at most once
    Slots,       \* requests the app may have under way at once
    NoJob,
    NoOne, Sched, \* who has the holding lock: no one, the scheduler, a slot
    MaxJobs,     \* what can be booked at once (50)
    Period,      \* between a repeating job's runs
    LateBy,      \* how late a run may still start (2 h)
    OnceAt,      \* the times a one-off is booked for
    MaxTime,     \* bound: the clock
    MaxRequests, \* bound: requests the app makes
    MaxCrashes   \* bound: crashes of the helper

ASSUME ConstantsAssumption ==
    /\ NoJob \notin Jobs
    /\ NoOne \notin Slots \cup {Sched}
    /\ Sched \notin Slots
    /\ MaxJobs \in Nat
    /\ Period \in Nat \ {0}
    /\ LateBy \in Nat
    /\ OnceAt \subseteq Nat \ {0}
    /\ MaxTime \in Nat
    /\ MaxRequests \in Nat
    /\ MaxCrashes \in Nat

VARIABLES
    now,      \* the clock
    row,      \* the jobs table
    lapsed,   \* pro.Store's state in memory
    onFile,   \* and in its file
    run,      \* Scheduler.running, and the goroutine that goes with it
    tick,     \* the scheduler's loop
    holding,  \* the holding mutex and what its holder is doing
    req,      \* the app's requests under way
    asked,    \* requests made
    crashes,  \* crashes so far
    \* history, for the properties
    taken,    \* the slot last claimed or missed since someone booked it
    byHand,   \* the job was paused by hand and not resumed since
    swept     \* held or paused since Pro lapsed, and not resumed by hand

table   == <<row, taken, byHand>>
helper  == <<run, tick, holding, req>>
history == <<taken, byHand, swept>>
bounds  == <<asked, crashes>>
vars    == <<now, row, lapsed, onFile, helper, bounds, history>>

(***************************************************************************)
(* When.Next: the first slot after t, NULL for a one-off whose time has    *)
(* passed.                                                                 *)
(***************************************************************************)
Repeating == 0
NULL == 0

NextOrSame(when, t) ==
    IF when = Repeating THEN ((t + Period - 1) \div Period) * Period
    ELSE IF when >= t THEN when ELSE NULL

NextOf(when, t) ==
    IF when = Repeating THEN (t \div Period + 1) * Period
    ELSE IF when > t THEN when ELSE NULL

AfterKeepsSlot(when, t) == IF when = Repeating THEN NextOrSame(when, t) ELSE NULL

\* What startDue and missed book: a one-off isn't booked again.
After(when, t) == IF when = Repeating THEN NextOf(when, t) ELSE NULL

(***************************************************************************)
(* The table.                                                              *)
(***************************************************************************)
Whens == {Repeating} \cup OnceAt
Statuses == {"none", "running", "ran", "missed", "skipped", "interrupted"}

Row == [here: {"never", "yes", "deleted"}, next: Nat, when: Whens,
        paused: BOOLEAN, held: BOOLEAN, status: Statuses]

Absent(here) == [here |-> here, next |-> NULL, when |-> Repeating,
                 paused |-> FALSE, held |-> FALSE, status |-> "none"]

Booked(when, next) == [Absent("yes") EXCEPT !.when = when, !.next = next]

Here(j)   == row[j].here = "yes"
HeldJobs  == {j \in Jobs : Here(j) /\ row[j].held}
Copy(j)   == [job |-> j, next |-> row[j].next, when |-> row[j].when]
Copies(S) == {Copy(j) : j \in S}
CopyType  == [job: Jobs, next: Nat, when: Whens]

Put(j, r) == row' = [row EXCEPT ![j] = r]

Ran(r, status) == [r EXCEPT !.status = status]

\* A claim or a miss: the next run is booked with the status.
Advanced(r, next, status) == [r EXCEPT !.next = next, !.status = status]

UnmovedOrPaused(c) == Here(c.job) /\ row[c.job].next = c.next

\* The row a conditional UPDATE of Claim or Miss finds.
Unmoved(c) == /\ Here(c.job)
              /\ ~row[c.job].paused
              /\ row[c.job].next = c.next

(***************************************************************************)
(* Processes.                                                              *)
(***************************************************************************)
Free == [pc |-> "free", job |-> NoJob, when |-> Repeating, next |-> NULL, at |-> 0]
ReqType == [pc: {"free", "insert", "describe", "replace", "resume", "start",
                 "clock", "lock", "converging"},
            job: Jobs \cup {NoJob}, when: Whens, next: Nat, at: Nat]

TickType == [pc: {"down", "boot", "interrupts", "note", "waiting", "converge",
                  "converging", "due", "miss"},
             at: Nat, list: SUBSET CopyType, job: Jobs \cup {NoJob}]
Tick(pc, at, list) == [pc |-> pc, at |-> at, list |-> list, job |-> NoJob]

Unlocked == [by |-> NoOne, mode |-> "hold", at |-> 0, list |-> {}]
HoldingType == [by: Slots \cup {NoOne, Sched}, mode: {"hold", "release"},
                at: Nat, list: SUBSET CopyType]

Up == tick.pc # "down"

Init ==
    /\ now = 0
    /\ row \in [Jobs -> {Absent("never")}
                        \cup {Booked(w, NextOf(w, 0)) : w \in Whens}]
    /\ Cardinality({j \in Jobs : Here(j)}) <= MaxJobs
    /\ lapsed \in BOOLEAN
    /\ onFile = lapsed
    /\ run = [j \in Jobs |-> "idle"]
    /\ tick = Tick("boot", 0, {})
    /\ holding = Unlocked
    /\ req = [s \in Slots |-> Free]
    /\ asked = 0
    /\ crashes = 0
    /\ taken = [j \in Jobs |-> 0]
    /\ byHand = [j \in Jobs |-> FALSE]
    /\ swept = [j \in Jobs |-> FALSE]

Clock ==
    /\ now < MaxTime
    /\ now' = now + 1
    /\ UNCHANGED <<row, lapsed, onFile, helper, bounds, history>>

(***************************************************************************)
(* Converge: hold everything while Pro has lapsed, release the lapse's     *)
(* pauses once it hasn't, under one lock.  The scheduler's tick and the    *)
(* app's PUT /pro both do it, and wait while holding.by is themselves.     *)
(***************************************************************************)
Converge(who, at) ==
    /\ holding.by = NoOne
    /\ holding' = IF lapsed
                  THEN [by |-> who, mode |-> "hold", at |-> 0, list |-> {}]
                  ELSE IF HeldJobs = {} THEN holding
                  ELSE [by |-> who, mode |-> "release", at |-> at,
                        list |-> Copies(HeldJobs)]

HoldRow(r) ==
    IF r.here = "yes" /\ ~r.paused /\ r.next # NULL
    THEN [r EXCEPT !.paused = TRUE, !.held = TRUE] ELSE r

Hold ==
    /\ holding.by # NoOne
    /\ holding.mode = "hold"
    /\ row' = [j \in Jobs |-> HoldRow(row[j])]
    /\ holding' = Unlocked
    /\ swept' = [j \in Jobs |-> lapsed /\ Here(j) /\ row[j].next # NULL]
    /\ UNCHANGED <<now, lapsed, onFile, run, tick, req, bounds, taken, byHand>>

ReadAsHeld(c) == Here(c.job)

StillHeld(c) == c.job \in HeldJobs

\* One whose time passed is done with, as skipped.
Carried(r, next) ==
    [r EXCEPT !.paused = FALSE, !.held = FALSE, !.next = next,
              !.status = IF next = NULL THEN "skipped" ELSE @]

\* Release's UPDATE of one job it read as held.  The slot is booked afresh
\* when the clock was read before the slot was taken.
Release(c) ==
    LET next == NextOf(c.when, holding.at)
    IN /\ c \in holding.list
       /\ holding' = [holding EXCEPT !.list = @ \ {c}]
       /\ IF StillHeld(c)
          THEN /\ Put(c.job, Carried(row[c.job], next))
               /\ taken' = [taken EXCEPT ![c.job] = IF holding.at < @ THEN 0 ELSE @]
          ELSE UNCHANGED <<row, taken>>
       /\ UNCHANGED <<now, lapsed, onFile, run, tick, req, bounds, byHand, swept>>

Released ==
    /\ holding.by # NoOne
    /\ holding.mode = "release"
    /\ holding.list = {}
    /\ holding' = Unlocked
    /\ UNCHANGED <<now, lapsed, onFile, run, tick, req, table, bounds, swept>>

(***************************************************************************)
(* The scheduler's loop.                                                   *)
(***************************************************************************)
TickVars == <<now, lapsed, onFile, req, bounds>>

ReadUnfinished ==
    /\ tick.pc = "boot"
    /\ tick' = Tick("interrupts", 0,
                    Copies({j \in Jobs : Here(j) /\ row[j].status = "running"}))
    /\ UNCHANGED <<TickVars, row, run, holding, history>>

\* interrupted looks whether Run Now has it going before it notes it.
LookInterrupted(c) ==
    /\ tick.pc = "interrupts"
    /\ c \in tick.list
    /\ tick' = [tick EXCEPT !.list = @ \ {c},
                            !.pc = IF run[c.job] = "idle" THEN "note" ELSE @,
                            !.job = IF run[c.job] = "idle" THEN c.job ELSE @]
    /\ UNCHANGED <<TickVars, row, run, holding, history>>

NoteInterrupted ==
    /\ tick.pc = "note"
    /\ tick' = [tick EXCEPT !.pc = "interrupts", !.job = NoJob]
    /\ IF Here(tick.job) THEN Put(tick.job, Ran(row[tick.job], "interrupted"))
                         ELSE row' = row
    /\ UNCHANGED <<TickVars, run, holding, taken, byHand, swept>>

\* runDue reads the clock once, and goes by that throughout.
RunDue ==
    /\ \/ tick.pc = "waiting"
       \/ tick.pc = "interrupts" /\ tick.list = {}
    /\ tick' = Tick("converge", now, {})
    /\ UNCHANGED <<TickVars, row, run, holding, history>>

TickOnlyHolds ==
    /\ tick.pc = "converge"
    /\ IF lapsed THEN Converge(Sched, tick.at) ELSE UNCHANGED holding
    /\ tick' = [tick EXCEPT !.pc = "converging"]
    /\ UNCHANGED <<TickVars, row, run, history>>

TickConverges ==
    /\ tick.pc = "converge"
    /\ Converge(Sched, tick.at)
    /\ tick' = [tick EXCEPT !.pc = "converging"]
    /\ UNCHANGED <<TickVars, row, run, history>>

Due(at) == {j \in Jobs : Here(j) /\ ~row[j].paused
                         /\ row[j].next # NULL /\ row[j].next <= at}

\* Nothing runs while Pro has lapsed; otherwise what is due is read.
ReadDue ==
    /\ tick.pc = "converging"
    /\ holding.by # Sched
    /\ tick' = IF lapsed THEN Tick("waiting", 0, {})
               ELSE Tick("due", tick.at, Copies(Due(tick.at)))
    /\ UNCHANGED <<TickVars, row, run, holding, history>>

Soonest(c) == c \in tick.list /\ \A d \in tick.list : c.next <= d.next

TooLate(c) == tick.at > c.next + LateBy

\* A run of it from Run Now is still going: this one waits.
StillGoing(c) ==
    /\ tick.pc = "due"
    /\ Soonest(c)
    /\ run[c.job] # "idle"
    /\ tick' = [tick EXCEPT !.list = @ \ {c}]
    /\ UNCHANGED <<TickVars, row, run, holding, history>>

FindLate(c) ==
    /\ tick.pc = "due"
    /\ Soonest(c)
    /\ run[c.job] = "idle"
    /\ TooLate(c)
    /\ tick' = [tick EXCEPT !.pc = "miss", !.job = c.job]
    /\ UNCHANGED <<TickVars, row, run, holding, history>>

Miss(c) ==
    /\ tick.pc = "miss"
    /\ c \in tick.list
    /\ c.job = tick.job
    /\ tick' = [tick EXCEPT !.pc = "due", !.list = @ \ {c}, !.job = NoJob]
    /\ IF Unmoved(c)
       THEN /\ Put(c.job, Advanced(row[c.job], After(c.when, tick.at), "missed"))
            /\ taken' = [taken EXCEPT ![c.job] = c.next]
       ELSE UNCHANGED <<row, taken>>
    /\ UNCHANGED <<TickVars, run, holding, byHand, swept>>

\* reserve, Claim and launch.
StartDue(c) ==
    /\ tick.pc = "due"
    /\ Soonest(c)
    /\ run[c.job] = "idle"
    /\ ~TooLate(c)
    /\ tick' = [tick EXCEPT !.list = @ \ {c}]
    /\ IF Unmoved(c)
       THEN /\ Put(c.job, Advanced(row[c.job], After(c.when, tick.at), "running"))
            /\ run' = [run EXCEPT ![c.job] = "going"]
            /\ taken' = [taken EXCEPT ![c.job] = c.next]
       ELSE UNCHANGED <<row, run, taken>>
    /\ UNCHANGED <<TickVars, holding, byHand, swept>>

TickDone ==
    /\ tick.pc = "due"
    /\ tick.list = {}
    /\ tick' = Tick("waiting", 0, {})
    /\ UNCHANGED <<TickVars, row, run, holding, history>>

(***************************************************************************)
(* A run: it ends, its outcome is recorded, and its id is released.        *)
(***************************************************************************)
FinishForgets(j) ==
    /\ run[j] = "going"
    /\ run' = [run EXCEPT ![j] = "recorded"]
    /\ UNCHANGED <<TickVars, row, tick, holding, history>>

Finish(j) ==
    /\ run[j] = "going"
    /\ run' = [run EXCEPT ![j] = "recorded"]
    /\ IF Here(j) THEN Put(j, Ran(row[j], "ran")) ELSE row' = row
    /\ UNCHANGED <<TickVars, tick, holding, history>>

NeverFreed == "recorded"

Freed == "idle"

RunReleased(j) ==
    /\ run[j] = "recorded"
    /\ run' = [run EXCEPT ![j] = Freed]
    /\ UNCHANGED <<TickVars, row, tick, holding, history>>

(***************************************************************************)
(* The app's requests.  Pause and delete are one statement each; the       *)
(* others read first and write later.                                      *)
(***************************************************************************)
ReqVars == <<now, run, tick, holding, crashes>>

Ask(s) ==
    /\ Up
    /\ req[s] = Free
    /\ asked < MaxRequests
    /\ asked' = asked + 1

Becomes(s, r) == req' = [req EXCEPT ![s] = r]

\* The client is gone: the request ends where it is, and lets go of the lock.
ClientGone(s) ==
    /\ req[s] # Free
    /\ Becomes(s, Free)
    /\ holding' = IF holding.by = s THEN Unlocked ELSE holding
    /\ UNCHANGED <<now, lapsed, onFile, run, tick, table, bounds, swept>>

\* create and Add: the first run is worked out, old one-offs done with go,
\* and what is booked is counted.  How long ago they were done is not kept.
Create(s, j, when) ==
    /\ Ask(s)
    /\ row[j].here = "never"
    /\ \A t \in Slots : ~(req[t].pc = "insert" /\ req[t].job = j)
    /\ NextOf(when, now) # NULL
    /\ \E old \in SUBSET {i \in Jobs : Here(i) /\ row[i].next = NULL} :
         row' = [i \in Jobs |-> IF i \in old THEN Absent("deleted") ELSE row[i]]
    /\ IF Cardinality({i \in Jobs : Here(i) /\ row[i].next # NULL}) < MaxJobs
       THEN Becomes(s, [Free EXCEPT !.pc = "insert", !.job = j, !.when = when,
                                    !.next = NextOf(when, now)])
       ELSE req' = req
    /\ UNCHANGED <<ReqVars, lapsed, onFile, history>>

Insert(s) ==
    /\ req[s].pc = "insert"
    /\ Becomes(s, Free)
    /\ Put(req[s].job, Booked(req[s].when, req[s].next))
    /\ UNCHANGED <<ReqVars, lapsed, onFile, asked, history>>

\* edit: read it (one done with is refused), write its new card from the
\* NAS, work out its first run, and replace it.
Edit(s, j, when) ==
    /\ Ask(s)
    /\ Here(j)
    /\ row[j].next # NULL
    /\ Becomes(s, [Free EXCEPT !.pc = "describe", !.job = j, !.when = when])
    /\ UNCHANGED <<ReqVars, row, lapsed, onFile, history>>

Describe(s) ==
    LET next == NextOf(req[s].when, now)
    IN /\ req[s].pc = "describe"
       /\ Becomes(s, IF next = NULL THEN Free
                     ELSE [req[s] EXCEPT !.pc = "replace", !.next = next])
       /\ UNCHANGED <<ReqVars, row, lapsed, onFile, asked, history>>

\* A statement that finds no row answers that it's no longer booked.
Write(s, new, ghost) ==
    LET j == req[s].job
    IN IF Here(j)
       THEN /\ Put(j, new)
            /\ taken' = [taken EXCEPT ![j] = 0]
            /\ byHand' = [byHand EXCEPT ![j] = ghost]
       ELSE UNCHANGED table

Replaced(r, when, next) == [r EXCEPT !.when = when, !.next = next]

Replace(s) ==
    /\ req[s].pc = "replace"
    /\ Becomes(s, Free)
    /\ Write(s, Replaced(row[req[s].job], req[s].when, req[s].next),
             byHand[req[s].job])
    /\ UNCHANGED <<ReqVars, lapsed, onFile, asked, swept>>

\* resume: read it, and carry on from its next slot, when there is one.
Resume(s, j) ==
    /\ Ask(s)
    /\ Here(j)
    /\ Becomes(s, IF NextOf(row[j].when, now) = NULL THEN Free
                  ELSE [Free EXCEPT !.pc = "resume", !.job = j,
                                    !.next = NextOf(row[j].when, now)])
    /\ UNCHANGED <<ReqVars, row, lapsed, onFile, history>>

Unpaused(r, next) == [r EXCEPT !.paused = FALSE, !.held = FALSE, !.next = next]

Resumed(s) ==
    /\ req[s].pc = "resume"
    /\ Becomes(s, Free)
    /\ Write(s, Unpaused(row[req[s].job], req[s].next), FALSE)
    /\ swept' = [swept EXCEPT ![req[s].job] = FALSE]
    /\ UNCHANGED <<ReqVars, lapsed, onFile, asked>>

PausedByHand(r) == [r EXCEPT !.paused = TRUE, !.held = FALSE]

Pause(s, j) ==
    /\ Ask(s)
    /\ Here(j)
    /\ Put(j, PausedByHand(row[j]))
    /\ byHand' = [byHand EXCEPT ![j] = TRUE]
    /\ UNCHANGED <<ReqVars, req, lapsed, onFile, taken, swept>>

Delete(s, j) ==
    /\ Ask(s)
    /\ Here(j)
    /\ Put(j, Absent("deleted"))
    /\ UNCHANGED <<ReqVars, req, lapsed, onFile, history>>

\* RunNow: refused while Pro has lapsed, then reserve, Started and launch.
RunNow(s, j) ==
    /\ Ask(s)
    /\ Here(j)
    /\ ~lapsed
    /\ Becomes(s, [Free EXCEPT !.pc = "start", !.job = j])
    /\ UNCHANGED <<ReqVars, row, lapsed, onFile, history>>

Started(s) ==
    LET j == req[s].job
    IN /\ req[s].pc = "start"
       /\ Becomes(s, Free)
       /\ IF Here(j) /\ run[j] = "idle"
          THEN /\ Put(j, Ran(row[j], "running"))
               /\ run' = [run EXCEPT ![j] = "going"]
          ELSE UNCHANGED <<row, run>>
       /\ UNCHANGED <<now, tick, holding, bounds, lapsed, onFile, taken, byHand, swept>>

\* PUT /pro: Set takes effect whether or not its file can be written.
PutPro(s, says, saved) ==
    /\ Ask(s)
    /\ lapsed' = says
    /\ onFile' = IF saved THEN says ELSE onFile
    /\ swept' = [j \in Jobs |-> swept[j] /\ says]
    /\ Becomes(s, [Free EXCEPT !.pc = "clock"])
    /\ UNCHANGED <<ReqVars, row, taken, byHand>>

PutProClock(s) ==
    /\ req[s].pc = "clock"
    /\ Becomes(s, [req[s] EXCEPT !.pc = "lock", !.at = now])
    /\ UNCHANGED <<ReqVars, row, lapsed, onFile, asked, history>>

PutProConverges(s) ==
    /\ req[s].pc = "lock"
    /\ Converge(s, req[s].at)
    /\ Becomes(s, [Free EXCEPT !.pc = "converging"])
    /\ UNCHANGED <<now, run, tick, bounds, row, lapsed, onFile, history>>

PutProDone(s) ==
    /\ req[s].pc = "converging"
    /\ holding.by # s
    /\ Becomes(s, Free)
    /\ UNCHANGED <<ReqVars, row, lapsed, onFile, asked, history>>

(***************************************************************************)
(* The helper stops where it is, and starts again.                         *)
(***************************************************************************)
Crash ==
    /\ Up
    /\ crashes < MaxCrashes
    /\ crashes' = crashes + 1
    /\ tick' = Tick("down", 0, {})
    /\ run' = [j \in Jobs |-> "idle"]
    /\ holding' = Unlocked
    /\ req' = [s \in Slots |-> Free]
    /\ swept' = [j \in Jobs |-> FALSE]
    /\ UNCHANGED <<now, row, lapsed, onFile, asked, taken, byHand>>

Restart ==
    /\ tick.pc = "down"
    /\ tick' = Tick("boot", 0, {})
    /\ lapsed' = onFile
    /\ UNCHANGED <<now, row, onFile, run, holding, req, bounds, history>>

(***************************************************************************)
(* The specification.                                                      *)
(***************************************************************************)
SchedulerStep ==
    \/ ReadUnfinished \/ NoteInterrupted
    \/ RunDue \/ TickConverges \/ ReadDue \/ TickDone
    \/ \E c \in tick.list : \/ LookInterrupted(c) \/ StillGoing(c)
                            \/ FindLate(c) \/ Miss(c) \/ StartDue(c)

ConvergeStep == Hold \/ Released \/ \E c \in holding.list : Release(c)

RunStep(j) == Finish(j) \/ RunReleased(j)

AppAsks(s) ==
    \/ \E j \in Jobs : \/ Resume(s, j) \/ Pause(s, j) \/ Delete(s, j) \/ RunNow(s, j)
                       \/ \E when \in Whens : Create(s, j, when) \/ Edit(s, j, when)
    \/ \E says, saved \in BOOLEAN : PutPro(s, says, saved)

RequestStep(s) ==
    \/ Insert(s) \/ Describe(s) \/ Replace(s) \/ Resumed(s) \/ Started(s)
    \/ PutProClock(s) \/ PutProConverges(s) \/ PutProDone(s)

Next ==
    \/ Clock
    \/ SchedulerStep
    \/ ConvergeStep
    \/ \E j \in Jobs : RunStep(j)
    \/ \E s \in Slots : AppAsks(s) \/ RequestStep(s) \/ ClientGone(s)
    \/ Crash
    \/ Restart

Spec == Init /\ [][Next]_vars

\* The goroutines keep running, and the helper is restarted when it stops:
\* its container is.  Nothing makes the app ask, or a client stay.
Fairness ==
    /\ WF_vars(SchedulerStep)
    /\ WF_vars(ConvergeStep)
    /\ \A j \in Jobs : WF_vars(RunStep(j))
    /\ \A s \in Slots : WF_vars(RequestStep(s))
    /\ WF_vars(Restart)

FairSpec == Spec /\ Fairness

(***************************************************************************)
(* Properties.                                                             *)
(***************************************************************************)
TableOK ==
    /\ row \in [Jobs -> Row]
    /\ \A j \in Jobs : row[j].held => row[j].paused /\ row[j].next # NULL

ProcessesOK ==
    /\ run \in [Jobs -> {"idle", "going", "recorded"}]
    /\ tick \in TickType
    /\ holding \in HoldingType
    /\ req \in [Slots -> ReqType]

HistoryOK ==
    /\ taken \in [Jobs -> Nat]
    /\ byHand \in [Jobs -> BOOLEAN]
    /\ swept \in [Jobs -> BOOLEAN]

\* Everything has its type, and a pause of the lapse's is a pause of
\* something booked: Hold and Release keep to their rows.
TypeOK ==
    /\ now \in 0..MaxTime
    /\ lapsed \in BOOLEAN /\ onFile \in BOOLEAN
    /\ asked \in 0..MaxRequests
    /\ crashes \in 0..MaxCrashes
    /\ TableOK
    /\ ProcessesOK
    /\ HistoryOK

\* A slot that was run or missed isn't on the schedule again unless someone
\* booked it again: not after a crash, a stale copy of the job, a hold and
\* its release, or a Run Now (Claim books the next run before the run).
TakenOnce ==
    \A j \in Jobs : Here(j) /\ row[j].next # NULL => row[j].next > taken[j]

\* A pause made by hand lasts until it's resumed, whatever a lapse of Pro
\* holds and releases meanwhile (Pause, Hold, Release).
HandPauseHolds ==
    \A j \in Jobs : Here(j) /\ byHand[j] => row[j].paused /\ ~row[j].held

\* Once a job was held for a lapse of Pro that lasts, the schedule doesn't
\* start it unless someone resumes it: not from a list of due jobs read
\* before either (runDue, Claim).
NothingStartsHeld ==
    [][\A j \in Jobs : run[j] = "idle" /\ run'[j] = "going" /\ swept[j]
                       => row'[j].next = row[j].next]_vars

\* A one-off done with isn't brought back by an edit (http.go, edit: "Done
\* with, it's not brought back: that's booking it again.").
DoneIsNotEditedBack ==
    [][\A s \in Slots :
         req[s].pc = "replace" /\ Here(req[s].job) /\ row[req[s].job].next = NULL
         => row'[req[s].job].next = NULL]_vars

\* What is due is run or missed, unless it's paused, moved or removed first
\* (runDue every tickEvery): a run of it from Run Now only delays it.
DueIsTaken ==
    \A j \in Jobs, t \in 1..MaxTime :
        (j \in Due(now) /\ row[j].next = t) ~> ~(j \in Due(now) /\ row[j].next = t)

\* Nothing shows as running for good: its run ends, or the next start notes
\* it (interrupted).
RunningEnds ==
    \A j \in Jobs : (row[j].status = "running") ~> (row[j].status # "running")

\* Once Pro is back, the lapse's pauses are lifted, even when the request
\* that said so ended partway (Converge on every tick).
HeldIsLifted ==
    \A j \in Jobs : (j \in HeldJobs /\ ~lapsed) ~> (j \notin HeldJobs \/ lapsed)
=============================================================================
