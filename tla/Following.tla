----------------------------- MODULE Following -----------------------------
(***************************************************************************)
(* How the ends of TrueNAS's jobs get into the activity feed.  Two parts   *)
(* write them: the action log (internal/actions/log.go), for the jobs the  *)
(* assistant started, and the jobs poller (internal/pollers/jobs.go), for  *)
(* every other.  The poller leaves alone the jobs the log has, which it    *)
(* asks the log about one at a time; it reads the newest jobs at each poll *)
(* and keeps track of running ones that are no longer among them.          *)
(*                                                                         *)
(* A job's id grows with its start.  Its end is "loud" when the poller     *)
(* makes an event of it (a failure, or a success worth a row) and "quiet"  *)
(* when it doesn't.  Writing to the feed may fail, and so may each call.   *)
(***************************************************************************)
EXTENDS Naturals, FiniteSets

CONSTANTS
    MaxJobs,     \* jobs TrueNAS starts
    MaxActions,  \* those of them that are the assistant's
    Newest,      \* jobs a poll reads (100)
    MaxRestarts  \* restarts of the helper

ASSUME ConstantsAssumption ==
    MaxJobs \in Nat /\ MaxActions \in Nat /\ Newest \in Nat \ {0} /\ MaxRestarts \in Nat

VARIABLES
    job,       \* each job as TrueNAS has it
    action,    \* where the assistant's action is with its job
    following, \* Log.following: "going" for a zero time, "kept" for an hour
    pc, at,    \* where the poll is, and with which job
    answer,    \* what it read of each job it has yet to go through
    seen, running, \* the poller's fields
    current, still, \* the poll's locals: the next seen and running
    logged, polled, \* ends recorded by the log, and by the poller
    restarts,
    \* history, for the properties
    sawRunning, \* jobs the poller read as running, and hasn't read the end of
    passed,    \* loud ends it left to the log
    gaveUp,    \* jobs the log stopped following
    unwritten, \* ends the log couldn't record
    slipped    \* jobs the poller was past when the log took them, or that it forgot

nasVars  == job
logVars  == <<action, following>>
pollVars == <<pc, at, answer, seen, running, current, still>>
feed     == <<logged, polled>>
history  == <<sawRunning, passed, gaveUp, unwritten, slipped>>
vars     == <<nasVars, logVars, pollVars, feed, restarts, history>>

Jobs == 1..MaxJobs
Ended == {"quiet", "loud"}
Listed == {j \in Jobs : job[j] \in Ended \cup {"running"}}
InWindow(j) == j \in Listed /\ Cardinality({k \in Listed : k > j}) < Newest
NoAnswer == [j \in Jobs |-> "none"]
Todo == {j \in Jobs : answer[j] # "none"}

Init ==
    /\ job = NoAnswer
    /\ action = [j \in Jobs |-> "no"]
    /\ following = [j \in Jobs |-> "no"]
    /\ pc = "idle" /\ at = 0
    /\ answer = NoAnswer
    /\ seen = {} /\ running = {} /\ current = {} /\ still = {}
    /\ logged = {} /\ polled = {}
    /\ restarts = 0
    /\ sawRunning = {} /\ passed = {}
    /\ gaveUp = {} /\ unwritten = {} /\ slipped = {}
-----------------------------------------------------------------------------
(***************************************************************************)
(* TrueNAS.                                                                *)
(***************************************************************************)
\* A job starts, of an action the assistant runs or of anything else.
Starts(j, mine) ==
    /\ job[j] = "none" /\ \A k \in Jobs : k < j => job[k] # "none"
    /\ mine => Cardinality({k \in Jobs : action[k] # "no"}) < MaxActions
    /\ job' = [job EXCEPT ![j] = "running"]
    /\ action' = [action EXCEPT ![j] = IF mine THEN "acting" ELSE "no"]
    /\ UNCHANGED <<following, pollVars, feed, restarts, history>>

Ends(j, how) ==
    /\ job[j] = "running"
    /\ job' = [job EXCEPT ![j] = how]
    /\ UNCHANGED <<logVars, pollVars, feed, restarts, history>>

\* Transient jobs go as they end, old ones make way, and a restart of TrueNAS
\* drops them all.
Goes(j) ==
    /\ j \in Listed
    /\ job' = [job EXCEPT ![j] = "gone"]
    /\ UNCHANGED <<logVars, pollVars, feed, restarts, history>>
-----------------------------------------------------------------------------
(***************************************************************************)
(* The assistant's action, and the log.                                    *)
(***************************************************************************)
\* runJob: the action sees its job end, or leaves it running, for all it
\* knows.
Acted(j) ==
    /\ action[j] = "acting"
    /\ \/ job[j] \in Ended /\ action' = [action EXCEPT ![j] = "through"]
       \/ action' = [action EXCEPT ![j] = "left"]
    /\ UNCHANGED <<job, following, pollVars, feed, restarts, history>>

\* Record's entry.  It tells of the job's end if the action saw it.
Writes(j) ==
    \/ logged' = logged \cup {j} /\ UNCHANGED unwritten
    \/ unwritten' = unwritten \cup {j} /\ UNCHANGED logged

RecordEntry(j) ==
    /\ \/ /\ action[j] = "through"
          /\ Writes(j)
          /\ action' = [action EXCEPT ![j] = "marking"]
       \/ /\ action[j] = "left"
          /\ action' = [action EXCEPT ![j] = "registering"]
          /\ UNCHANGED <<logged, unwritten>>
    /\ UNCHANGED <<job, following, pollVars, polled, restarts, sawRunning,
                   passed, gaveUp, slipped>>

\* Record's last part: mark a job the action saw through, follow one it left.
\* Mutant: a job left running is marked as well.
OnlyMarks(stage) == "kept"
Keeps(stage) == IF stage = "marking" THEN "kept" ELSE "going"

\* The poller is past a job it has recorded, or is recording.
Past(j) == j \in polled \/ (pc = "record" /\ at = j)

Register(j) ==
    /\ action[j] \in {"marking", "registering"}
    /\ following' = [following EXCEPT ![j] = Keeps(action[j])]
    /\ action' = [action EXCEPT ![j] = IF Keeps(action[j]) = "going" THEN "following" ELSE "done"]
    /\ slipped' = IF Past(j) THEN slipped \cup {j} ELSE slipped
    /\ UNCHANGED <<job, pollVars, feed, restarts, sawRunning, passed, gaveUp, unwritten>>

\* The follower sees the job's end, records it and marks the job.
FollowerEnds(j) ==
    /\ action[j] = "following" /\ job[j] \in Ended
    /\ Writes(j)
    /\ action' = [action EXCEPT ![j] = "done"]
    /\ following' = [following EXCEPT ![j] = "kept"]
    /\ UNCHANGED <<job, pollVars, polled, restarts, sawRunning, passed, gaveUp, slipped>>

\* The job outlasted maxFollow, or TrueNAS dropped it.
FollowerGivesUp(j) ==
    /\ action[j] = "following" /\ job[j] \notin Ended
    /\ action' = [action EXCEPT ![j] = "done"]
    /\ following' = [following EXCEPT ![j] = "kept"]
    /\ gaveUp' = gaveUp \cup {j}
    /\ UNCHANGED <<job, pollVars, feed, restarts, sawRunning, passed, unwritten, slipped>>

\* forgetAfter goes by; sweep and Following drop the job.
Forgets(j) ==
    /\ following[j] = "kept"
    /\ following' = [following EXCEPT ![j] = "no"]
    /\ slipped' = slipped \cup {j}
    /\ UNCHANGED <<job, action, pollVars, feed, restarts, sawRunning, passed, gaveUp, unwritten>>

\* Log.Following.  Mutant: a zero time is taken for one long past.
Skip(j) == following[j] \in {"going", "kept"}
-----------------------------------------------------------------------------
(***************************************************************************)
(* A poll.  One that can't read the newest jobs changes nothing.           *)
(***************************************************************************)
Fetch ==
    /\ pc = "idle"
    /\ answer' = [j \in Jobs |-> IF InWindow(j) THEN job[j] ELSE "none"]
    /\ pc' = "departed"
    /\ UNCHANGED <<nasVars, logVars, at, seen, running, current, still, feed, restarts,
                   history>>

\* withDeparted: the jobs last seen running that have left the window are
\* asked for by id.  Mutants: the window's are asked for too; those it couldn't
\* ask about are dropped; those it asked about are kept.
Away == running \ Todo
Dropped(answered) == {}
Unfetched(answered) == IF answered THEN {} ELSE Away

AskDeparted(answered) ==
    /\ pc = "departed"
    /\ answer' = IF answered
                 THEN [j \in Jobs |-> IF j \in Away \cap Listed THEN job[j] ELSE answer[j]]
                 ELSE answer
    /\ still' = Unfetched(answered)
    /\ pc' = "jobs"
    /\ UNCHANGED <<nasVars, logVars, at, seen, running, current, feed, restarts, history>>

\* Oldest first.
Oldest(j) == j \in Todo /\ \A k \in Todo : j <= k

\* A job still running, or whose end needs no event: seen before, the log's,
\* or quiet.
PassRunning(j) ==
    /\ pc = "jobs" /\ Oldest(j) /\ answer[j] = "running"
    /\ answer' = [answer EXCEPT ![j] = "none"]
    /\ still' = still \cup {j}
    /\ sawRunning' = sawRunning \cup {j}
    /\ UNCHANGED <<nasVars, logVars, pc, at, seen, running, current, feed, restarts, passed, gaveUp, unwritten, slipped>>

PassEnded(j) ==
    /\ pc = "jobs" /\ Oldest(j) /\ answer[j] \in Ended
    /\ j \in seen \/ Skip(j) \/ answer[j] = "quiet"
    /\ answer' = [answer EXCEPT ![j] = "none"]
    /\ current' = current \cup {j}
    /\ sawRunning' = sawRunning \ {j}
    /\ passed' = IF j \notin seen /\ answer[j] = "loud" THEN passed \cup {j} ELSE passed
    /\ UNCHANGED <<nasVars, logVars, pc, at, seen, running, still, feed, restarts, gaveUp, unwritten, slipped>>

TakeUp(j) ==
    /\ pc = "jobs" /\ Oldest(j) /\ answer[j] = "loud"
    /\ j \notin seen /\ ~Skip(j)
    /\ answer' = [answer EXCEPT ![j] = "none"]
    /\ at' = j /\ pc' = "record"
    /\ sawRunning' = sawRunning \ {j}
    /\ UNCHANGED <<nasVars, logVars, seen, running, current, still, feed, restarts, passed, gaveUp, unwritten, slipped>>

\* Ingest.  A failed one is left for the next poll.  Mutant: it counts as seen.
SeenAnyway(ok) == current \cup {at}
NowSeen(ok) == IF ok THEN current \cup {at} ELSE current

RecordEnd(ok) ==
    /\ pc = "record"
    /\ polled' = IF ok THEN polled \cup {at} ELSE polled
    /\ current' = NowSeen(ok)
    /\ pc' = "jobs"
    /\ UNCHANGED <<nasVars, logVars, at, answer, seen, running, still, logged, restarts,
                   sawRunning, passed, gaveUp, unwritten, slipped>>

EndPoll ==
    /\ pc = "jobs" /\ Todo = {}
    /\ seen' = current /\ running' = still
    /\ current' = {} /\ still' = {}
    /\ pc' = "idle" /\ at' = 0
    /\ UNCHANGED <<nasVars, logVars, answer, feed, restarts,
                   sawRunning, passed, gaveUp, unwritten, slipped>>

\* The helper stops, at any point, and starts again with the feed it had.
Restart ==
    /\ restarts < MaxRestarts
    /\ restarts' = restarts + 1
    /\ action' = [j \in Jobs |-> IF action[j] \in {"no", "done"} THEN action[j] ELSE "cut"]
    /\ following' = [j \in Jobs |-> "no"]
    /\ pc' = "idle" /\ at' = 0
    /\ answer' = NoAnswer
    /\ seen' = {} /\ running' = {} /\ current' = {} /\ still' = {}
    /\ sawRunning' = {} /\ passed' = {}
    /\ gaveUp' = {} /\ unwritten' = {} /\ slipped' = {}
    /\ UNCHANGED <<nasVars, feed>>

Log(j) == Acted(j) \/ RecordEntry(j) \/ Register(j)
Poll ==
    \/ Fetch \/ EndPoll
    \/ \E answered \in BOOLEAN : AskDeparted(answered)
    \/ \E j \in Jobs : PassRunning(j) \/ PassEnded(j) \/ TakeUp(j)
    \/ \E ok \in BOOLEAN : RecordEnd(ok)

Next ==
    \/ \E j \in Jobs, mine \in BOOLEAN : Starts(j, mine)
    \/ \E j \in Jobs, how \in Ended : Ends(j, how)
    \/ \E j \in Jobs : Goes(j)
    \/ \E j \in Jobs : Log(j) \/ FollowerEnds(j) \/ FollowerGivesUp(j) \/ Forgets(j)
    \/ Poll
    \/ Restart

Spec == Init /\ [][Next]_vars

\* Polls come round, whatever fails; TrueNAS can't fail to answer for ever, nor
\* the feed to be written.
FairSpec ==
    /\ Spec
    /\ WF_vars(Poll)
    /\ SF_vars(AskDeparted(TRUE)) /\ SF_vars(RecordEnd(TRUE))
-----------------------------------------------------------------------------
TypeOK ==
    /\ job \in [Jobs -> {"none", "running", "quiet", "loud", "gone"}]
    /\ action \in [Jobs -> {"no", "acting", "through", "left", "marking", "registering",
                            "following", "done", "cut"}]
    /\ following \in [Jobs -> {"no", "going", "kept"}]
    /\ pc \in {"idle", "departed", "jobs", "record"}
    /\ at \in 0..MaxJobs
    /\ answer \in [Jobs -> {"none", "running", "quiet", "loud"}]
    /\ seen \subseteq Jobs /\ running \subseteq Jobs
    /\ current \subseteq Jobs /\ still \subseteq Jobs
    /\ logged \subseteq Jobs /\ polled \subseteq Jobs
    /\ restarts \in 0..MaxRestarts
    /\ sawRunning \subseteq Jobs /\ passed \subseteq Jobs
    /\ gaveUp \subseteq Jobs /\ unwritten \subseteq Jobs /\ slipped \subseteq Jobs
    /\ current \cap still = {} /\ Todo \cap still = {} /\ seen \cap running = {}

(***************************************************************************)
(* "One that leaves the newest hundred before it ends (a scrub that takes  *)
(* days) is asked for by id, so its end isn't missed" (jobs.go): between   *)
(* polls, every job the poller has read as running is one it will ask for, *)
(* until it has read its end or TrueNAS has dropped it, whatever calls     *)
(* failed.                                                                 *)
(***************************************************************************)
RunningIsKept ==
    pc = "idle" => \A j \in sawRunning : j \in running \/ job[j] = "gone"

(***************************************************************************)
(* A loud end the poller leaves to the log isn't lost: the log has         *)
(* recorded it, or is still following the job, unless it gave up or its    *)
(* own write failed.                                                       *)
(***************************************************************************)
LeftToItsEntry ==
    \A j \in passed : j \in logged \cup gaveUp \cup unwritten \/ action[j] = "following"

(***************************************************************************)
(* The log and the poller both record a job's end only if the poller was   *)
(* past it when the log took it, or the hour the log keeps it was up, or   *)
(* the helper was restarted.                                               *)
(***************************************************************************)
TwiceOnlyIf ==
    \A j \in logged \cap polled :
       restarts > 0 \/ j \in slipped \/ action[j] = "marking"

(***************************************************************************)
(* A loud end that stays among the newest, of a job the log doesn't have,  *)
(* gets into the feed in the end, however many writes fail.                *)
(***************************************************************************)
LoudEndsShow ==
    \A j \in Jobs :
       <>[](job[j] = "loud" /\ InWindow(j) /\ action[j] \in {"no", "cut"})
          => <>(j \in polled)

(***************************************************************************)
(* The poller doesn't ask for ever for a job that has ended or is gone.    *)
(***************************************************************************)
NothingAskedForEver ==
    \A j \in Jobs : []<>(j \notin running \/ job[j] = "running")

(***************************************************************************)
(* Between them the log and the poller record an end, and once: what the   *)
(* poller leaves to the log is its, and both have it only where named.     *)
(***************************************************************************)
EndsRecordedOnce == LeftToItsEntry /\ TwiceOnlyIf

(***************************************************************************)
(* Every end is reached: a loud one shows, and no job is asked for for     *)
(* ever, however many calls and writes fail.                               *)
(***************************************************************************)
EndsAreReached == LoudEndsShow /\ NothingAskedForEver
=============================================================================
