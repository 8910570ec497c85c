-------------------------- MODULE Following_proofs --------------------------
(***************************************************************************)
(* Proofs about the action log and the jobs poller, for any number of jobs *)
(* and actions, any window and any number of restarts.                     *)
(***************************************************************************)
EXTENDS Following, TLAPS

\* Where the poller is says what its locals hold.
Shape ==
    /\ pc = "idle" => answer = NoAnswer
    /\ pc \in {"idle", "departed"} => current = {} /\ still = {}
    /\ Todo \cap current = {}
    /\ pc = "record" => at \in Jobs /\ at \notin Todo \cup still

TypeInv == TypeOK /\ Shape

LEMMA TypesInit == Init => TypeInv
<1> SUFFICES ASSUME Init PROVE TypeInv
    OBVIOUS
<1>1. TypeOK
    BY ConstantsAssumption DEF Init, TypeOK, NoAnswer, Jobs, Todo
<1>2. Shape
    BY DEF Init, Shape, NoAnswer, Todo
<1> QED
    BY <1>1, <1>2 DEF TypeInv

\* TrueNAS and the log leave the poller's fields alone.
LEMMA AroundTypes ==
    ASSUME TypeInv, UNCHANGED <<pc, at, answer, seen, running, current, still>>,
           job' \in [Jobs -> {"none", "running", "quiet", "loud", "gone"}],
           action' \in [Jobs -> {"no", "acting", "through", "left", "marking", "registering",
                                 "following", "done", "cut"}],
           following' \in [Jobs -> {"no", "going", "kept"}],
           logged' \subseteq Jobs, polled' \subseteq Jobs, restarts' = restarts,
           sawRunning' = sawRunning, passed' = passed,
           gaveUp' \subseteq Jobs, unwritten' \subseteq Jobs, slipped' \subseteq Jobs
    PROVE  TypeInv'
BY DEF TypeInv, TypeOK, Shape, Todo, NoAnswer

\* A poll leaves TrueNAS and the log alone.
LEMMA PollTypes ==
    ASSUME TypeInv, UNCHANGED <<job, action, following, logged, restarts, gaveUp, unwritten, slipped>>,
           pc' \in {"idle", "departed", "jobs", "record"}, at' \in 0..MaxJobs,
           answer' \in [Jobs -> {"none", "running", "quiet", "loud"}],
           seen' \subseteq Jobs, running' \subseteq Jobs, current' \subseteq Jobs,
           still' \subseteq Jobs, polled' \subseteq Jobs, sawRunning' \subseteq Jobs,
           passed' \subseteq Jobs,
           current' \cap still' = {}, Todo' \cap still' = {}, seen' \cap running' = {}
    PROVE  TypeOK'
BY DEF TypeInv, TypeOK

LEMMA TodoLess ==
    ASSUME TypeInv, NEW j \in Jobs, answer' = [answer EXCEPT ![j] = "none"]
    PROVE  /\ Todo' = Todo \ {j}
           /\ answer' \in [Jobs -> {"none", "running", "quiet", "loud"}]
BY DEF TypeInv, TypeOK, Todo

LEMMA TypesStep == TypeInv /\ [Next]_vars => TypeInv'
<1> SUFFICES ASSUME TypeInv, [Next]_vars PROVE TypeInv'
    OBVIOUS
<1> USE DEF vars, nasVars, logVars, pollVars, feed, history
<1>1. ASSUME NEW j \in Jobs, NEW mine \in BOOLEAN, Starts(j, mine) PROVE TypeInv'
    BY <1>1, AroundTypes DEF Starts, TypeInv, TypeOK
<1>2. ASSUME NEW j \in Jobs, NEW how \in Ended, Ends(j, how) PROVE TypeInv'
    BY <1>2, AroundTypes DEF Ends, Ended, TypeInv, TypeOK
<1>3. ASSUME NEW j \in Jobs, Goes(j) PROVE TypeInv'
    BY <1>3, AroundTypes DEF Goes, TypeInv, TypeOK
<1>4. ASSUME NEW j \in Jobs, Acted(j) PROVE TypeInv'
    BY <1>4, AroundTypes DEF Acted, TypeInv, TypeOK
<1>5. ASSUME NEW j \in Jobs, RecordEntry(j) PROVE TypeInv'
    BY <1>5, AroundTypes DEF RecordEntry, Writes, TypeInv, TypeOK
<1>6. ASSUME NEW j \in Jobs, Register(j) PROVE TypeInv'
    BY <1>6, AroundTypes DEF Register, Keeps, TypeInv, TypeOK
<1>7. ASSUME NEW j \in Jobs, FollowerEnds(j) PROVE TypeInv'
    BY <1>7, AroundTypes DEF FollowerEnds, Writes, TypeInv, TypeOK
<1>8. ASSUME NEW j \in Jobs, FollowerGivesUp(j) PROVE TypeInv'
    BY <1>8, AroundTypes DEF FollowerGivesUp, TypeInv, TypeOK
<1>9. ASSUME NEW j \in Jobs, Forgets(j) PROVE TypeInv'
    BY <1>9, AroundTypes DEF Forgets, TypeInv, TypeOK
<1>10. ASSUME Fetch PROVE TypeInv'
  <2>1. answer' \in [Jobs -> {"none", "running", "quiet", "loud"}]
      BY <1>10 DEF Fetch, InWindow, Listed, Ended, TypeInv, TypeOK
  <2>2. current' = {} /\ still' = {}
      BY <1>10 DEF Fetch, TypeInv, Shape
  <2>3. TypeOK'
      BY <1>10, <2>1, <2>2, PollTypes DEF Fetch, TypeInv, TypeOK
  <2>4. Shape'
      BY <1>10, <2>2 DEF Fetch, Shape
  <2> QED BY <2>3, <2>4 DEF TypeInv
<1>11. ASSUME NEW answered \in BOOLEAN, AskDeparted(answered) PROVE TypeInv'
  <2>1. answer' \in [Jobs -> {"none", "running", "quiet", "loud"}]
      BY <1>11 DEF AskDeparted, Away, Listed, Ended, TypeInv, TypeOK
  <2>2. still' \subseteq Jobs
      BY <1>11 DEF AskDeparted, Unfetched, Away, TypeInv, TypeOK
  <2>3. current' = {}
      BY <1>11 DEF AskDeparted, TypeInv, Shape
  <2>4. Todo' \cap still' = {}
      BY <1>11 DEF AskDeparted, Unfetched, Away, Todo
  <2>5. TypeOK'
      BY <1>11, <2>1, <2>2, <2>3, <2>4, PollTypes DEF AskDeparted, TypeInv, TypeOK
  <2>6. Shape'
      BY <1>11, <2>3 DEF AskDeparted, Shape
  <2> QED BY <2>5, <2>6 DEF TypeInv
<1>12. ASSUME NEW j \in Jobs, PassRunning(j) PROVE TypeInv'
  <2>1. Todo' = Todo \ {j} /\ answer' \in [Jobs -> {"none", "running", "quiet", "loud"}]
      BY <1>12, TodoLess DEF PassRunning
  <2>2. j \in Todo /\ still' = still \cup {j} /\ current' = current /\ j \notin current
      BY <1>12 DEF PassRunning, Oldest, TypeInv, Shape
  <2>3. TypeOK'
      BY <1>12, <2>1, <2>2, PollTypes DEF PassRunning, TypeInv, TypeOK
  <2>4. Shape'
      BY <1>12, <2>1, <2>2 DEF PassRunning, TypeInv, Shape
  <2> QED BY <2>3, <2>4 DEF TypeInv
<1>13. ASSUME NEW j \in Jobs, PassEnded(j) PROVE TypeInv'
  <2>1. Todo' = Todo \ {j} /\ answer' \in [Jobs -> {"none", "running", "quiet", "loud"}]
      BY <1>13, TodoLess DEF PassEnded
  <2>2. j \in Todo /\ current' = current \cup {j} /\ still' = still
      BY <1>13 DEF PassEnded, Oldest
  <2>3. j \notin still
      BY <2>2 DEF TypeInv, TypeOK
  <2>4. TypeOK'
      BY <1>13, <2>1, <2>2, <2>3, PollTypes DEF PassEnded, TypeInv, TypeOK
  <2>5. Shape'
      BY <1>13, <2>1, <2>2 DEF PassEnded, TypeInv, Shape
  <2> QED BY <2>4, <2>5 DEF TypeInv
<1>14. ASSUME NEW j \in Jobs, TakeUp(j) PROVE TypeInv'
  <2>1. Todo' = Todo \ {j} /\ answer' \in [Jobs -> {"none", "running", "quiet", "loud"}]
      BY <1>14, TodoLess DEF TakeUp
  <2>2. j \in Todo /\ at' = j /\ pc' = "record"
      BY <1>14 DEF TakeUp, Oldest
  <2>3. j \notin still /\ at' \in 0..MaxJobs
      BY <2>2, ConstantsAssumption DEF TypeInv, TypeOK, Jobs
  <2>4. TypeOK'
      BY <1>14, <2>1, <2>2, <2>3, PollTypes DEF TakeUp, TypeInv, TypeOK
  <2>5. Shape'
      BY <1>14, <2>1, <2>2, <2>3 DEF TakeUp, TypeInv, Shape
  <2> QED BY <2>4, <2>5 DEF TypeInv
<1>15. ASSUME NEW ok \in BOOLEAN, RecordEnd(ok) PROVE TypeInv'
  <2>1. at \in Jobs /\ at \notin Todo \cup still
      BY <1>15 DEF RecordEnd, TypeInv, Shape
  <2>2. current' \subseteq current \cup {at} /\ Todo' = Todo /\ pc' = "jobs"
      BY <1>15 DEF RecordEnd, NowSeen, Todo
  <2>3. TypeOK'
      BY <1>15, <2>1, <2>2, PollTypes DEF RecordEnd, TypeInv, TypeOK
  <2>4. Shape'
      BY <2>1, <2>2 DEF TypeInv, Shape
  <2> QED BY <2>3, <2>4 DEF TypeInv
<1>16. ASSUME EndPoll PROVE TypeInv'
  <2>1. answer' = answer /\ Todo' = {} /\ current' = {} /\ still' = {} /\ pc' = "idle"
      BY <1>16 DEF EndPoll, Todo
  <2>2. answer' = NoAnswer
      BY <1>16, <2>1 DEF EndPoll, NoAnswer, Todo, TypeInv, TypeOK
  <2>3. at' \in 0..MaxJobs
      BY <1>16, ConstantsAssumption DEF EndPoll
  <2>4. TypeOK'
      BY <1>16, <2>1, <2>3, PollTypes DEF EndPoll, TypeInv, TypeOK
  <2>5. Shape'
      BY <2>1, <2>2 DEF Shape
  <2> QED BY <2>4, <2>5 DEF TypeInv
<1>17. ASSUME Restart PROVE TypeInv'
  <2>1. Todo' = {}
      BY <1>17 DEF Restart, Todo, NoAnswer
  <2>2. TypeOK'
      BY <1>17, <2>1, ConstantsAssumption DEF Restart, NoAnswer, TypeInv, TypeOK
  <2>3. Shape'
      BY <1>17, <2>1 DEF Restart, Shape, NoAnswer
  <2> QED BY <2>2, <2>3 DEF TypeInv
<1>18. ASSUME UNCHANGED vars PROVE TypeInv'
    BY <1>18 DEF TypeInv, TypeOK, Shape, Todo, NoAnswer
<1> QED
    BY <1>1, <1>2, <1>3, <1>4, <1>5, <1>6, <1>7, <1>8, <1>9, <1>10, <1>11, <1>12, <1>13, <1>14,
       <1>15, <1>16, <1>17, <1>18 DEF Next, Log, Poll

(***************************************************************************)
(* Every variable keeps its type: in particular, the poller's next seen    *)
(* and running never share a job, nor do they when it has taken them over. *)
(***************************************************************************)
THEOREM TypeCorrect == Spec => []TypeOK
<1>1. TypeInv => TypeOK
    BY DEF TypeInv
<1> QED
    BY <1>1, TypesInit, TypesStep, PTL DEF Spec
-----------------------------------------------------------------------------
(***************************************************************************)
(* What the poller has read as running, at each stage of a poll.           *)
(***************************************************************************)
Kept ==
    /\ \A j \in sawRunning : job[j] # "none"
    /\ \A j \in Todo : job[j] # "none"
    /\ pc \in {"idle", "departed"} =>
          \A j \in sawRunning : j \in running \/ job[j] = "gone"
    /\ pc \in {"jobs", "record"} =>
          \A j \in sawRunning : j \in still \cup Todo \/ job[j] = "gone"

\* TrueNAS never has a job start again or come back.
LEMMA KeptAround ==
    ASSUME TypeInv, Kept, UNCHANGED <<pollVars, sawRunning>>,
           \A j \in Jobs : job[j] # "none" => job'[j] # "none",
           \A j \in Jobs : job[j] = "gone" => job'[j] = "gone"
    PROVE  Kept'
<1>1. /\ Todo' = Todo
      /\ UNCHANGED <<pc, running, still, sawRunning>>
    BY DEF pollVars, Todo
<1>2. Todo \subseteq Jobs /\ sawRunning \subseteq Jobs
    BY DEF TypeInv, TypeOK, Todo
<1> QED
    BY <1>1, <1>2 DEF Kept

LEMMA KeptStep == TypeInv /\ Kept /\ [Next]_vars => Kept'
<1> SUFFICES ASSUME TypeInv, Kept, [Next]_vars PROVE Kept'
    OBVIOUS
<1> USE DEF vars, nasVars, logVars, feed, history
<1>t. /\ sawRunning \subseteq Jobs /\ running \subseteq Jobs
      /\ job \in [Jobs -> {"none", "running", "quiet", "loud", "gone"}]
    BY DEF TypeInv, TypeOK
<1>1. ASSUME NEW j \in Jobs, NEW mine \in BOOLEAN, Starts(j, mine) PROVE Kept'
    BY <1>1, <1>t, KeptAround DEF Starts
<1>2. ASSUME NEW j \in Jobs, NEW how \in Ended, Ends(j, how) PROVE Kept'
    BY <1>2, <1>t, KeptAround DEF Ends, Ended
<1>3. ASSUME NEW j \in Jobs, Goes(j) PROVE Kept'
    BY <1>3, <1>t, KeptAround DEF Goes
<1>4. ASSUME NEW j \in Jobs, Log(j) \/ FollowerEnds(j) \/ FollowerGivesUp(j) \/ Forgets(j)
      PROVE  Kept'
    BY <1>4, KeptAround
       DEF Log, Acted, RecordEntry, Register, FollowerEnds, FollowerGivesUp, Forgets
<1>5. ASSUME Fetch PROVE Kept'
  <2>1. \A j \in Todo' : job[j] # "none"
      BY <1>5 DEF Fetch, Todo, InWindow, Listed, Ended
  <2> QED BY <1>5, <2>1 DEF Fetch, Kept
<1>6. ASSUME NEW answered \in BOOLEAN, AskDeparted(answered) PROVE Kept'
  <2>1. job' = job /\ sawRunning' = sawRunning /\ pc = "departed" /\ pc' = "jobs"
      BY <1>6 DEF AskDeparted
  <2>2. \A j \in Todo' : job[j] # "none"
      BY <1>6 DEF AskDeparted, Todo, Listed, Ended, Kept
  <2>3. ASSUME NEW j \in sawRunning, job[j] # "gone" PROVE j \in still' \cup Todo'
    <3>1. j \in Jobs /\ j \in running /\ j \in Listed
        BY <2>1, <2>3, <1>t DEF Kept, Listed, Ended
    <3>2. CASE j \in Todo
        BY <1>6, <3>1, <3>2 DEF AskDeparted, Todo, Away
    <3>3. CASE j \notin Todo /\ ~answered
        BY <1>6, <3>1, <3>3 DEF AskDeparted, Unfetched, Away
    <3>4. CASE j \notin Todo /\ answered
      <4>1. j \in Away \cap Listed
          BY <3>1, <3>4 DEF Away
      <4>2. answer'[j] = job[j] /\ job[j] # "none"
          BY <1>6, <3>1, <3>4, <4>1 DEF AskDeparted, Kept
      <4> QED BY <3>1, <4>2 DEF Todo
    <3> QED BY <3>2, <3>3, <3>4
  <2> QED BY <2>1, <2>2, <2>3 DEF Kept
<1>7. ASSUME NEW j \in Jobs, PassRunning(j) PROVE Kept'
  <2>1. Todo' = Todo \ {j}
      BY <1>7, TodoLess DEF PassRunning
  <2> QED BY <1>7, <2>1 DEF PassRunning, Oldest, Kept
<1>8. ASSUME NEW j \in Jobs, PassEnded(j) \/ TakeUp(j) PROVE Kept'
  <2>1. Todo' = Todo \ {j}
      BY <1>8, TodoLess DEF PassEnded, TakeUp
  <2> QED BY <1>8, <2>1 DEF PassEnded, TakeUp, Kept
<1>9. ASSUME NEW ok \in BOOLEAN, RecordEnd(ok) PROVE Kept'
  <2>1. Todo' = Todo
      BY <1>9 DEF RecordEnd, Todo
  <2> QED BY <1>9, <2>1 DEF RecordEnd, Kept
<1>10. ASSUME EndPoll PROVE Kept'
  <2>1. Todo' = Todo
      BY <1>10 DEF EndPoll, Todo
  <2> QED BY <1>10, <2>1 DEF EndPoll, Kept
<1>11. ASSUME Restart PROVE Kept'
    BY <1>11 DEF Restart, Kept, Todo, NoAnswer
<1>12. ASSUME UNCHANGED vars PROVE Kept'
    BY <1>12 DEF pollVars, Kept, Todo
<1> QED
    BY <1>1, <1>2, <1>3, <1>4, <1>5, <1>6, <1>7, <1>8, <1>9, <1>10, <1>11, <1>12 DEF Next, Poll

(***************************************************************************)
(* A job the poller has read as running is asked for until its end is read *)
(* or TrueNAS drops it, whichever calls fail.                              *)
(***************************************************************************)
THEOREM RunningIsKeptHolds == Spec => []RunningIsKept
<1>1. Init => Kept
    BY DEF Init, Kept, Todo, NoAnswer
<1>2. Kept => RunningIsKept
    BY DEF Kept, RunningIsKept
<1> QED
    BY <1>1, <1>2, TypesInit, TypesStep, KeptStep, PTL DEF Spec
-----------------------------------------------------------------------------
(***************************************************************************)
(* What the log says of a job, what it is doing with it and what the feed  *)
(* has of it.                                                              *)
(***************************************************************************)
Settled(j) == j \in logged \cup gaveUp \cup unwritten

Taken ==
    \A j \in Jobs :
       /\ job[j] = "none" => action[j] = "no"
       /\ following[j] = "going" => action[j] = "following"
       /\ action[j] = "following" => following[j] = "going"
       /\ following[j] = "kept" => Settled(j)
       /\ action[j] = "marking" => j \in logged \cup unwritten
       /\ following[j] # "no" => action[j] \in {"following", "done"}
       /\ following[j] # "no" /\ Past(j) => j \in slipped
       /\ restarts = 0 /\ j \in logged =>
             action[j] = "marking" \/ following[j] = "kept" \/ j \in slipped

LogInv == LeftToItsEntry /\ TwiceOnlyIf /\ Taken

LEMMA LogInvInit == Init => LogInv
BY DEF Init, LogInv, LeftToItsEntry, TwiceOnlyIf, Taken, Past, NoAnswer

\* Steps that leave the log and the feed alone, and of TrueNAS start nothing.
LEMMA LogIdle ==
    ASSUME following \in [Jobs -> {"no", "going", "kept"}], restarts \in Nat,
           LogInv, UNCHANGED <<logVars, logged, gaveUp, unwritten, slipped, restarts>>,
           \A j \in Jobs : job[j] # "none" => job'[j] # "none",
           \A j \in Jobs : Past(j)' => Past(j) \/ following[j] = "no",
           \A j \in polled' : j \in polled \/ (pc = "record" /\ at = j /\ j \in Jobs),
           \A j \in passed' : j \in passed \/ (j \in Jobs /\ following[j] # "no"),
           \A j \in polled : j \in Jobs
    PROVE  LogInv'
<1>1. Taken'
    BY DEF LogInv, logVars, Taken, Settled
<1>2. LeftToItsEntry'
    BY DEF LogInv, logVars, LeftToItsEntry, Taken, Settled
<1>3. TwiceOnlyIf'
  <2> SUFFICES ASSUME NEW j \in logged, j \in polled', restarts = 0, j \notin slipped
               PROVE  action[j] = "marking"
      BY DEF TwiceOnlyIf, logVars
  <2>1. CASE j \in polled
      BY <2>1 DEF LogInv, TwiceOnlyIf
  <2>2. CASE pc = "record" /\ at = j /\ j \in Jobs
      BY <2>2 DEF LogInv, Taken, Past
  <2> QED BY <2>1, <2>2
<1> QED
    BY <1>1, <1>2, <1>3 DEF LogInv

LEMMA LogInvStep == TypeInv /\ LogInv /\ [Next]_vars => LogInv'
<1> SUFFICES ASSUME TypeInv, LogInv, [Next]_vars PROVE LogInv'
    OBVIOUS
<1> USE DEF nasVars, feed, history
<1>t. /\ action \in [Jobs -> {"no", "acting", "through", "left", "marking", "registering",
                              "following", "done", "cut"}]
      /\ following \in [Jobs -> {"no", "going", "kept"}]
      /\ job \in [Jobs -> {"none", "running", "quiet", "loud", "gone"}]
      /\ passed \subseteq Jobs /\ logged \subseteq Jobs /\ polled \subseteq Jobs
      /\ restarts \in Nat
    BY ConstantsAssumption DEF TypeInv, TypeOK
<1>1. ASSUME NEW j \in Jobs, NEW mine \in BOOLEAN, Starts(j, mine) PROVE LogInv'
  <2>1. /\ action' = [action EXCEPT ![j] = IF mine THEN "acting" ELSE "no"]
        /\ job' = [job EXCEPT ![j] = "running"] /\ job[j] = "none"
        /\ UNCHANGED <<following, logged, polled, restarts, passed, gaveUp, unwritten, slipped, pc, at>>
      BY <1>1 DEF Starts, pollVars
  <2>2. following[j] = "no" /\ action[j] = "no"
      BY <2>1, <1>t DEF LogInv, Taken
  <2>3. Taken'
      BY <2>1, <2>2, <1>t DEF LogInv, Taken, Settled, Past
  <2>4. LeftToItsEntry'
      BY <2>1, <2>2, <1>t DEF LogInv, LeftToItsEntry
  <2>5. TwiceOnlyIf'
      BY <2>1, <2>2, <1>t DEF LogInv, TwiceOnlyIf
  <2> QED BY <2>3, <2>4, <2>5 DEF LogInv
<1>2. ASSUME NEW j \in Jobs, NEW how \in Ended, Ends(j, how) PROVE LogInv'
    BY <1>2, <1>t, LogIdle DEF Ends, Ended, pollVars, Past
<1>3. ASSUME NEW j \in Jobs, Goes(j) PROVE LogInv'
    BY <1>3, <1>t, LogIdle DEF Goes, pollVars, Past
<1>4. ASSUME NEW j \in Jobs, Acted(j) PROVE LogInv'
  <2>1. /\ action[j] = "acting"
        /\ \/ action' = [action EXCEPT ![j] = "through"]
           \/ action' = [action EXCEPT ![j] = "left"]
        /\ UNCHANGED <<job, following, logged, polled, restarts, passed, gaveUp, unwritten, slipped, pc, at>>
      BY <1>4 DEF Acted, pollVars
  <2>2. following[j] = "no" /\ job[j] # "none"
      BY <2>1, <1>t DEF LogInv, Taken
  <2>3. Taken'
      BY <2>1, <2>2, <1>t DEF LogInv, Taken, Settled, Past
  <2>4. LeftToItsEntry' /\ TwiceOnlyIf'
      BY <2>1, <2>2, <1>t DEF LogInv, LeftToItsEntry, TwiceOnlyIf
  <2> QED BY <2>3, <2>4 DEF LogInv
<1>5. ASSUME NEW j \in Jobs, RecordEntry(j) PROVE LogInv'
  <2>1. /\ action[j] \in {"through", "left"}
        /\ action' = [action EXCEPT ![j] = IF action[j] = "through" THEN "marking" ELSE "registering"]
        /\ logged \subseteq logged' /\ logged' \subseteq logged \cup {j}
        /\ unwritten \subseteq unwritten'
        /\ action[j] = "through" => j \in logged' \cup unwritten'
        /\ action[j] = "left" => logged' = logged
        /\ UNCHANGED <<job, following, polled, restarts, passed, gaveUp, slipped, pc, at>>
      BY <1>5, <1>t DEF RecordEntry, Writes, pollVars
  <2>2. following[j] = "no" /\ job[j] # "none"
      BY <2>1, <1>t DEF LogInv, Taken
  <2>3. Taken'
      BY <2>1, <2>2, <1>t DEF LogInv, Taken, Settled, Past
  <2>4. LeftToItsEntry'
      BY <2>1, <2>2, <1>t DEF LogInv, LeftToItsEntry
  <2>5. TwiceOnlyIf'
      BY <2>1, <2>2, <1>t DEF LogInv, TwiceOnlyIf
  <2> QED BY <2>3, <2>4, <2>5 DEF LogInv
<1>6. ASSUME NEW j \in Jobs, Register(j) PROVE LogInv'
  <2>1. /\ action[j] \in {"marking", "registering"}
        /\ following' = [following EXCEPT ![j] = IF action[j] = "marking" THEN "kept" ELSE "going"]
        /\ action' = [action EXCEPT ![j] = IF action[j] = "marking" THEN "done" ELSE "following"]
        /\ slipped' = IF Past(j) THEN slipped \cup {j} ELSE slipped
        /\ UNCHANGED <<job, logged, polled, restarts, passed, gaveUp, unwritten, pc, at>>
      BY <1>6 DEF Register, Keeps, pollVars
  <2>2. job[j] # "none" /\ following[j] = "no"
      BY <2>1, <1>t DEF LogInv, Taken
  <2>3. \A k : Past(k)' <=> Past(k)
      BY <2>1 DEF Past
  <2>4. Taken'
      BY <2>1, <2>2, <2>3, <1>t DEF LogInv, Taken, Settled
  <2>5. LeftToItsEntry'
      BY <2>1, <2>2, <1>t DEF LogInv, LeftToItsEntry, Taken
  <2>6. TwiceOnlyIf'
      BY <2>1, <1>t DEF LogInv, TwiceOnlyIf, Past
  <2> QED BY <2>4, <2>5, <2>6 DEF LogInv
<1>7. ASSUME NEW j \in Jobs, FollowerEnds(j) PROVE LogInv'
  <2>1. /\ action[j] = "following"
        /\ action' = [action EXCEPT ![j] = "done"]
        /\ following' = [following EXCEPT ![j] = "kept"]
        /\ logged \subseteq logged' /\ logged' \subseteq logged \cup {j}
        /\ unwritten \subseteq unwritten' /\ j \in logged' \cup unwritten'
        /\ UNCHANGED <<job, polled, restarts, passed, gaveUp, slipped, pc, at>>
      BY <1>7 DEF FollowerEnds, Writes, pollVars
  <2>2. job[j] # "none" /\ following[j] = "going"
      BY <2>1, <1>t DEF LogInv, Taken
  <2>3. \A k : Past(k)' <=> Past(k)
      BY <2>1 DEF Past
  <2>4. Taken'
      BY <2>1, <2>2, <2>3, <1>t DEF LogInv, Taken, Settled
  <2>5. LeftToItsEntry'
      BY <2>1, <2>2, <1>t DEF LogInv, LeftToItsEntry
  <2>6. TwiceOnlyIf'
      BY <2>1, <2>2, <1>t DEF LogInv, TwiceOnlyIf, Taken, Past
  <2> QED BY <2>4, <2>5, <2>6 DEF LogInv
<1>8. ASSUME NEW j \in Jobs, FollowerGivesUp(j) PROVE LogInv'
  <2>1. /\ action[j] = "following"
        /\ action' = [action EXCEPT ![j] = "done"]
        /\ following' = [following EXCEPT ![j] = "kept"]
        /\ gaveUp' = gaveUp \cup {j}
        /\ UNCHANGED <<job, logged, polled, restarts, passed, unwritten, slipped, pc, at>>
      BY <1>8 DEF FollowerGivesUp, pollVars
  <2>2. job[j] # "none" /\ following[j] = "going"
      BY <2>1, <1>t DEF LogInv, Taken
  <2>3. \A k : Past(k)' <=> Past(k)
      BY <2>1 DEF Past
  <2>4. Taken'
      BY <2>1, <2>2, <2>3, <1>t DEF LogInv, Taken, Settled
  <2>5. LeftToItsEntry' /\ TwiceOnlyIf'
      BY <2>1, <2>2, <1>t DEF LogInv, LeftToItsEntry, TwiceOnlyIf
  <2> QED BY <2>4, <2>5 DEF LogInv
<1>9. ASSUME NEW j \in Jobs, Forgets(j) PROVE LogInv'
  <2>1. /\ following[j] = "kept"
        /\ following' = [following EXCEPT ![j] = "no"]
        /\ slipped' = slipped \cup {j}
        /\ UNCHANGED <<job, action, logged, polled, restarts, passed, gaveUp, unwritten, pc, at>>
      BY <1>9 DEF Forgets, pollVars
  <2>2. action[j] # "following"
      BY <2>1, <1>t DEF LogInv, Taken
  <2>3. \A k : Past(k)' <=> Past(k)
      BY <2>1 DEF Past
  <2>4. Taken'
      BY <2>1, <2>2, <2>3, <1>t DEF LogInv, Taken, Settled
  <2>5. LeftToItsEntry' /\ TwiceOnlyIf'
      BY <2>1, <1>t DEF LogInv, LeftToItsEntry, TwiceOnlyIf
  <2> QED BY <2>4, <2>5 DEF LogInv
<1>10. ASSUME Fetch PROVE LogInv'
    BY <1>10, <1>t, LogIdle DEF Fetch, Past
<1>11. ASSUME NEW answered \in BOOLEAN, AskDeparted(answered) PROVE LogInv'
    BY <1>11, <1>t, LogIdle DEF AskDeparted, Past
<1>12. ASSUME NEW j \in Jobs, PassRunning(j) PROVE LogInv'
    BY <1>12, <1>t, LogIdle DEF PassRunning, Past
<1>13. ASSUME NEW j \in Jobs, PassEnded(j) PROVE LogInv'
  <2>1. \A k \in passed' : k \in passed \/ (k \in Jobs /\ following[k] # "no")
      BY <1>13, <1>t DEF PassEnded, Skip
  <2> QED BY <1>13, <2>1, <1>t, LogIdle DEF PassEnded, Past
<1>14. ASSUME NEW j \in Jobs, TakeUp(j) PROVE LogInv'
  <2>1. following[j] = "no"
      BY <1>14, <1>t DEF TakeUp, Skip
  <2>2. \A k \in Jobs : Past(k)' => Past(k) \/ following[k] = "no"
      BY <1>14, <2>1 DEF TakeUp, Past
  <2> QED BY <1>14, <2>2, <1>t, LogIdle DEF TakeUp
<1>15. ASSUME NEW ok \in BOOLEAN, RecordEnd(ok) PROVE LogInv'
  <2>1. pc = "record" /\ at \in Jobs
      BY <1>15 DEF RecordEnd, TypeInv, Shape
  <2>2. \A k \in Jobs : Past(k)' => Past(k) \/ following[k] = "no"
      BY <1>15, <2>1 DEF RecordEnd, Past
  <2>3. \A k \in polled' : k \in polled \/ (pc = "record" /\ at = k /\ k \in Jobs)
      BY <1>15, <2>1 DEF RecordEnd
  <2> QED BY <1>15, <2>2, <2>3, <1>t, LogIdle DEF RecordEnd
<1>16. ASSUME EndPoll PROVE LogInv'
    BY <1>16, <1>t, LogIdle DEF EndPoll, Past
<1>17. ASSUME Restart PROVE LogInv'
  <2>1. /\ \A j \in Jobs : following'[j] = "no"
        /\ \A j \in Jobs : action'[j] \in {"no", "done", "cut"}
        /\ \A j \in Jobs : action'[j] = "no" <=> action[j] = "no"
        /\ restarts' > 0 /\ passed' = {} /\ job' = job
      BY <1>17, <1>t DEF Restart
  <2>2. Taken'
      BY <2>1, <1>t DEF LogInv, Taken
  <2>3. LeftToItsEntry' /\ TwiceOnlyIf'
      BY <2>1 DEF LeftToItsEntry, TwiceOnlyIf
  <2> QED BY <2>2, <2>3 DEF LogInv
<1>18. ASSUME UNCHANGED vars PROVE LogInv'
    BY <1>18, <1>t, LogIdle DEF vars, pollVars, Past
<1> QED
    BY <1>1, <1>2, <1>3, <1>4, <1>5, <1>6, <1>7, <1>8, <1>9, <1>10, <1>11, <1>12, <1>13, <1>14,
       <1>15, <1>16, <1>17, <1>18 DEF Next, Log, Poll

LEMMA LogInvHolds == Spec => []LogInv
BY LogInvInit, LogInvStep, TypesInit, TypesStep, PTL DEF Spec

(***************************************************************************)
(* A loud end the poller leaves to the log is recorded by it, unless the   *)
(* log gives up or can't write.                                            *)
(***************************************************************************)
THEOREM LeftToItsEntryHolds == Spec => []LeftToItsEntry
<1>1. LogInv => LeftToItsEntry
    BY DEF LogInv
<1> QED
    BY <1>1, LogInvHolds, PTL

(***************************************************************************)
(* For any number of jobs, the log and the poller both record an end only  *)
(* in the three cases TwiceOnlyIf names.                                   *)
(***************************************************************************)
THEOREM TwiceOnlyIfHolds == Spec => []TwiceOnlyIf
<1>1. LogInv => TwiceOnlyIf
    BY DEF LogInv
<1> QED
    BY <1>1, LogInvHolds, PTL

(***************************************************************************)
(* Between them the log and the poller record a loud end, and twice only   *)
(* where named.                                                            *)
(***************************************************************************)
THEOREM EndsRecordedOnceHolds == Spec => []EndsRecordedOnce
<1>1. LeftToItsEntry /\ TwiceOnlyIf => EndsRecordedOnce
    BY DEF EndsRecordedOnce
<1> QED
    BY <1>1, LeftToItsEntryHolds, TwiceOnlyIfHolds, PTL
=============================================================================
