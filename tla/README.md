# Zephyr Helper: a TLA+ verification project

Zephyr Helper runs beside a TrueNAS server and serves one household's iOS app:
a chat with a model that can look at the NAS and, with approval, change it;
bookings that run later; a feed of what happened; notifications. It is one Go
process (`cmd/server`), with several goroutines per component, SQLite files and
small JSON files for what must survive a restart, and one WebSocket to TrueNAS.

This directory holds TLA+ models of its parts, TLC configurations that check
them on small instances, and TLAPS proofs of their safety properties for every size.
Each definition is translated from the Go source; `PROJECT.json` ("map") gives
the lines each one stands for, "hazards" the places in the code that are hard to
test, and the properties that would catch them going wrong.

## 1. Inventory

| Component | State | Operations | Interacts with | Hard parts | Correct means | Module |
|---|---|---|---|---|---|---|
| **Chat turn and approvals** (`chat`: handler, conn, actions) | per connection: queued messages, the turn's cancel function, `approvals`; per step: cards, their channel, the deadline | read a frame, take a message, prepare the model, run a turn: steps, proposals, cards, answers, timer, stop, results | provider, tools, saved chats, action log | two goroutines and a timer race over each card; the app may leave at any point | nothing runs that wasn't approved first and in time; stops void what follows; each card settles once; every reply ends | `ChatTurn` |
| **Scheduler** (`schedule`: store, scheduler, http) | the `jobs` table; `running` ids; the `holding` lock; each tick's due list | tick, record a run, Run Now, create, edit, pause, resume, delete; hold and release; note interrupted runs | Pro, tools, events, TrueNAS | three kinds of writers on one table, each going by copies; crashes between any two statements; requests abandoned halfway | no slot runs twice; nothing held starts; a pause by hand is kept; what's due is taken | `Schedule` |
| **Pro state** (`pro`) | whether Pro has lapsed, in memory and in a file | `Set`, `Lapsed`, `PUT /pro` | scheduler (Converge), digest | memory and file disagree after a failed write | the schedule converges to the last word | `Schedule` |
| **When** (`schedule/when.go`) | none | `Next`, `Validate` | scheduler, booking | clock changes, month ends | the first run to come; no day left out or run twice | `When` |
| **Update rule** (`schedule/rules.go`) | one run: the apps left, results | check pools, refresh the catalog, update one app, settle, roll back | TrueNAS jobs, store, events | stops and lost answers between update and rollback; apps that crash as they start | never rolls back under a running update; leaves no app half done unsaid | `UpdateRule` |
| **Tools** (`tools`) | none of their own | describe, and run again from what the NAS shows by then, call by call | TrueNAS, action log | the NAS changes between card and run; jobs that hang, or fail to start | TrueNAS is asked for the name or version the card gave; what is said done is done | `ToolRun` |
| **Action log** (`actions/log.go`) | `following` | record, follow, mark, sweep | events, jobs poller, TrueNAS | the poller sees the same jobs; a follower gives up | each job's end is recorded, once | `Following` |
| **Jobs poller** (`pollers/jobs.go`) | `seen`, `running` | poll, ask by id, ingest | TrueNAS, events, action log | failed writes, jobs that leave the window, restarts | the same | `Following` |
| **Alerts, scans and security pollers** (`pollers`) | what each has seen, what it saw running, the audit cursor | poll, ingest | TrueNAS, events, action log | failed ingests, restarts, audit rules that outlive a row | each thing that happens is in the feed | `Pollers` |
| **Events store** (`events/store.go`) | `events`, `push_log`; subscribers | ingest (insert or merge), broadcast, ack, link, prune, subscribe | everything that notes anything; notifier, correlators, app | late events, slow subscribers, merging | one row per burst, showing its latest | `EventStore` |
| **Correlators** (`events/correlators`) | subscriptions | put a parent over what belongs together | events | events out of order, restarts, lists, parents and links that fail | children are linked to the parent they belong to | `Correlators` |
| **Push notifier** (`push`) | last push per event, queue, mutes, quiet hours | classify, queue, send, retry, record, rehydrate | events, relay | outage of the relay, restarts, lost answers | pushed once per window, not while muted; what is critical gets through | `Notifier` |
| **TrueNAS client** (`truenas/jsonrpc.go`) | the connection, pending calls, closed | call, connect, log in, read, drop, close | everything | connecting once for many, drops under calls, late answers | a method runs at most once, and its own reply answers the call | `RpcClient` |
| **Saved chats** (`chat/saved.go`, `conversations`) | conversations, messages; per connection: id, pending, off | start, append, drop replies, record a turn, delete, replay | chat, check-ins, app | deleted while open; tried again; two connections on one chat; failed writes | a deleted chat stays deleted; what ran is kept; a transcript replays | `SavedChat` |
| **Check-ins and summaries** (`chat`) | none | one turn, saved as a chat | saved chats, scheduler | - | saved whole or not at all | `SavedChat` (its saving) |
| **Digest** (`digest`) | the digests kept, announced or not, in a file; settings | check every minute, assemble, keep, announce | events, Pro, quiet hours | time zones, quiet hours, restarts, failed files | one a week, nothing counted twice, each announced | `Digest` |
| **Composition root** (`cmd/server`) | - | start, shut down, prune | all | order of start | - | `Feed`, `Schedule` |
| **Model settings, providers** (`llm`) | config and provider | apply, current, stream | chat, digest | two at once | memory and file agree | - |
| **Usage, capacity, forecasts** | counters, samples | record, fit | chat, pollers | (sequential arithmetic) | - | - |
| **Remote access, tailnet, TLS, auth, config, version, REST mapper** | set-up | - | - | (network and files) | - | - |

How they interact. The app's frames reach the reader goroutine of a connection;
the main loop and the turn meet the reader only in `approvals`, the turn's cancel
function and the queue. The app's requests reach `http.go` and `pro.go` on
goroutines of their own; they, the scheduler's loop and the runs it launches meet
in the jobs table, the `running` set, the `holding` lock and Pro's state. A card's
action runs in the turn, a booking's in the scheduler: both call a tool, whose
calls go through the one JSON-RPC client, and whose jobs the action log and the
pollers both see. All of them note what happened in the events store, which sends
each row to its subscribers; those write rows of their own, or notify the phone.

## 2. Plan

Modelled, in this order: `ChatTurn`, `Schedule`, `UpdateRule`, `Following`, the
feed (`EventStore`, `Pollers`, `Correlators`, `Notifier`, composed in `Feed`, with
`PushOnce` as what the notifier promises), `ToolRun`, `RpcClient` with `CallOnce`
as what it promises, `SavedChat`, `Digest`, `When`.

Proved: what section 13 lists, which is every invariant and action property of the
runs, and the refinements. Only liveness is left to TLC.

Worth modelling next: two rules over the same apps, and `Switch.Apply` beside
another (a save and an assignment each).

One run per module or composition, with safety and liveness together where the
state space allows; `Schedule` has a second one for liveness, without symmetry.

## 3. ChatTurn (run `chat`)

Variables and code. `reader` and `hand` are where the reader goroutine is and
the answer it holds between `deliver`'s unlock and its send; `inbox`, `waiting`,
`seq`, `stopSeq` are the fields of those names; `turn` is `stopTurn != nil`,
`cancelled` its context, `closed` the connection's. A step's proposals are
numbers `first..made`; `status[i]` is what became of proposal i, from
`described` (its card written) and `open` (sent) to the six outcomes of the
action_result frame, or `refused` (over the cap, or Describe failed). `answers`
is the run's channel, `late` the deadline having passed, `base` and `drain` the
run's locals.

Steps. One step is one statement that another goroutine could see: `deliver` is
three (the locked part, reading the clock, the send), sending the cards is one
step per card, `base` is a step after them, and running an action takes as long
as it likes. The loop's `select` picks any ready case, so `HandleAnswer`,
`TimerFires` and `SeeDone` are enabled together.

Abstractions. Reads a step dispatches, streamed text, usage and the transcript
are left out: no guard of the approval protocol reads them. What an action does
to the NAS is its outcome here, and `ToolRun`'s subject. Time is one flag per run
of cards. The model may propose any number of actions at each step and end the
turn at any step.

History variables (`sent`, `said`, `stops`) only record: the first answer the app
gave each card, whether it was late when read, and the stops.

Bounds: two messages, three proposals with a cap of two, one step after the
first, two answers or stops, a queue of one. Enough for a card refused by the cap,
cards of two steps in one reply, a stop and an answer in both orders around each
of the turn's steps, a full queue, and a second question after a stopped one.

Fairness: weak fairness of the turn, of the reader once it holds something, of
Prepare and of the deadline. The Go runtime runs goroutines that can run; Prepare
is bounded by its context or by the download; an action is given a deadline; a
timer fires. The app's own frames have none: nobody has to answer a card, send a
stop, or leave.

## 4. Schedule (runs `schedule_safety`, `schedule_live`, `schedule_edit`)

Variables and code. `row` is the jobs table, a job's `here` telling one never
booked from one deleted (ids aren't reused); `next` is `next_run` with 0 for
NULL. `lapsed` and `onFile` are Pro's state in memory and on disk. `run[j]` is
`Scheduler.running` with its goroutine: `going` until the outcome is recorded,
`recorded` until the id is released. `tick` is where the scheduler's loop is,
with the clock it read and the list it goes through; `holding` is the holding
lock, who has it and what `Converge` found; `req` is each request under way.

Steps. SQLite is opened with one connection, so a statement is one step, and
everything read is a copy by the next step: the scheduler's due list, Release's
held list, an edit's and a resume's job. Adjacent steps are merged only where
nothing between them can be told apart: reserving an id, claiming and launching
(a reservation is seen only by those who would find the job running a moment
later); taking the holding lock and reading Pro's state; the Held check with
the read of due jobs; counting with the deletion before it (both look at
`next_run` alone, and only Add inserts).

Time. Slots are points on a line: multiples of `Period` for a repeating job, one
point for a one-off. `NextOf` keeps what the scheduler relies on: the first slot
strictly after an instant, none for a one-off whose time has passed. The
calendar is `When`'s.

Failures. `ClientGone` ends a request between any two of its steps, as its
context does. `Crash` stops the helper anywhere; memory, requests and runs go,
the table and the Pro file stay; `Restart` reads the file. `PutPro` may fail to
write its file, and holds in memory all the same. SQLite errors are not
modelled. A run on the NAS is one step to its outcome; a run the helper cuts
short records nothing, which is what Crash does.

History variables (`taken`, `byHand`, `swept`) only record: the last slot claimed
or missed since someone booked the job (create, edit, resume, or a release whose
clock was read before the claim), a pause made by hand, and what a lapse held.

Bounds of `schedule_safety`: two jobs, two requests at once and in all, a clock of
three ticks with a period of two, a one-off at 2, no lateness (so that a slot
can be missed), one crash; symmetric in jobs and slots. Enough for a lapse held
and released around a claim, a Run Now across a due slot, two requests on one job
between a tick's read and its write, and a crash at every one of those points.
`schedule_live`: one job, one request slot, no symmetry; each of its properties
is of one job, and two requests give a lapse and its end, or a Run Now and
another. `schedule_edit` expects a violation: section 14.

`CHECK_DEADLOCK FALSE`: with the clock, the requests and the crashes used up and
nothing due, the bounded model stops; the program would wait for its next tick.

Fairness: weak fairness of the scheduler's loop (a ticker and statements with a
busy timeout), of whoever holds the holding lock, of each run (actions have
deadlines), of each request's next step, and of the restart (the container
restarts the helper). None of the clock, the app, the client leaving or the
crash. Since crashes are bounded, fairness speaks of a helper that crashes
finitely often.

## 5. UpdateRule (run `rule_run`)

Variables and code. `pc` is where `runUpdateRule` and `updateOne` are, and `app`
the app they are at. `todo`, `left` and `unchecked` split the apps: the ones the
loop has yet to take up, the ones it gave up, the ones `updatable` couldn't ask
about. `sight`, `clock` and `since` are settle's last answer, its time and
`runningSince`. `outcome` is each `appResult`; `status` and `said` are how the
run ended and the apps its note speaks of. `row` is the rule's row in the jobs
table, `stopping` the end of the run's context. `nas`, `work` and `result` are
TrueNAS: each app's version and state, the jobs under way, and how the rule's
last job ended, seen or not.

Steps. A call to TrueNAS that changes nothing is one step. One that starts a job
is two, the call and its answer: the job may begin with the answer lost, or the
answer come after the job has ended. Then waiting is one step, taken when the job
has ended, when the wait is over, or when the context is. Settle is one step per
poll. Versions are two, the listed one and the other, since that is all
`updateOne` compares. Time in settle is counted in polls; a slow call takes two,
so that the deadline may be overstepped.

Around it. Apps start and crash at any step. A job may switch the version before
it ends, and a failed one may leave either version. The app pauses, resumes or
deletes the rule at any step; the helper may stop at any step. TrueNAS's jobs go
on when the rule no longer waits for them. It is assumed that only this run's
jobs change an app's version while it lasts: two rules over the same apps, or a
person updating one by hand, are not modelled.

Abstractions. Refreshing the catalog goes on whatever comes of it, and only
changes which apps are listed, which is any set of running apps. Wording, events
and SQLite errors are left out; `Store.Finish` is in Schedule.

PauseIsHeeded speaks of rules not paused when the run began. Run Now runs a
paused rule, and the loop goes by the job it was given: a rule that was paused,
resumed and paused again during its run runs on.

Bounds: two apps, a deadline of one poll and a settling time of one, which gives
an app seen running and then crashed, one that never runs, one that settles, and
one never seen; two apps give an app touched before the one at which the run
stops. `CHECK_DEADLOCK FALSE`: a run ends.

Fairness: weak fairness of the run as a whole. Each call to TrueNAS has a timeout,
waits for a job have a deadline, settle has one; TrueNAS, the apps and the person
owe it nothing.

## 6. Following (run `follow_feed`)

Variables and code. `following` is the log's map: "going" for a zero time, "kept"
for one an hour ahead, "no" for an absent or past one, which `Following` and
`sweep` take out. `action[j]` is where the assistant's action is with job j: in
`runJob`, about to write its entry, about to mark or follow, followed, done.
`seen` and `running` are the poller's fields, `current` and `still` the locals
that replace them, `answer` what this poll has read of the jobs it has yet to go
through, those it asked for by id included; `pc` and `at` are where it is.
`logged` and `polled` are the ends the feed has from each. `job` is TrueNAS: ids
grow with start; one that is "gone" is no longer listed.

Steps. A poll is: reading the newest jobs, asking for the departed ones, then for
each job in order of id the look at `seen` and at the log (which takes the log's
lock), and the write. An action is: what `runJob` made of the job, the entry, the
mark or the follow. A follower's write and its mark are one step, since the
poller leaves the job alone before and after. A poll that can't read the newest
jobs changes nothing, and is left out.

Abstractions. A job's end is loud when `jobToEvent` makes an event of it and
quiet when it doesn't. Times are left out: the mark's hour may be up at any
point, the follower's day at any point before its job has ended. (A TrueNAS that
can't be reached for the whole day is not modelled.) The store's merging of
events is `EventStore`'s.

History variables (`sawRunning`, `passed`, `gaveUp`, `unwritten`, `slipped`) only
record; a restart clears them. EndsRecordedOnce excepts a job the log gave up on:
log.go:175 counts on the poller to record its failure, yet the mark left for the
next hour has the poller pass it, and then count it as seen. EndsAreReached is
stated of ends that stay among the newest: section 14 says why.

Bounds: two jobs, one of which may be the assistant's, a window of one, one
restart. Enough for a job that leaves the window running or ended, one that comes
back into it because a newer one is no longer listed, an end read before, while
and after the log takes the job, and each call and write failing in each place.
Polls come round for ever, so deadlock is checked.

Fairness: weak fairness of polls (a ticker), strong fairness of the answer to the
call by id and of the write: TrueNAS and the disk may fail any number of times,
but not for ever. Nothing is asked of jobs or actions.

## 7. Feed (run `feed`): EventStore, Pollers, Correlators, Notifier, PushOnce

`Feed` composes four modules over the table of `EventStore`, as main.go does.

- `EventStore`: `rows` is the table, a row's id its place in it, a pruned row
  `gone`; `Ingest` is the transaction (insert, or merge into the nearest row of
  the key within its source's window) with the broadcast after it; `inbox` is each
  subscriber's channel, and whoever is behind misses what is sent. `missed` is
  history: what each subscriber was not given or lost.
- `Pollers`: the alerts, scans and security polls, each with the read, one step
  per item, the write that may fail, and what it keeps until the next poll; the
  scan poller asks the action log whether a scrub is the assistant's. Beside them
  is the NAS: alerts raised and cleared, scans, audit rows.
- `Correlators`: disk, scrub and roll-up, each a goroutine that takes an event,
  writes a parent and links the children one at a time. The roll-up's list may fail,
  or leave out the oldest when there are more jobs than it holds; the parent's write
  may fail, and then nothing is linked; a link may fail, which the code only logs,
  and the child stays as it was. `linkFailed` is history: the children whose last
  link failed.
- `Notifier`: the receiver, the courier with its second try, `markIfFresh`'s map,
  the push log and rehydration from it, preferences and their file, quiet hours.
  The relay may refuse, be down, or have its answer lost after the phone rang.
- `PushOnce` is what the notifier promises: the phone isn't told of an event again
  within the window, unless nobody can know that it was told (an answer lost, or
  the helper stopped before it was noted). `told` and `doubted` are history
  variables for it; the property `OncePerWindow` is `Promise!Spec`, with the
  clock as its clock.

A `Restart` stops everything at any step: memory, channels and subscriptions go,
tables and files stay.

Bounds (`MCFeed`): a behaviour picks one of nine stories, each saying how often its
surroundings may do what: alerts with a store that fails and a pruning; alerts with
the disk correlator, and one alert with the disk correlator and a store that fails
twice; alerts with a failing relay, a restart and the notifier; preferences; a scan
with a restart and the notifier; audit rows; reports with the roll-up;
acknowledgements and a scrub. Channels hold two events and the queue one, so that both
overflow; four windows are told apart by 0, 1 and 2 on a clock that stops at 3; quiet
hours wrap around a day of two. `DownAfter` and `Threshold` (3 and 3 in the code) are
1 and 2, the least that keep a first failure from a last one. `ListLimit` (200) is 2,
so that the list of a third job is cut. A store that fails does so once or twice, at
any write or at the roll-up's list. ParentsAreLinked speaks of what a correlator is
through with: an event it missed, or dropped for a failed list or parent, it isn't; a
child in `linkFailed` is excepted, as section 14 tells; and of the runs it asks only
for those a list of that size must hold. Together the stories fire every action.
`CHECK_DEADLOCK FALSE`: the clock stops.

Fairness: weak fairness of the alerts and scans polls (tickers), of the notifier's
start, receiver and courier. None of the NAS, the relay's recovery, the app, or the
correlators.

## 8. ToolRun (run `tool_run`)

One action: `Describe` plans from what the NAS shows and writes a `card`;
`Approve`; `Run` plans again and makes the calls in `todo`, one after another.
`named` is what Run gets in place of the model's arguments (the card's `Args`).
An update is to a version or, when the app is a custom one or at that version already,
a call with the app's name alone (`None`), which leaves the version to TrueNAS: a catalog
app then comes to the newest there is by the end of the job. `seen` is history: the app
as the card and then Run found it, which NamedAsOnCard needs to say when that may be.
`nas` is one record, of which each tool reads its own fields; `jobs` are TrueNAS's,
which end well, fail, hang, or are refused; `OthersChange` is anyone else using the
NAS between any two steps. How each call is waited for (`Call`'s `wait`) is
`runJob`, the wait for a machine or a service, or the look for a scrub.

Bounds (`MCToolRun`): one request of each kind and action, with the states the NAS
may have of its subject; two changes by others; five looks for a scrub (`Checks`), as the code has.
`later` (to be booked) and `newer` (a NAS with 26's methods) are chosen freely.
`CHECK_DEADLOCK FALSE`: an action ends.

Fairness: weak fairness of the action: every wait is bounded. TrueNAS's jobs and
others owe it nothing.

## 9. RpcClient and CallOnce (run `rpc`)

`at[c]` is where a caller's `Call` has got to: its checks, `ensureConnected`'s two
looks around the lock, the dial, the login, the publication, the write and the
wait. `links` is each websocket from dial to close; `conn` is the client's, and
`connectMu` who holds that lock; `reading` is the `readLoop`s; `requests` and
`replies` are on their way over a websocket, and are lost, or arrive, when it
breaks. `effect` counts how often TrueNAS ran a caller's method.

`CallOnce` is the promise to callers: a method takes effect at most once, an answer
means it did, and an error says nothing. `RunsAtMostOnce` is `Calling!Spec` over
the client's own `outcome` and `effect`; it is proved too.

What the model shows beside the properties: a break fails nobody's call at once.
The calls that wait on it wait out their timeout, which is what CallsReturn
relies on; and a client closed while it connects publishes the websocket all the
same. Neither breaks a promise made in the code's words.

Bounds: two callers, three websockets, one call each; a third caller adds no
pair of steps that two don't have. `CHECK_DEADLOCK FALSE`: calls end.

Fairness: weak fairness of each call (its goroutine runs, and every wait has a
timeout); strong fairness of the lock, since Go's mutex is fair to those who wait.
None of TrueNAS, the network or Close.

## 10. SavedChat (run `saved_chat`)

`chat[w]` is what an open chat (or the check-in) holds in memory: its conversation,
its pending messages, whether it stopped saving, and what its app shows; `todo` is
the store calls its handler has yet to make, one step each, between which any other
writer, a deletion or a pruning may come. `messages` are known by the question they
belong to; `kept` is the conversations, the last active first. `Replayable` is the loop
of that name, as a function of how many messages have been read; `Taken` is its body.
`did` is history: of each conversation, the turns whose actions ran, noted when the turn
ends whatever then becomes of its reply. ActionsAreTold compares it with what a replay
tells in replies, not questions: what ran is in a reply that was kept, or in one that a
handler has yet to append. It excepts conversations that two connections have had open
(`shared`), where a retry in one drops the other's answer: section 14.

Bounds (`MCSavedChat`): two chats and the briefing, one conversation kept and two
started, and one of three limits: one connection and three turns; one, two turns
and a store call that fails; two connections. Chats are interchangeable.
`CHECK_DEADLOCK FALSE`: chats are closed in the end. Safety only: nothing here
must happen.

## 11. Digest (run `digest`)

`runner` is where the runner's check is and with which digest; `digests` is the
file; `unsaved` the one put together and not kept; `settings` the other file;
`fed` what the feed has, of what `happened`. Whether a digest is due, from where it
starts, what is announced and what is marked are the code's conditions.

Time goes by half days, and the lengths are scaled: a week is 8 of them rather
than 14, the least gap 6 rather than 12, a digest a day late is 2, the reach back
11 rather than 20. Their order is the code's, and so is the day between week and
least gap. Zones are half a day apart.
`MaxTime` is two weeks and a half day: two digests and what may come between.
A check is done within the half day, but for what it waits.

Bounds (`MCDigest`): a behaviour has one kind of trouble: settings switched and Pro
lapsing; a change of zone and a restart; failing calls and files with a night and a
restart; or a week in which something happens. `CHECK_DEADLOCK FALSE`: the clock
stops.

Fairness: weak fairness of the runner (a ticker; its calls have timeouts) and of the
end of a night.

KeptIsAnnounced is: until its day passes. Events that reach the feed after the
digest was put together are in neither: section 14.

## 12. When (run `when`)

`Next` and `Validate`, with Go's `time.Date` and its lookup of the offset. An
instant is a number, a zone an offset that changes once. The scheduler walks from
one run to the next (`Runs`), and asks from any instant when it books.

The calendar is scaled: a day of twelve units, of which two make an hour, weeks of
three days, months of three to five. `MCZones` has clocks that go by an hour, forward
or back, at each hour from one before a midnight to two after, east and west of the
meridian: as they do in Nuuk, Havana, Beirut, the Azores and New York. `OnceDay` is
the day a one-off runs on: `time.ParseInLocation` gives its date as a midnight, and
where the clocks skip that midnight west of Greenwich (Havana) the instant is of the
day before. NextIsFirst excepts those one-offs by name (`NoMidnight`); for all others,
and all that repeat, it asks for the booked day. Every booking is asked from every
instant of the six days around the change. `Booked`, `ToCome` and `Skipped` are the
reference: the days a booking names, told without how the code finds them.
`CHECK_DEADLOCK FALSE`: the last run in the range has none after it.

## 13. Proofs

All are for every value of the constants that the modules' assumptions allow.

`Chat_proofs`:

- `TypeCorrect`: each action keeps each variable's type; the only facts needed
  beyond types are that `next` stays within the step's proposals while they are
  described and that a step's proposals are numbered within the bound.
- `OnlyApprovedRunsHolds`: OnlyApprovedRuns is not inductive, since it says
  nothing of an approval on its way. The strengthening adds that an answer in
  the reader's hand or in the channel is the first one the app gave its card
  (an answered card is off the waiting list, and is never put back), that it is
  late if the answer was, and that a card that hasn't been answered has `said`
  empty.
- `SettledForGoodHolds`: every action that writes `status` writes at an open,
  described or running proposal, or at one not made yet.
- `CardsAreSettledHolds`: an answer may be in the reader's hand, in the channel, or
  taken, and a proposal has other outcomes at each place of the main loop. The
  strengthening (`CardInv`) says which: what came before this step is settled, what
  the step has in hand has the outcomes its place allows, and outside of the loop
  nothing is on its way.
- `LastStopVoidsLaterAnswersHolds`: the turn compares an answer with the last stop
  when it takes the answer, the property compares them whenever it is asked.
  `StopInv` says why they agree: answers and stops are numbered in the order they
  are read, so a stop read later is above every answer taken.
- `StoreIsWholeHolds` (of `SavedChat`): that one message at most is hidden, the first
  question, isn't inductive, since it is said when the conversation is started and
  two calls of the store later. `StoreInv` adds what the calls still to be made carry
  (`CallsAreRight`: a start comes first, and only of what has no conversation yet;
  at most one hides, and then the title isn't taken from what was said), and that
  nobody else is to hide one in the same conversation (`NoneHiddenYet`).
- `ReopensAsItWasHolds`: `ShowInv` says of every chat, wherever its handler has got
  to, that what is saved and what is still to be appended make what the app shows
  (`Agrees`), up to the question that is to be dropped to when it tried again; that
  a start is followed by something to show; that a chat that stopped saving has no
  conversation left; and that who else writes to an open conversation is noted.
- `ActionsAreToldHolds`: first what the loop of `Replayable` computes, for every list
  of messages. That the recursive function exists (`ReadsAll`) and what it has taken
  after each message (`AllRead`, `OfRole`: blocks in turn, the user's first, so that a
  reply's message ends in a block of replies; with a question first, all that says
  something) are shown by the least number of messages at which it would be false, since
  no prover here takes a predicate to do induction with. Then that every conversation
  does start with its question, unless a store call failed (`AskInv`): who has said
  anything in a conversation that is kept has it saved, or is about to (`Grounded`),
  through starts that come a step before their question, replies that come many steps
  after it, retries that drop, and others that write to the same conversation or delete
  it in between. And that nothing which ran is lost (`DidInv`): each turn in `did` has
  its reply saved or about to be (`DidIsSaved`), because a chat that is to drop replies
  has checked that none of them ran (`DropsAsked`), and what it shows agrees with what
  is saved (`Agrees`, from ReopensAsItWas).

`Schedule_proofs`:

- `TypeCorrect`, and with it that a row held is paused and has a next run: Hold
  takes only rows with one, and every statement that clears a next run of a held
  row clears `held` too, because a claim and a miss need the row not paused.
- `HandPauseOutlastsLapses`: Release's update asks again whether the row is held,
  and Hold takes only rows not paused, so the flag and the history agree.
- `NoSlotTakenTwice`: the strengthening says that every copy in use is of the
  past: a slot in the tick's list is due at the tick's clock, the tick's clock
  and the release's are not after now, and a booking under way is after the slot
  taken last or resets it. The next slot booked by a claim is then after the
  clock that found the last one due. It rests on lemmas about `NextOf` (it
  returns a later slot or none), proved from the arithmetic of division.
- `HeldJobsDontStart`: the strengthening (`Swept`, `Down`) says that what a
  lapse swept is still paused while it lasts, that no release is then under way,
  and that nothing is under way while the helper is down. A claim needs a row
  not paused; a Run Now leaves the next run alone.

`Jobs_proofs`, of `UpdateRule`:

- `TypeCorrect`, with settle's clock bounded by the deadline and one slow call.
- `NoRollbackUnderUpdateHolds` and `OutcomesAreTrueHolds`, from one invariant
  (`RuleInv`). Neither is inductive: what makes a rollback safe is that the wait
  for the update saw it end, several steps before. The strengthening says that an
  app not asked about yet has no job and its old version; that from `wait` to
  `settle` the only job of the app is an update, gone once its end was seen; that
  from there nothing is under way for it; that in the rollback's steps only a
  rollback is; and that nothing is ever under way for an app that was updated,
  found not updated, or rolled back.
- `NothingUnsaidHolds`: while the run goes on, what it has begun is among its
  results, save the app it is at, and the listed apps are split between results
  and those to come. With the last, it gives `SaysWhatItDidHolds`.
- `PauseIsHeededHolds`: once the row changes, the row is read before the second
  update is asked for.

and of `When`, for any lengths of the day, the week and the months, and any zones
that ZonesAssumption allows:

- `RunsOnTimeHolds`: `DateIs` says which of the two offsets time.Date subtracts, and
  when it lands on the wrong side of the change. That the clock's hour and minute,
  with a day added or taken by the comparison with noon, are how far a time is from
  the start of the day booked (`ShownIs`) needs that the change is by less than half
  a day: then noon is on its own day (`NoonIs`) and on the right side of the time.
- `NextIsFirstHolds`: `RunsInOrder` (a later day's run is later), `LaterDayToCome` (the
  run of a day after an instant's is after the instant) and `EarlierDayToCome` (that
  of a day before it is too only if it was skipped past midnight) leave the two days
  that Next tries. That nothing booked is between these is shown for each kind of
  booking: days of a weekday are a week apart, and ValidDays are in every month. A
  one-off's day is the one booked, or the day before where its midnight is skipped
  (`OnceDayIs`, from what time.Date returns).
- `NoDayMissedHolds`: a run is on its day, or on the next if skipped past midnight
  (`RunsDay`), so from it Next can pass over no day after.

`Following_proofs`:

- `TypeCorrect`: that `seen` and `running` never share a job needs the shape of a
  poll: what it has gone through and what it has yet to are apart.
- `RunningIsKeptHolds`: the invariant follows a job from `running` through the two
  answers into `still`.
- `LeftToItsEntryHolds` and `TwiceOnlyIfHolds`, and from them
  `EndsRecordedOnceHolds`, from one invariant (`Taken`) relating the log's map, the
  action's stage and the feed.

`RpcClient_proofs`:

- `LinksAreSoundHolds`: that at most one websocket is open needs who may have one:
  the client, or the caller that is logging in; only the lock's holder is, and
  while it is there is nothing to find. That only one logged in carries requests
  needs the same of whatever a caller found.
- `RunsAtMostOnceHolds`: the client implements CallOnce. The invariant says that a
  request on its way is its caller's only one, over the websocket it found, of a
  method that hasn't run; and that nothing ran before it was written.

`ToolRun_proofs`:

- `JobsAreAsSaidHolds`: `JobsInv` says that only the newest job may not have ended
  well, and only while it is waited for; that only what is waited for to its end is
  followed by another call; and that what is known of the NAS at the start stays
  known. What is said at the end is then said of jobs that can't change any more.
- `NamedAsOnCardHolds`: between card and run what is named is what the card says; once
  Run has planned, every call, made or to be made, is to it, or is one that Run planned
  of an app that is custom or at that version by then; what Run found doesn't change any
  more, and a card of images alone comes to a version only if Run found another app, or
  another newest version, than the card did.

`Feed_proofs`:

- `StoreIsSoundHolds`: a row's `body` is its latest, and of one key no two rows kept
  are within a window. Proved once for everything a step may do to the table
  (`StoreStep`), which needs that whatever a poller or correlator is about to write
  is of now or before (`AlertsOK`, `ScansOK`, `AuditOK`, `CorrelatorsOK`): a row is
  new only when no row of its key is near, and merging moves a row's last, not where
  it begins. `Latest` picks among rows by their times; that there is one to pick
  rests on the naturals being well founded.
- `AuditRowsAreWholeHolds`: of the row in hand, the rules that have been dealt with are
  in the feed unless one failed (`AuditWhole`), and what is in the feed stays in it,
  pruned or not.
- `ParentsAreLinkedHolds`: `Settled` adds the two places an event may be that hasn't got
  its parent: the correlator's channel (or what it missed), and its hand; one it is
  through with is linked, or is in `linkFailed` until a link of it is written.
  `RollupInv` says the same of the newest snapshot run and those around it; it needs
  that runs are stored in the order of their times, and that a list cut to its length
  still holds every run with fewer jobs after it than that (`RecentAreListed`), which
  counts with finite sets.
- `OncePerWindowHolds`: the feed implements PushOnce, step by step. `PushInv` says that
  what the notifier remembers, in memory while it runs and in the push log when it
  doesn't, is no older than what the phone was told, unless telling it again is in
  order; the gap between a push and its row in the log is the courier's `sent`.

`Digest_proofs`:

- `OneAWeekHolds` and `NothingTwiceHolds`: neither is inductive, since a digest is
  put together some steps before it is kept, and may be kept much later. The
  invariant says that whatever is being kept, or waits to be kept again, still
  follows the last one kept: it started where that ended, or a week ago when that
  is too far back, and ends at least the gap after it. It is where "the reach is
  at least a week" is needed.

They rest on what the modules assume of their constants, which TLC evaluates on
every run: that bounds, windows and depths are naturals, and those that the code has
at one or more are not zero; that markers (`None`, `Never`, `Images`) are not numbers;
that what is pushed is kept for at least the window in which it isn't pushed again
(`NotifierConstants`: at least a day, and six hours, in the code); that the feed's subscribers are
the correlators and the notifier, and every source that is written has a window
(`FeedConstants`); that a NAS shows of a tool's subject the fields the tool reads
(`ToolConstants`); that the briefing isn't a chat, and at least one conversation is
kept (`SavedConstants`); that the months of the calendar follow each other and go
beyond the instants asked from (`CalendarAssumption`); and of zones
(`ZonesAssumption`), that none is more than a day off, that clocks go by less than half
a day (when.go's "noon is never skipped" needs as much), and that where they go back,
the times that come twice are of one day. Not all zones were always so: islands that
crossed the date line skipped a whole day, and Newfoundland's clocks went back from
0:01 until 2011, so that a date began twice. What Next does there isn't claimed.

Model-checked only:

- Liveness, which is outside the prover's reach under fairness: ReplyEnds,
  ApprovedInTimeRuns, `schedule_live`'s, RunEnds, EndsAreReached, ActionEnds,
  CallsReturn, AlertsAreRecorded, CriticalIsTold, KeptIsAnnounced.

## 14. Where the code and its words disagree

The run `schedule_edit` expects the violation of the one property it checks:

- `DoneIsNotEditedBack`: http.go:193 promises that an edit doesn't bring back a
  one-off done with. The check is made on a copy, before calls to TrueNAS.

These came up while modelling, each with a counterexample of TLC's at the time. The
modules state the properties that hold in their place.

- actions.go:217 and handler.go:227 promise that an answer after any stop of the
  reply doesn't count. The turn knows one stop, the last, and only if it came after
  `base`, taken once every card is out (LastStopVoidsLaterAnswers is what holds).
- handler.go:212 promises that a stop reaches the answer it's meant for. One read
  before the turn is registered (handler.go:231) is dropped.
- scheduler.go:31 promises that a run cut short shows as interrupted at the next
  start. Miss and Release can overwrite the status of a run under way, and the next
  start goes by that status.
- rules.go:23 and rules.go:361 promise that an app counts as updated only if it is
  running, and still running a little later. At its deadline settle returns what it
  saw last (rules.go:390), so one sight of it running then is enough.
- pollers/jobs.go:145 promises that an end that couldn't be written is retried at
  the next poll. One asked for by id is in neither of the fields the next poll goes
  by, which is why LoudEndsShow speaks of ends still among the newest.
- registry.go:69-71 promises that what runs is what the card said. When an app is at the
  card's version by the time its update runs, or has become a custom one, Run calls
  app.upgrade with the app's name alone (tools/actions.go:1004-1005): TrueNAS picks the
  version, the newest it has by then. And a card that speaks of images alone settles no
  version (actions.go:989-991), so if one is out by its run, the app is updated to a
  version no card named.
- correlators/snapshot.go:34-36 promises that once there are enough runs all prior unlinked
  siblings get back-linked. A link that can't be written is logged and passed over
  (snapshot.go:94-96; disk.go:70-72 and scrub.go:73-75 do the same): the child has no
  parent unless it is sent, or listed, again. A list that fails drops the run it was for
  (snapshot.go:73-77), and it has 200 rows at most, of jobs of every kind
  (snapshot.go:102-106), so that on a busy day older runs are neither linked nor counted.
- actionhelpers.go:18 says a job still running when the wait is over is followed
  into the feed. When it isn't the action's last (the stop of a restart), the action
  ends in an error instead, and the job is left; and a scrub that counts as started
  because the pool is scanning may be one that someone else began
  (actions.go:441).
- conversations/store.go:213 speaks of an answer that's being written again: it drops
  whatever follows the last question. When two connections have the same chat open,
  that may be the other one's answer, and its actions may have run: that they didn't is
  checked of the connection's own transcript (conn.go:93-98). chat/saved.go:200-203
  promises that what happened is shown in a reopened chat and told to the model that
  carries it on; here it isn't, and ActionsAreTold excepts shared conversations.
- digest.go:165 promises no gap between digests. What happened before the end of one
  and reached the feed after it was put together is in neither.
- digest/runner.go:31 holds back while Pro has lapsed or in quiet hours: a digest
  that was begun before goes on to be kept, and announced when only Pro lapsed.
- when.go:111 promises the first run after an instant. Where clocks skip from 23:00
  to midnight (Nuuk), a daily run at 23:30 is at half past midnight the day after,
  and asked between midnight and then, Next passes over it. The schedule never asks
  then of its own (NoDayMissed holds); a booking, a resume or a release may.
- when.go:145 takes a one-off's day from the instant its date begins. Where the clocks skip
  that midnight west of Greenwich (Havana, each spring), time.ParseInLocation gives 23:00
  of the day before: the one-off runs a day early, or is refused as past, though its card
  says the date (when.go:182-186).

## 15. Not modelled

- Model settings and providers: the providers are wire formats of three services;
  Switch.Apply is one save and one assignment.
- Usage, capacity and forecasts: counters, hourly samples and a regression over
  real numbers, which TLC doesn't have.
- Remote access, tailnet, TLS: set-up of connections and certificates; auth,
  configuration, models, version: stateless handlers, and files read once.
- The REST mapper: a table from paths to methods.
- Of modelled components: how several devices' reports decide whether Pro has
  lapsed; the reads of HTTP routes and the stream of events to the app; tools that
  only read; the words of cards, notes, digests and notifications.

## 16. Files

- `ChatTurn.tla`, `MCChatTurn.tla`, `ChatTurn.cfg`, `Chat_proofs.tla` (and of `SavedChat`)
- `Schedule.tla`, `MCSchedule.tla`, `Schedule_safety.cfg`, `Schedule_live.cfg`,
  `Schedule_edit.cfg`, `Schedule_proofs.tla`
- `UpdateRule.tla`, `UpdateRule_run.cfg`, `Jobs_proofs.tla` (and of `When`)
- `Following.tla`, `Following_feed.cfg`, `Following_proofs.tla`
- `EventStore.tla`, `Pollers.tla`, `Correlators.tla`, `Notifier.tla`, `PushOnce.tla`,
  `Feed.tla`, `MCFeed.tla`, `Feed.cfg`, `Feed_proofs.tla`
- `ToolRun.tla`, `MCToolRun.tla`, `ToolRun.cfg`, `ToolRun_proofs.tla`
- `RpcClient.tla`, `CallOnce.tla`, `RpcClient.cfg`, `RpcClient_proofs.tla`
- `SavedChat.tla`, `MCSavedChat.tla`, `SavedChat.cfg`
- `Digest.tla`, `MCDigest.tla`, `Digest.cfg`, `Digest_proofs.tla`
- `When.tla`, `MCWhen.tla`, `When.cfg`

The operators that `PROJECT.json` ("mutants") names are plausible wrong versions of
the definition that follows each: replacing that definition by it breaks the
property it is paired with. No specification uses them.

Check a module with `tlc -config Schedule_safety.cfg MCSchedule`, and the proofs
with `tlapm Schedule_proofs.tla`.
