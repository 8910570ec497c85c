------------------------------ MODULE Notifier ------------------------------
(***************************************************************************)
(* The push notifier (internal/push): a receiver that takes what the store *)
(* sends and queues what is worth a notification, and a courier that takes *)
(* from the queue, one at a time, decides again and posts to the relay.    *)
(* The relay's answer may be lost when the phone was notified.             *)
(***************************************************************************)
EXTENDS EventStore

CONSTANTS
    QueueDepth,  \* events that wait for the courier (256)
    Again,       \* Notifier.dedupeWindow
    Never,       \* no time
    Day,         \* length of a day, for quiet hours
    PrefChoices  \* the preferences the app may set

ASSUME NotifierConstants ==
    /\ QueueDepth \in Nat \ {0} /\ Again \in Nat \ {0} /\ Day \in Nat \ {0}
    /\ Never \notin Nat /\ Again =< Retention

VARIABLES
    lastPushed,  \* Notifier.lastPushed
    queue,
    courier,     \* what it is sending, or has sent and is about to record
    pushLog,     \* the table push_log
    prefs, prefsFile, \* the preferences, and their file
    told, doubted \* history: when the phone was last notified of each id; of which
                  \* it can't be known, or isn't noted, that it was

pushVars == <<lastPushed, queue, courier, pushLog, prefs, prefsFile, told, doubted>>

Resting == [step |-> "resting", id |-> NoRow, tries |-> 0]
NeverAny == [i \in Ids |-> Never]
NoPrefs == [muted |-> {}, quiet |-> [on |-> FALSE, start |-> 0, end |-> 0]]

NotifierInit ==
    /\ lastPushed = NeverAny /\ queue = <<>> /\ courier = Resting /\ pushLog = NeverAny
    /\ prefs = NoPrefs /\ prefsFile = NoPrefs
    /\ told = NeverAny /\ doubted = {}

\* Of the assistant's entries, those of what went wrong out of sight, and a
\* briefing that is ready.
IsAssistantPush(row) ==
    /\ row.key[1] = "assistant"
    /\ \/ row.key[2] \in {"job_failed", "checkin"}
       \/ row.key[2] \in {"scheduled", "rule"} /\ row.severity \in {"warning", "critical"}

\* shouldPush: what is worth waking the phone for.
ShouldPush(row) ==
    \/ row.severity = "critical"
    \/ IsAssistantPush(row)
    \/ row.key[1] \in {"rebuilt", "digest"}
    \/ row.severity = "warning" /\ KindOf(row.key) \in {"pool", "disk", "resilver", "scrub"}

CategoryOf(row) ==
    CASE row.key[1] = "digest" -> "DIGEST"
      [] row.key[1] # "digest" /\ row.severity = "critical" ->
            (CASE KindOf(row.key) = "pool" -> "POOL_DEGRADED"
               [] KindOf(row.key) = "security" -> "SECURITY_CRITICAL"
               [] OTHER -> "ALERT_CRITICAL")
      [] OTHER -> "ALERT_WARNING"

\* InQuietHours, of a window that may wrap past midnight.
InQuietHours ==
    LET q == prefs.quiet  minute == now % Day IN
    /\ q.on /\ q.start # q.end
    /\ IF q.start < q.end THEN q.start =< minute /\ minute < q.end
       ELSE q.start =< minute \/ minute < q.end

SuppressedAlike(row) == CategoryOf(row) \in prefs.muted \/ InQuietHours
Suppressed(row) ==
    \/ CategoryOf(row) \in prefs.muted
    \/ InQuietHours /\ row.severity # "critical"

\* markIfFresh's answer.
Fresh(id) == lastPushed[id] = Never \/ lastPushed[id] + Again =< now
-----------------------------------------------------------------------------
\* RecentPushes; then Subscribe.  When the log can't be read it starts
\* without.
NotRehydrated == NeverAny
Rehydrated == [i \in Ids |-> IF pushLog[i] # Never /\ now =< pushLog[i] + Again THEN pushLog[i] ELSE Never]
NotifierStarts(logRead) ==
    /\ Subscribe("push")
    /\ lastPushed' = IF logRead THEN Rehydrated ELSE lastPushed
    /\ doubted' = IF logRead THEN doubted ELSE Ids
    /\ UNCHANGED <<queue, courier, pushLog, prefs, prefsFile, told>>

NotifierReceives ==
    LET id == Received("push") IN
    /\ Receives("push")
    /\ IF ShouldPush(rows[id]) /\ Len(queue) < QueueDepth
       THEN queue' = Append(queue, id) /\ UNCHANGED missed
       ELSE /\ UNCHANGED queue
            /\ Loses("push", IF ShouldPush(rows[id]) THEN {id} ELSE {})
    /\ UNCHANGED <<now, rows, subs, left, lastPushed, courier, pushLog, prefs, prefsFile, told, doubted>>

PruneDedupe ==
    /\ \E i \in Ids : lastPushed[i] # Never /\ lastPushed[i] + Again < now
    /\ lastPushed' = [i \in Ids |->
           IF lastPushed[i] # Never /\ lastPushed[i] + Again < now THEN Never ELSE lastPushed[i]]
    /\ UNCHANGED <<now, storeVars, left, queue, courier, pushLog, prefs, prefsFile, told, doubted>>

\* handle, up to the send: what is muted now, or was sent lately, is passed
\* over; the rest is marked in the same breath as it is found fresh.
Takes(send) ==
    LET id == Head(queue) IN
    /\ courier = Resting /\ queue # <<>>
    /\ send = (~Suppressed(rows[id]) /\ Fresh(id))
    /\ queue' = Tail(queue)
    /\ IF send
       THEN /\ lastPushed' = [lastPushed EXCEPT ![id] = now]
            /\ courier' = [step |-> "sending", id |-> id, tries |-> 0]
       ELSE UNCHANGED <<lastPushed, courier>>
    /\ UNCHANGED <<now, storeVars, left, pushLog, prefs, prefsFile, told, doubted>>

Reaches == told' = [told EXCEPT ![courier.id] = now]

Delivered ==
    /\ courier.step = "sending"
    /\ Reaches /\ doubted' = doubted \ {courier.id}
    /\ courier' = [courier EXCEPT !.step = "sent"]
    /\ UNCHANGED <<now, storeVars, left, lastPushed, queue, pushLog, prefs, prefsFile>>

\* A send that failed for good is forgotten, so that the next time the event
\* is sent it goes out.
GivenUp(final) == final \/ courier.tries = 1
AfterGivingUp == [lastPushed EXCEPT ![courier.id] = Never]
GivesUp(final) ==
    IF GivenUp(final)
    THEN /\ courier' = Resting
         /\ lastPushed' = AfterGivingUp
         /\ Loses("push", {courier.id})
    ELSE /\ courier' = [courier EXCEPT !.tries = 1]
         /\ UNCHANGED <<lastPushed, missed>>

\* The relay refuses it (4xx, over its daily budget), is down, or its answer
\* is lost.
SendFails(why) ==
    /\ courier.step = "sending" /\ Spend("relay")
    /\ GivesUp(why = "refused")
    /\ IF why = "answer lost" THEN Reaches /\ doubted' = doubted \cup {courier.id}
       ELSE UNCHANGED <<told, doubted>>
    /\ UNCHANGED <<now, rows, subs, inbox, queue, pushLog, prefs, prefsFile>>

\* Store.RecordPush
RecordPush(id) == pushLog' = [pushLog EXCEPT ![id] = now]
Records ==
    /\ courier.step = "sent"
    /\ RecordPush(courier.id)
    /\ courier' = Resting
    /\ UNCHANGED <<now, storeVars, left, lastPushed, queue, prefs, prefsFile, told, doubted>>

RecordFails ==
    /\ courier.step = "sent" /\ Spend("store")
    /\ doubted' = doubted \cup {courier.id}
    /\ courier' = Resting
    /\ UNCHANGED <<now, storeVars, lastPushed, queue, pushLog, prefs, prefsFile, told>>

\* POST /push/prefs: an older app sends no quiet hours, and keeps those there
\* are.
Asked(p, withQuiet) == IF withQuiet THEN p ELSE [p EXCEPT !.quiet = prefs.quiet]

\* What is set holds even when its file can't be written.
SetPrefs(p, withQuiet, written) ==
    /\ Spend("prefs")
    /\ prefs' = Asked(p, withQuiet)
    /\ prefsFile' = IF written THEN prefs' ELSE prefsFile
    /\ UNCHANGED <<now, storeVars, lastPushed, queue, courier, pushLog, told, doubted>>

\* Prune's second statement.
PruneLog == pushLog' = [i \in Ids |->
    IF pushLog[i] # Never /\ pushLog[i] + Retention < now THEN Never ELSE pushLog[i]]

NotifierForgets ==
    /\ lastPushed' = NeverAny /\ queue' = <<>> /\ courier' = Resting
    /\ prefs' = prefsFile
    /\ doubted' = IF courier.step = "sent" THEN doubted \cup {courier.id} ELSE doubted
    /\ UNCHANGED <<pushLog, prefsFile, told>>

InHand == {queue[n] : n \in DOMAIN queue} \cup IF courier.step = "sending" THEN {courier.id} ELSE {}
-----------------------------------------------------------------------------
NotifierType ==
    /\ {lastPushed, pushLog, told} \subseteq [Ids -> Nat \cup {Never}]
    /\ queue \in Seq(Ids) /\ Len(queue) =< QueueDepth
    /\ courier.step \in {"resting", "sending", "sent"} /\ courier.tries \in 0..1
    /\ courier.step = "resting" \/ courier.id \in Ids
    /\ doubted \subseteq Ids

\* What the phone was told it is told again only after the dedupe window,
\* restarts and lost answers aside: see PushOnce.
Promise == INSTANCE PushOnce WITH clock <- now
OncePerWindow == Promise!Spec
=============================================================================
