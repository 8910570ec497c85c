-------------------------------- MODULE Feed --------------------------------
(***************************************************************************)
(* The activity feed, put together as cmd/server/main.go does: pollers     *)
(* that write events, the store that sends each to its subscribers, the    *)
(* correlators that answer some with a parent, and the notifier.  All are  *)
(* goroutines of one process, which may be restarted at any point.         *)
(***************************************************************************)
EXTENDS Pollers, Correlators, Notifier

CONSTANT Reports \* events of the jobs poller, the action log and the digest

ASSUME FeedConstants ==
    /\ Subscribers = CorrelatorNames \cup {"push"}
    /\ {"alert", "rebuilt", "scrubbed", "new-ip", "privileged", "share", "user", "grant", "audit-down",
        "disk", "resilver", "scrub", "rollup"} \subseteq DOMAIN Window
    /\ \A ev \in Reports : ev.key[1] \in DOMAIN Window /\ ev.severity \in Severities

pollerVars == <<alertVars, scanVars, auditVars>>
vars == <<now, storeVars, left, pollerVars, correlator, linkFailed, pushVars>>

Init == StoreInit /\ PollersInit /\ CorrelatorsInit /\ NotifierInit
-----------------------------------------------------------------------------
Surroundings ==
    \/ \E u \in Uuids, form \in AlertForms : Raised(u, form.level, form.text)
    \/ \E u \in Uuids : Cleared(u)
    \/ \E p \in Pools, function \in Functions, mine \in BOOLEAN : ScanStarts(p, function, mine)
    \/ \E p \in Pools, errors \in BOOLEAN : ScanEnds(p, errors)
    \/ \E a \in AuditIds, entry \in Entries : Audited(a, entry)

AlertsStep ==
    AlertsFetch \/ AlertsEnd \/ (\E u \in Uuids : AlertIngested(u) \/ AlertFailed(u))

ScansStep == \E p \in Pools :
    ScanSeen(p) \/ ScanFinished(p) \/ (\E jobsRead \in BOOLEAN : ScanRecorded(p, jobsRead)) \/ ScanFailed(p)

AuditStep ==
    \/ AuditFetch \/ AuditUnavailable \/ (\E stored \in BOOLEAN : AuditFails(stored))
    \/ \E a \in AuditIds : AuditNext(a)
    \/ \E rule \in auditPoll.rules, stored \in BOOLEAN : AuditRule(rule, stored)
    \/ AuditRowDone \/ AuditEnd

\* The other components' events, at the time they are of.
Reported(ev) ==
    /\ Spend("reports")
    /\ Ingest(Event(ev.key, ev.severity, now))
    /\ UNCHANGED now

CorrelatorStep(c) ==
    \/ Handle(c) \/ ParentIngested(c) \/ ParentFails(c) \/ LinksDone(c)
    \/ \E child \in correlator[c].children : LinkChild(c, child) \/ LinkFails(c, child)
    \/ c = "rollup" /\ ListFails

CourierStep ==
    \/ \E send \in BOOLEAN : Takes(send)
    \/ Delivered \/ (\E why \in {"refused", "down", "answer lost"} : SendFails(why))
    \/ Records \/ RecordFails

NotifierStep ==
    \/ \E logRead \in BOOLEAN : NotifierStarts(logRead)
    \/ NotifierReceives \/ PruneDedupe \/ CourierStep
    \/ \E p \in PrefChoices, withQuiet, written \in BOOLEAN : SetPrefs(p, withQuiet, written)

\* POST .../ack and .../ack-all
FromTheApp == AckAll \/ \E i \in Kept : Ack(i)

\* What a component was about to do with an event is lost with it.
LostBy(s) == IF s = "push" THEN InHand
             ELSE IF correlator[s] = Idle THEN {} ELSE {correlator[s].child} \cup correlator[s].children
Restart ==
    /\ Spend("restart")
    /\ StoreForgets([s \in Subscribers |-> LostBy(s)])
    /\ PollersForget /\ CorrelatorsForget /\ NotifierForgets
    /\ UNCHANGED now

\* Prune, of both tables.
Prunes ==
    /\ Prune /\ PruneLog
    /\ UNCHANGED <<pollerVars, correlator, linkFailed, lastPushed, queue, courier, prefs, prefsFile, told, doubted>>

\* A send takes at most 35 s, and the clock's unit is longer.
Passes ==
    /\ courier.step # "sending" /\ Tick
    /\ UNCHANGED <<pollerVars, correlator, linkFailed, pushVars>>

Next ==
    \/ (Surroundings \/ AlertsStep \/ ScansStep \/ AuditStep) /\ UNCHANGED <<correlator, linkFailed, pushVars>>
    \/ \E ev \in Reports : Reported(ev) /\ UNCHANGED <<pollerVars, correlator, linkFailed, pushVars>>
    \/ \E c \in CorrelatorNames : Subscribe(c) /\ UNCHANGED <<pollerVars, correlator, linkFailed, pushVars>>
    \/ \E c \in CorrelatorNames : CorrelatorStep(c) /\ UNCHANGED <<pollerVars, pushVars>>
    \/ NotifierStep /\ UNCHANGED <<pollerVars, correlator, linkFailed>>
    \/ FromTheApp /\ UNCHANGED <<pollerVars, correlator, linkFailed, pushVars>>
    \/ Prunes \/ Restart \/ Passes

\* Each goroutine goes on: its timer fires, or what it waits for is there.
Fairness ==
    /\ WF_vars(AlertsStep /\ UNCHANGED <<correlator, linkFailed, pushVars>>)
    /\ WF_vars(ScansStep /\ UNCHANGED <<correlator, linkFailed, pushVars>>)
    /\ WF_vars(NotifierStarts(TRUE) /\ UNCHANGED <<pollerVars, correlator, linkFailed>>)
    /\ WF_vars(NotifierReceives /\ UNCHANGED <<pollerVars, correlator, linkFailed>>)
    /\ WF_vars(CourierStep /\ UNCHANGED <<pollerVars, correlator, linkFailed>>)

Spec == Init /\ [][Next]_vars /\ Fairness
-----------------------------------------------------------------------------
FeedType ==
    /\ \A i \in DOMAIN rows : rows[i] \in RowType
    /\ DOMAIN rows \subseteq Ids
    /\ \A s \in Subscribers : inbox[s] \in Seq(Ids) /\ Len(inbox[s]) =< Buffer
    /\ NotifierType

\* The table is sound: each of its rows is one burst of a key, and shows the
\* latest of it, in whatever order occurrences come (store.go:124-201).
StoreIsSound == FeedType /\ BodyIsLatest /\ OneRowPerWindow

\* An alert that stands is in the feed in the end: a poll that could not
\* store it leaves it to be tried again (alerts.go:118-126).
AlertsAreRecorded ==
    \A u \in Uuids, text \in {f.text : f \in AlertForms} \ {""} :
        (alert[u] # None /\ alert[u].text = text)
            ~> (alert[u] = None \/ alert[u].text # text
                \/ \E i \in DOMAIN rows : rows[i].key[1] = "alert" /\ rows[i].key[3] = text)

\* A critical event the notifier was sent wakes the phone, quiet hours or
\* not, unless its category is muted, or the relay or a restart lost it.
Critical(id) == id \in DOMAIN rows /\ rows[id].severity = "critical"
Muted(id) == id \in DOMAIN rows /\ CategoryOf(rows[id]) \in prefs.muted
CriticalIsTold ==
    \A id \in Ids : Critical(id) ~> (told[id] # Never \/ id \in missed["push"] \/ Muted(id))
=============================================================================
