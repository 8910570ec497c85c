------------------------------ MODULE Pollers ------------------------------
(***************************************************************************)
(* The pollers of alerts, scans and the audit log (internal/pollers), and  *)
(* TrueNAS as they read it.  Each is one goroutine; its step is what it    *)
(* does between two calls, to TrueNAS or to the store.  A call that fails  *)
(* ends the poll and leaves its state alone, which is a step not taken,    *)
(* but for the audit log, where it counts.                                 *)
(***************************************************************************)
EXTENDS EventStore

CONSTANTS
    Uuids,      \* alerts TrueNAS raises, by uuid
    AlertForms, \* the levels and texts alerts come with; "" is one without words
    Pools,
    AuditIds,   \* rows of the audit log
    Entries,    \* what a row of it may say
    None,       \* nothing
    FreshFor,   \* how long a scan that finished unseen is news
    DownAfter   \* failed polls in a row that make the audit log down (3)

ASSUME PollersConstants == FreshFor \in Nat /\ DownAfter \in Nat \ {0} /\ None \notin Nat

VARIABLES
    alert, scan, audit, \* TrueNAS: its alerts, its pools' last scans, its audit log
    alertsSeen,         \* Alerts.seen: the alert last recorded for a uuid
    alertsPoll,         \* a poll of the alerts under way
    scansRunning, scansNoted, \* Scans.running and Scans.noted
    scanPoll,           \* per pool, the scan being noted
    auditSeen, auditFailures, auditPoll

alertVars == <<alert, alertsSeen, alertsPoll>>
scanVars  == <<scan, scansRunning, scansNoted, scanPoll>>
auditVars == <<audit, auditSeen, auditFailures, auditPoll>>

Functions == {"RESILVER", "SCRUB"}
NoAlerts == [todo |-> {}, got |-> [u \in Uuids |-> None], current |-> [u \in Uuids |-> None], on |-> FALSE]
NoAudit == [todo |-> {}, rules |-> {}, at |-> None, ok |-> TRUE, current |-> {}, on |-> FALSE]

PollersInit ==
    /\ alert = [u \in Uuids |-> None] /\ alertsSeen = alert /\ alertsPoll = NoAlerts
    /\ scan = [p \in Pools |-> None] /\ scansRunning = {}
    /\ scansNoted = [f \in Functions, p \in Pools |-> None] /\ scanPoll = [p \in Pools |-> None]
    /\ audit = [a \in AuditIds |-> None] /\ auditSeen = {} /\ auditFailures = 0 /\ auditPoll = NoAudit
-----------------------------------------------------------------------------
(***************************************************************************)
(* Alerts.  TrueNAS moves last_occurrence with its clock, so an alert here *)
(* is when it was raised, its level and its text: its fingerprint.         *)
(***************************************************************************)
Raised(u, level, text) ==
    /\ Spend("alerts")
    /\ alert' = [alert EXCEPT ![u] =
                    [raised |-> IF alert[u] = None THEN now ELSE alert[u].raised, level |-> level, text |-> text]]
    /\ alert' # alert
    /\ UNCHANGED <<now, storeVars, alertsSeen, alertsPoll, scanVars, auditVars>>

\* Dismissed by the user, or over.
Cleared(u) ==
    /\ Spend("alerts") /\ alert[u] # None
    /\ alert' = [alert EXCEPT ![u] = None]
    /\ UNCHANGED <<now, storeVars, alertsSeen, alertsPoll, scanVars, auditVars>>

SeverityOf(level) ==
    CASE level \in {"CRITICAL", "ALERT", "EMERGENCY"} -> "critical"
      [] level \in {"ERROR", "WARNING"} -> "warning"
      [] OTHER -> "info"

\* alertToEvent, with poll's time for one already seen that changed.
AlertEvent(a, changed) ==
    Event(<<"alert", a.level, a.text>>, SeverityOf(a.level), IF changed THEN now ELSE a.raised)

\* The alerts that are as they were are seen again; one without words is
\* seen and never recorded.
PassedOver(u) == alert[u] # None /\ (alert[u] = alertsSeen[u] \/ alert[u].text = "")
AlertsFetch ==
    /\ ~alertsPoll.on
    /\ alertsPoll' = [todo |-> {u \in Uuids : alert[u] # None /\ ~PassedOver(u)}, got |-> alert, on |-> TRUE,
                      current |-> [u \in Uuids |-> IF PassedOver(u) THEN alert[u] ELSE None]]
    /\ alertsPoll'.todo # {} \/ alertsPoll'.current # alertsSeen
    /\ UNCHANGED <<now, storeVars, left, alert, alertsSeen, scanVars, auditVars>>

AlertDone(u, current) == alertsPoll' = [alertsPoll EXCEPT !.todo = @ \ {u}, !.current = current]

AlertIngested(u) ==
    LET a == alertsPoll.got[u] IN
    /\ u \in alertsPoll.todo
    /\ Ingest(AlertEvent(a, alertsSeen[u] # None))
    /\ AlertDone(u, [alertsPoll.current EXCEPT ![u] = a])
    /\ UNCHANGED <<now, left, alert, alertsSeen, scanVars, auditVars>>

\* Left out of what's seen, so that the next poll tries again.
AfterAlertFailedSeen(u) == [alertsPoll.current EXCEPT ![u] = alertsPoll.got[u]]
AfterAlertFailed(u) == alertsPoll.current
AlertFailed(u) ==
    /\ u \in alertsPoll.todo
    /\ IngestFails
    /\ AlertDone(u, AfterAlertFailed(u))
    /\ UNCHANGED <<now, alert, alertsSeen, scanVars, auditVars>>

AlertsEnd ==
    /\ alertsPoll.on /\ alertsPoll.todo = {}
    /\ alertsSeen' = alertsPoll.current
    /\ alertsPoll' = NoAlerts
    /\ UNCHANGED <<now, storeVars, left, alert, scanVars, auditVars>>
-----------------------------------------------------------------------------
(***************************************************************************)
(* Scans: one of a pool starts and ends, the user's or the assistant's.    *)
(***************************************************************************)
ScanStarts(p, function, mine) ==
    /\ Spend("scans") /\ (scan[p] # None => scan[p].ended # None)
    /\ scan' = [scan EXCEPT ![p] = [function |-> function, ended |-> None, errors |-> FALSE,
                                    mine |-> mine /\ function = "SCRUB"]]
    /\ UNCHANGED <<now, storeVars, alertVars, scansRunning, scansNoted, scanPoll, auditVars>>

ScanEnds(p, errors) ==
    /\ scan[p] # None /\ scan[p].ended = None
    /\ scan' = [scan EXCEPT ![p].ended = now, ![p].errors = errors]
    /\ UNCHANGED <<now, storeVars, left, alertVars, scansRunning, scansNoted, scanPoll, auditVars>>

ScanSeen(p) ==
    /\ scanPoll[p] = None /\ scan[p] # None
    /\ scan[p].ended = None /\ <<scan[p].function, p>> \notin scansRunning
    /\ scansRunning' = scansRunning \cup {<<scan[p].function, p>>}
    /\ UNCHANGED <<now, storeVars, left, alertVars, scan, scansNoted, scanPoll, auditVars>>

\* A finished one is noted once by its end: news if it was seen running, or
\* is recent enough to have finished while the helper was away.
IsNews(p) == <<scan[p].function, p>> \in scansRunning \/ now - scan[p].ended < FreshFor
ScanFinished(p) ==
    LET key == <<scan[p].function, p>> IN
    /\ scanPoll[p] = None /\ scan[p] # None
    /\ scan[p].ended # None /\ scansNoted[key] # scan[p].ended
    /\ scansNoted' = [scansNoted EXCEPT ![key] = scan[p].ended]
    /\ scansRunning' = scansRunning \ {key}
    /\ scanPoll' = [scanPoll EXCEPT ![p] = IF IsNews(p) THEN scan[p] ELSE None]
    /\ UNCHANGED <<now, storeVars, left, alertVars, scan, auditVars>>

ResilverEvent(p, s) == Event(<<"rebuilt", p, s.ended>>, IF s.errors THEN "warning" ELSE "info", s.ended)
ScrubEvent(p, s) == Event(<<"scrubbed", p, s.ended>>, IF s.errors THEN "warning" ELSE "info", s.ended)
ScanEvent(p, s) == IF s.function = "RESILVER" THEN ResilverEvent(p, s) ELSE ScrubEvent(p, s)

\* A scrub of the assistant's has its own entry; when the jobs can't be read
\* it gets this one too.
Elsewhere(s, jobsRead) == s.mine /\ jobsRead
ScanRecorded(p, jobsRead) ==
    /\ scanPoll[p] # None
    /\ IF Elsewhere(scanPoll[p], jobsRead) THEN UNCHANGED storeVars
       ELSE Ingest(ScanEvent(p, scanPoll[p]))
    /\ scanPoll' = [scanPoll EXCEPT ![p] = None]
    /\ UNCHANGED <<now, left, alertVars, scan, scansRunning, scansNoted, auditVars>>

ScanFailed(p) ==
    /\ scanPoll[p] # None
    /\ IngestFails
    /\ scanPoll' = [scanPoll EXCEPT ![p] = None]
    /\ UNCHANGED <<now, alertVars, scan, scansRunning, scansNoted, auditVars>>
-----------------------------------------------------------------------------
(***************************************************************************)
(* The audit log.                                                          *)
(***************************************************************************)
Audited(a, entry) ==
    /\ Spend("audit") /\ audit[a] = None
    /\ audit' = [audit EXCEPT ![a] = [at |-> now, entry |-> entry]]
    /\ UNCHANGED <<now, storeVars, alertVars, scanVars, auditSeen, auditFailures, auditPoll>>

\* The rules: what each is in the feed.
NewPublicIPLogin(at) == Event(<<"new-ip">>, "warning", at)
PrivilegedLogin(at) == Event(<<"privileged">>, "info", at)
ShareCreated(at) == Event(<<"share">>, "info", at)
UserCreated(at) == Event(<<"user">>, "info", at)
PrivilegeGranted(at) == Event(<<"grant">>, "warning", at)
RuleEvent(rule, at) ==
    CASE rule = "new-ip"     -> NewPublicIPLogin(at)
      [] rule = "privileged" -> PrivilegedLogin(at)
      [] rule = "share"      -> ShareCreated(at)
      [] rule = "user"       -> UserCreated(at)
      [] rule = "grant"      -> PrivilegeGranted(at)

\* Which rules a row matches.  A program's sign-in, by an API key, is none,
\* and a user may sign in from afar and be privileged both.
MethodRules == [share |-> "sharing.create", user |-> "user.create", grant |-> "privilege.update"]
SignInRules(entry) ==
    (IF entry.public THEN {"new-ip"} ELSE {}) \cup (IF entry.privileged THEN {"privileged"} ELSE {})
RulesOf(entry) ==
    CASE entry.event = "LOGIN" -> IF entry.apiKey THEN {} ELSE SignInRules(entry)
      [] entry.event = "METHOD_CALL" -> {rule \in DOMAIN MethodRules : MethodRules[rule] = entry.method}
      [] OTHER -> {}

AuditDown == Event(<<"audit-down">>, "critical", now)

AuditRows == {a \in AuditIds : audit[a] # None}
AuditFetch ==
    /\ ~auditPoll.on
    /\ auditFailures # 0 \/ AuditRows # auditSeen
    /\ auditFailures' = 0
    /\ auditPoll' = [NoAudit EXCEPT !.on = TRUE, !.todo = AuditRows \ auditSeen,
                                    !.current = AuditRows \cap auditSeen]
    /\ UNCHANGED <<now, storeVars, left, alertVars, scanVars, audit, auditSeen>>

\* The request is refused: the log isn't there to be read, which isn't news.
AuditUnavailable ==
    /\ ~auditPoll.on /\ auditFailures # 0
    /\ auditFailures' = 0
    /\ UNCHANGED <<now, storeVars, left, alertVars, scanVars, audit, auditSeen, auditPoll>>

\* The poll fails; from the third time in a row it is an event.
AuditFails(stored) ==
    /\ ~auditPoll.on /\ Spend("audit")
    /\ auditFailures' = auditFailures + 1
    /\ IF auditFailures' >= DownAfter /\ stored THEN Ingest(AuditDown) ELSE UNCHANGED storeVars
    /\ UNCHANGED <<now, alertVars, scanVars, audit, auditSeen, auditPoll>>

\* The next row, oldest first, and the rules it matches.
AuditNext(a) ==
    /\ auditPoll.at = None /\ a \in auditPoll.todo
    /\ \A b \in auditPoll.todo : audit[a].at =< audit[b].at
    /\ auditPoll' = [auditPoll EXCEPT !.at = a, !.rules = RulesOf(audit[a].entry), !.ok = TRUE]
    /\ UNCHANGED <<now, storeVars, left, alertVars, scanVars, audit, auditSeen, auditFailures>>

AuditRule(rule, stored) ==
    /\ rule \in auditPoll.rules
    /\ IF stored THEN Ingest(RuleEvent(rule, audit[auditPoll.at].at)) /\ UNCHANGED left ELSE IngestFails
    /\ auditPoll' = [auditPoll EXCEPT !.rules = @ \ {rule}, !.ok = @ /\ stored]
    /\ UNCHANGED <<now, alertVars, scanVars, audit, auditSeen, auditFailures>>

\* Seen only once all its rules are stored.
RowSeenAnyway == auditPoll.at \in AuditIds
RowSeen == auditPoll.ok
AuditRowDone ==
    /\ auditPoll.at # None /\ auditPoll.rules = {}
    /\ auditPoll' = [auditPoll EXCEPT !.at = None, !.todo = @ \ {auditPoll.at},
                                      !.current = IF RowSeen THEN @ \cup {auditPoll.at} ELSE @]
    /\ UNCHANGED <<now, storeVars, left, alertVars, scanVars, audit, auditSeen, auditFailures>>

AuditEnd ==
    /\ auditPoll.on /\ auditPoll.at = None /\ auditPoll.todo = {}
    /\ auditSeen' = auditPoll.current
    /\ auditPoll' = NoAudit
    /\ UNCHANGED <<now, storeVars, left, alertVars, scanVars, audit, auditFailures>>
-----------------------------------------------------------------------------
\* A row of the audit log is only done with once everything it means is in
\* the feed: what failed half-way comes again with the next poll.
AuditRowsAreWhole ==
    \A a \in auditSeen : \A rule \in RulesOf(audit[a].entry) :
        \E i \in DOMAIN rows : rows[i].key = <<rule>> /\ audit[a].at =< rows[i].last
-----------------------------------------------------------------------------
\* What the pollers forget when the helper stops.
PollersForget ==
    /\ alertsSeen' = [u \in Uuids |-> None] /\ alertsPoll' = NoAlerts
    /\ scansRunning' = {} /\ scansNoted' = [f \in Functions, p \in Pools |-> None]
    /\ scanPoll' = [p \in Pools |-> None]
    /\ auditSeen' = {} /\ auditFailures' = 0 /\ auditPoll' = NoAudit
    /\ UNCHANGED <<alert, scan, audit>>
=============================================================================
