------------------------------- MODULE MCFeed -------------------------------
(***************************************************************************)
(* Feed for TLC.  A behaviour picks one of a few stories, which says what  *)
(* its surroundings may do and how often; the windows are told apart by    *)
(* lengths of 0 to 3 on a clock that stops at MaxTime.                     *)
(***************************************************************************)
EXTENDS Feed

MCWindow ==
    [s \in {"alert", "job", "assistant", "scrub", "scrubbed", "rebuilt", "resilver", "disk", "rollup",
            "digest", "new-ip", "privileged", "share", "user", "grant", "audit-down"} |->
        CASE s \in {"resilver", "disk", "rollup", "new-ip"} -> 2 [] s = "alert" -> 1 [] OTHER -> 0]

MCForms == {[level |-> "CRITICAL", text |-> "fault"], [level |-> "WARNING", text |-> "degraded"],
            [level |-> "INFO", text |-> ""]}

SignIn(public, privileged, apiKey) ==
    [event |-> "LOGIN", public |-> public, privileged |-> privileged, apiKey |-> apiKey]
MCEntries == {SignIn(TRUE, TRUE, FALSE), SignIn(TRUE, FALSE, TRUE),
              [event |-> "METHOD_CALL", method |-> "privilege.update"]}

Report(key, severity) == [key |-> key, severity |-> severity]
MCReports == {Report(<<"job", "snapshot", "success">>, "info"), Report(<<"job", "pool.scrub", "failed">>, "warning"),
              Report(<<"assistant", "job_failed">>, "warning"), Report(<<"digest">>, "info")}

MCPrefs == {[muted |-> m, quiet |-> [on |-> TRUE, start |-> 1, end |-> 0]] : m \in {{}, {"ALERT_CRITICAL"}}}

Kinds == {"alerts", "scans", "audit", "reports", "app", "store", "relay", "restart", "prefs", "prune"} \cup Subscribers
Story(counts) == [k \in Kinds |-> IF k \in DOMAIN counts THEN counts[k] ELSE 0]
MCBudgets ==
    {Story([alerts |-> 2, store |-> 1, prune |-> 1]),
     Story([alerts |-> 2, disk |-> 1]),
     Story([alerts |-> 1, store |-> 2, disk |-> 1]),
     Story([alerts |-> 1, relay |-> 2, restart |-> 1, push |-> 2]),
     Story([alerts |-> 1, prefs |-> 1, push |-> 1]),
     Story([scans |-> 1, store |-> 1, restart |-> 1, push |-> 1]),
     Story([audit |-> 2, store |-> 1]),
     Story([reports |-> 3, store |-> 1, rollup |-> 1]),
     Story([reports |-> 1, app |-> 1, store |-> 1, prune |-> 1, scrub |-> 1, push |-> 1])}
=============================================================================
