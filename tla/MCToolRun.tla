----------------------------- MODULE MCToolRun -----------------------------
(***************************************************************************)
(* ToolRun for TLC: one request of each kind, and what the NAS may have.   *)
(***************************************************************************)
EXTENDS ToolRun

Asks(tool, actions) == {[tool |-> tool, action |-> a, named |-> None] : a \in actions}
OnOff == {"start", "stop", "restart"}
MCRequests ==
    Asks("app", OnOff) \cup Asks("vm", OnOff) \cup Asks("container", OnOff) \cup Asks("service", OnOff)
    \cup Asks("scrub", {"start", "cancel"})
    \cup UNION {Asks(t, {"none"}) : t \in {"replication", "rsync", "update", "rollback", "snapshot"}}
    \cup {[tool |-> "rollback", action |-> "none", named |-> 1]}
    \cup {[tool |-> "alerts", action |-> "none", named |-> None, alerts |-> {"a", "b"}, count |-> 2]}

Switch(states) == {[state |-> s] : s \in states}
Task == [busy : BOOLEAN, locked : {FALSE}, enabled : {TRUE}]
App == {[state |-> "RUNNING", version |-> 2, newest |-> n, images |-> i, custom |-> c, earlier |-> {0, 1}] :
           n \in {2, 3}, i \in BOOLEAN, c \in BOOLEAN}
MCSubjects ==
    [t \in {r.tool : r \in MCRequests} |->
        CASE t = "app" -> Switch({"RUNNING", "STOPPED", "DEPLOYING"})
          [] t \in {"vm", "container", "service"} -> Switch({"RUNNING", "STOPPED"})
          [] t \in {"replication", "rsync"} -> Task
          [] t \in {"update", "rollback"} -> App
          [] t = "snapshot" -> {[minute |-> 0, names |-> {}]}
          [] t = "scrub" -> {[scan |-> NoScan], [scan |-> ScanOf(None)]}
          [] t = "alerts" -> {[active |-> {"a", "b"}], [active |-> {"a"}]}]
=============================================================================
