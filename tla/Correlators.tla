----------------------------- MODULE Correlators -----------------------------
(***************************************************************************)
(* The three correlators (internal/events/correlators): each reads what    *)
(* the store sends it, one event at a time, and writes a parent row for    *)
(* some, to which it then links the child.  A parent is sent like any      *)
(* other event, to the correlators too.                                    *)
(***************************************************************************)
EXTENDS EventStore, FiniteSets

CONSTANTS
    Threshold, \* snapshot runs that make a roll-up (3)
    Lookback,  \* the time they are counted over
    ListLimit  \* the rows a list of jobs has at most (200)

ASSUME CorrelatorsConstants == Threshold \in Nat \ {0} /\ Lookback \in Nat \ {0} /\ ListLimit \in Nat \ {0}

VARIABLES
    correlator, \* of each: the children it is about to link, and to what
    linkFailed  \* history: the children whose last link was not written

CorrelatorNames == {"disk", "scrub", "rollup"}
Idle == [step |-> "idle", child |-> NoRow, children |-> {}, parent |-> NoRow]
CorrelatorsInit == correlator = [c \in CorrelatorNames |-> Idle] /\ linkFailed = {}

\* DiskParentFor: the phase an alert's class and words tell, if any; a
\* degraded pool is as bad as its alert.
Phases == {"fault", "degraded", "started", "finished"}
DiskSeverity(phase, severity) ==
    CASE phase = "fault" -> "critical" [] phase = "degraded" -> severity [] OTHER -> "info"
DiskKey(phase) == <<IF phase \in {"started", "finished"} THEN "resilver" ELSE "disk", phase>>
DiskParent(row) == Event(DiskKey(row.key[3]), DiskSeverity(row.key[3], row.severity), row.at)
OfDisk(row) == row.key[1] = "alert" /\ row.key[3] \in Phases

\* ScrubParentFor: the end of a pool.scrub job.
ScrubSeverity(state) == IF state \in {"failed", "aborted"} THEN "warning" ELSE "info"
ScrubParent(row) == Event(<<"scrub", row.key[3]>>, ScrubSeverity(row.key[3]), row.at)
OfScrub(row) == row.key[1] = "job" /\ row.key[2] = "pool.scrub"

OfSnapshot(row) == row.key[1] = "job" /\ row.key[2] = "snapshot" /\ row.key[3] = "success"

\* recentSnapshotMatches: the snapshot runs among the newest jobs since a
\* lookback ago.  Of rows of one time SQLite may leave out any.
JobsSince(at) == {i \in Kept : KindOf(rows[i].key) = "job" /\ at < rows[i].at + Lookback}
Listings(at) ==
    {list \in SUBSET JobsSince(at) :
        /\ list = JobsSince(at) \/ Cardinality(list) = ListLimit
        /\ Cardinality(list) =< ListLimit
        /\ \A i \in list, j \in JobsSince(at) \ list : rows[j].at =< rows[i].at}
Matches(list) == {i \in list : OfSnapshot(rows[i])}

\* A day's roll-up has one key; a day here is a lookback long.
RollupParent(row) == Event(<<"rollup", row.at \div Lookback>>, "info", row.at)

Concerns(c, row) ==
    CASE c = "disk" -> OfDisk(row) [] c = "scrub" -> OfScrub(row) [] c = "rollup" -> OfSnapshot(row)
ParentFor(c, row) ==
    CASE c = "disk" -> DiskParent(row) [] c = "scrub" -> ScrubParent(row) [] c = "rollup" -> RollupParent(row)

\* What a correlator may be about to link to the parent of child: that child,
\* or for a roll-up every run it listed, if there are enough.
ChildrenOf(c, child) ==
    IF c = "rollup" THEN {Matches(list) : list \in Listings(rows[child].at)} ELSE {{child}}
Enough(c, children) == c = "rollup" => Cardinality(children) >= Threshold

FreeToo(c) == correlator[c].step # "parent"
Free(c) == correlator[c] = Idle
Handle(c) ==
    LET child == Received(c) IN
    /\ Free(c)
    /\ Receives(c)
    /\ \E children \in ChildrenOf(c, child) :
          correlator' = [correlator EXCEPT ![c] =
              IF Concerns(c, rows[child]) /\ Enough(c, children)
              THEN [step |-> "parent", child |-> child, children |-> children, parent |-> NoRow] ELSE Idle]
    /\ UNCHANGED <<now, rows, subs, missed, left, linkFailed>>

\* The list of runs fails: nothing is done for this one.
ListFails ==
    LET run == Received("rollup") IN
    /\ Free("rollup")
    /\ Receives("rollup") /\ OfSnapshot(rows[run])
    /\ Spend("store")
    /\ Loses("rollup", {run})
    /\ UNCHANGED <<now, rows, subs, correlator, linkFailed>>

ParentIngested(c) ==
    LET ev == ParentFor(c, rows[correlator[c].child]) IN
    /\ correlator[c].step = "parent"
    /\ Ingest(ev)
    /\ correlator' = [correlator EXCEPT ![c].step = "link", ![c].parent = StoredAs(ev)]
    /\ UNCHANGED <<now, left, linkFailed>>

ParentFails(c) ==
    /\ correlator[c].step = "parent"
    /\ Spend("store")
    /\ Loses(c, {correlator[c].child})
    /\ correlator' = [correlator EXCEPT ![c] = Idle]
    /\ UNCHANGED <<now, rows, subs, inbox, linkFailed>>

\* One child linked; a roll-up passes over those that were linked when it
\* listed them.
Unlinked(c, child) == c = "rollup" => rows[child].parent = NoRow
LinkChild(c, child) ==
    /\ correlator[c].step = "link" /\ child \in correlator[c].children
    /\ rows' = IF Unlinked(c, child) THEN Link(child, correlator[c].parent) ELSE rows
    /\ correlator' = [correlator EXCEPT ![c].children = @ \ {child}]
    /\ linkFailed' = linkFailed \ {child}
    /\ UNCHANGED <<now, subs, inbox, missed, left>>

\* A link that can't be written is logged, and passed over.
LinkFails(c, child) ==
    /\ correlator[c].step = "link" /\ child \in correlator[c].children /\ Unlinked(c, child)
    /\ Spend("store")
    /\ correlator' = [correlator EXCEPT ![c].children = @ \ {child}]
    /\ linkFailed' = linkFailed \cup {child}
    /\ UNCHANGED <<now, storeVars>>

LinksDone(c) ==
    /\ correlator[c].step = "link" /\ correlator[c].children = {}
    /\ correlator' = [correlator EXCEPT ![c] = Idle]
    /\ UNCHANGED <<now, storeVars, left, linkFailed>>

CorrelatorsForget == correlator' = [c \in CorrelatorNames |-> Idle] /\ UNCHANGED linkFailed
-----------------------------------------------------------------------------
DealtWith(c, i) ==
    /\ i \notin missed[c] /\ correlator[c].child # i
    /\ \A n \in DOMAIN inbox[c] : inbox[c][n] # i

\* An alert about a disk, and a scrub's job, have a parent once their
\* correlator is through with them, the one their own words make, unless the
\* link was not written.
ChildrenAreLinked ==
    \A c \in {"disk", "scrub"}, i \in Kept :
        (Concerns(c, rows[i]) /\ DealtWith(c, i)) =>
            \/ i \in linkFailed
            \/ rows[i].parent # NoRow /\ rows[rows[i].parent].key = ParentFor(c, rows[i]).key

\* The snapshot runs of a time that any list of that time's jobs has.
Recent(at) ==
    {i \in JobsSince(at) :
        /\ OfSnapshot(rows[i])
        /\ Cardinality({j \in JobsSince(at) \ {i} : rows[j].at >= rows[i].at}) < ListLimit}

\* "Once the threshold is crossed the rollup is emitted and all prior unlinked
\* siblings get back-linked": when the correlator is through with the newest
\* run, either there are too few or every recent one has a roll-up, unless its
\* link was not written.
RollupIsWhole ==
    LET runs == {i \in Kept : OfSnapshot(rows[i])}
        newest == CHOOSE i \in runs : \A j \in runs : j =< i
        recent == Recent(rows[newest].at) IN
    (runs # {} /\ correlator["rollup"] = Idle /\ DealtWith("rollup", newest)) =>
        (Cardinality(recent) >= Threshold => \A i \in recent : i \in linkFailed \/ rows[i].parent # NoRow)

\* A correlator that is through with an event has given it the parent it is
\* due, whatever the others, the store and the pruning do meanwhile, but for a
\* link the store refused: that is only made up for if the event is sent, or
\* listed, again.  What it misses, or drops when the list or the parent's write
\* fails, it isn't through with.
ParentsAreLinked == ChildrenAreLinked /\ RollupIsWhole
=============================================================================
