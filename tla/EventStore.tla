----------------------------- MODULE EventStore -----------------------------
(***************************************************************************)
(* The table of events and the fan-out to those who subscribe to it        *)
(* (internal/events/store.go).  A row's id is its place in the table; a    *)
(* pruned row keeps its place and is gone.  A key is a tuple that starts   *)
(* with its source, which decides the row's kind and the window in which   *)
(* what comes again is merged.  A row's payload is known by the time of    *)
(* the occurrence it was read from, and a row by its id once it is sent.   *)
(***************************************************************************)
EXTENDS Naturals, Sequences

CONSTANTS
    Subscribers, \* who may subscribe
    Buffer,      \* events that wait for a subscriber (16 to 64)
    Window,      \* per source, how far apart occurrences are merged
    Retention,   \* how long events are kept
    MaxTime,     \* bound on the clock
    MaxRows,     \* bound on the table
    Budgets      \* bounds on what the surroundings do, one chosen per behaviour

ASSUME StoreConstants ==
    /\ Buffer \in Nat \ {0} /\ Retention \in Nat /\ MaxTime \in Nat /\ MaxRows \in Nat
    /\ \A s \in DOMAIN Window : Window[s] \in Nat

VARIABLES
    now,   \* the clock
    rows,  \* the table, by id
    subs,  \* who is subscribed
    inbox, \* what waits for each of them
    missed, \* history: what was last sent and each of them didn't get, or lost
    left   \* what the surroundings may still do

storeVars == <<rows, subs, inbox, missed>>

Severities == {"critical", "warning", "info"}
NoRow == 0
Ids == 1..MaxRows

KindOf(key) ==
    CASE key[1] = "alert"                    -> "alert"
      [] key[1] \in {"job", "assistant"}     -> "job"
      [] key[1] \in {"scrub", "scrubbed"}    -> "scrub"
      [] key[1] \in {"resilver", "rebuilt"}  -> "resilver"
      [] key[1] = "disk"                     -> "disk"
      [] key[1] \in {"rollup", "digest"}     -> "snapshot"
      [] OTHER                               -> "security"

StoreInit ==
    /\ now = 0 /\ rows = <<>> /\ subs = {}
    /\ inbox = [s \in Subscribers |-> <<>>]
    /\ missed = [s \in Subscribers |-> {}]
    /\ left \in Budgets

\* One of what the surroundings may do a limited number of times.
Spend(what) ==
    /\ left[what] > 0
    /\ left' = [left EXCEPT ![what] = @ - 1]
-----------------------------------------------------------------------------
Kept == {i \in DOMAIN rows : ~rows[i].gone}

NearBefore(key, at) ==
    {i \in Kept : rows[i].key = key /\ rows[i].at =< at /\ at =< rows[i].at + Window[key[1]]}
\* The rows an occurrence may be merged into, those around its own time.
Near(key, at) ==
    {i \in Kept : /\ rows[i].key = key
                  /\ at =< rows[i].at + Window[key[1]]
                  /\ rows[i].at =< at + Window[key[1]]}

Latest(ids) == CHOOSE i \in ids : \A j \in ids : rows[j].at =< rows[i].at

Event(key, severity, at) == [key |-> key, severity |-> severity, at |-> at]

NewRow(ev) ==
    [key |-> ev.key, severity |-> ev.severity, at |-> ev.at, last |-> ev.at, body |-> ev.at,
     count |-> 1, parent |-> NoRow, acked |-> FALSE, gone |-> FALSE]

\* A late occurrence counts, and leaves the latest time and payload alone.
Merged(row, ev) ==
    IF ev.at < row.last
    THEN [row EXCEPT !.count = @ + 1]
    ELSE [row EXCEPT !.count = @ + 1, !.last = ev.at, !.body = ev.at]

StoredAs(ev) ==
    IF Near(ev.key, ev.at) = {} THEN Len(rows) + 1 ELSE Latest(Near(ev.key, ev.at))

Stored(ev) ==
    IF StoredAs(ev) > Len(rows)
    THEN Append(rows, NewRow(ev))
    ELSE [rows EXCEPT ![StoredAs(ev)] = Merged(@, ev)]

\* Whoever is behind misses what is sent.
Gets(s) == s \in subs /\ Len(inbox[s]) < Buffer
Broadcast(id) ==
    /\ inbox' = [s \in Subscribers |-> IF Gets(s) THEN Append(inbox[s], id) ELSE inbox[s]]
    /\ missed' = [s \in Subscribers |-> IF Gets(s) THEN missed[s] \ {id} ELSE missed[s] \cup {id}]

\* Ingest: the transaction, and the broadcast after it.
Ingest(ev) ==
    /\ StoredAs(ev) \in Ids
    /\ rows' = Stored(ev)
    /\ Broadcast(StoredAs(ev))
    /\ UNCHANGED subs

\* An Ingest whose transaction fails.
IngestFails ==
    /\ Spend("store")
    /\ UNCHANGED storeVars

\* SetCorrelation; a child that is gone has no row to link.
Link(child, parent) ==
    IF child \in Kept THEN [rows EXCEPT ![child].parent = parent] ELSE rows

Subscribe(s) ==
    /\ s \notin subs /\ Spend(s)
    /\ subs' = subs \cup {s}
    /\ UNCHANGED <<now, rows, inbox, missed>>

Received(s) == Head(inbox[s])
Receives(s) ==
    /\ s \in subs /\ inbox[s] # <<>>
    /\ inbox' = [inbox EXCEPT ![s] = Tail(@)]
Loses(s, ids) == missed' = [missed EXCEPT ![s] = @ \cup ids]
-----------------------------------------------------------------------------
(***************************************************************************)
(* What the app asks for, and the daily pruning.                           *)
(***************************************************************************)
Ack(id) ==
    /\ Spend("app") /\ id \in Kept
    /\ rows' = [rows EXCEPT ![id].acked = TRUE]
    /\ UNCHANGED <<now, subs, inbox, missed>>

AckAll ==
    /\ Spend("app")
    /\ rows' = [i \in DOMAIN rows |-> IF i \in Kept THEN [rows[i] EXCEPT !.acked = TRUE] ELSE rows[i]]
    /\ UNCHANGED <<now, subs, inbox, missed>>

Prune ==
    /\ Spend("prune")
    /\ \E i \in Kept : rows[i].at + Retention < now
    /\ rows' = [i \in DOMAIN rows |->
                   IF rows[i].at + Retention < now THEN [rows[i] EXCEPT !.gone = TRUE] ELSE rows[i]]
    /\ UNCHANGED <<now, subs, inbox, missed>>

\* The helper stops: nobody is subscribed, and what waited is lost.
StoreForgets(lost) ==
    /\ subs' = {}
    /\ inbox' = [s \in Subscribers |-> <<>>]
    /\ missed' = [s \in Subscribers |-> missed[s] \cup {inbox[s][n] : n \in DOMAIN inbox[s]} \cup lost[s]]
    /\ UNCHANGED rows

Tick ==
    /\ now < MaxTime
    /\ now' = now + 1
    /\ UNCHANGED <<storeVars, left>>
-----------------------------------------------------------------------------
RowType ==
    [key : {rows[i].key : i \in DOMAIN rows}, severity : Severities, at : Nat, last : Nat, body : Nat,
     count : Nat \ {0}, parent : Nat, acked : BOOLEAN, gone : BOOLEAN]

\* A row's payload is the latest occurrence's, in whatever order they came
\* (the late occurrences of Ingest).
BodyIsLatest == \A i \in DOMAIN rows : rows[i].body = rows[i].last /\ rows[i].at =< rows[i].last

\* What occurs twice within its window, in either order, is one row, and so
\* one entry of the feed and one id to notify.
OneRowPerWindow ==
    \A i, j \in Kept :
        (i # j /\ rows[i].key = rows[j].key) =>
            \/ rows[i].at + Window[rows[i].key[1]] < rows[j].at
            \/ rows[j].at + Window[rows[j].key[1]] < rows[i].at

=============================================================================
