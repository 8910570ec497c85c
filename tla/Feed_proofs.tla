----------------------------- MODULE Feed_proofs -----------------------------
(***************************************************************************)
(* Proofs about Feed, for every value of its constants.                    *)
(***************************************************************************)
EXTENDS Feed, WellFoundedInduction, FiniteSetTheorems, TLAPS

(***************************************************************************)
(* The table.  Whatever a step of the feed does, to the table it does one  *)
(* of a few things; what they keep is proved once for all of them.         *)
(***************************************************************************)
RuleNames == {"new-ip", "privileged", "share", "user", "grant"}

\* The keys of what the components write.
Keys == UNION {
    {<<"alert", f.level, g.text>> : f, g \in AlertForms},
    {<<s, p, t>> : s \in {"rebuilt", "scrubbed"}, p \in Pools, t \in Nat},
    {<<rule>> : rule \in RuleNames \cup {"audit-down"}},
    {ev.key : ev \in Reports},
    {<<s, phase>> : s \in {"disk", "resilver"}, phase \in Phases},
    {<<"scrub", ev.key[3]>> : ev \in Reports},
    {<<"rollup", t \div Lookback>> : t \in Nat} }

Row == [key : Keys, severity : Severities, at : Nat, last : Nat, body : Nat, count : Nat \ {0},
        parent : Nat, acked : BOOLEAN, gone : BOOLEAN]
Events == [key : Keys, severity : Severities, at : Nat]

TableOK ==
    /\ now \in Nat
    /\ rows \in Seq(Row) /\ Len(rows) =< MaxRows
    /\ \A i \in DOMAIN rows : rows[i].at =< now /\ rows[i].body = rows[i].last /\ rows[i].at =< rows[i].last

InboxOK ==
    /\ inbox \in [Subscribers -> Seq(Ids)]
    /\ \A s \in Subscribers :
          /\ Len(inbox[s]) =< Buffer
          /\ \A n \in DOMAIN inbox[s] : inbox[s][n] \in DOMAIN rows
    /\ missed \in [Subscribers -> SUBSET Nat]
    /\ subs \subseteq Subscribers

StoreOK == TableOK /\ InboxOK /\ OneRowPerWindow

\* What a row is known by stays, and what happened to it isn't undone.
Grown ==
    /\ DOMAIN rows \subseteq DOMAIN rows'
    /\ \A i \in DOMAIN rows :
          /\ rows'[i].key = rows[i].key /\ rows'[i].at = rows[i].at /\ rows[i].last =< rows'[i].last
          /\ rows[i].gone => rows'[i].gone
          /\ rows[i].parent # NoRow => rows'[i].parent # NoRow
    /\ now =< now'

LEMMA LeastOfNats ==
    ASSUME NEW T \in SUBSET Nat, T # {}
    PROVE  \E x \in T : \A y \in T : x =< y
<1> DEFINE R == OpToRel(<, Nat)
<1>1. \E x \in T : \A y \in T : <<y, x>> \notin R
  <2> HIDE DEF R
  <2>1. IsWellFoundedOn(R, Nat)
    BY NatLessThanWellFounded DEF R
  <2> QED  BY <2>1, WFMin
<1>2. \A x, y \in Nat : <<y, x>> \in R <=> y < x
  BY DEF OpToRel
<1> HIDE DEF R
<1>3. PICK x \in T : \A y \in T : <<y, x>> \notin R
  BY <1>1
<1>4. ASSUME NEW y \in T
      PROVE  x =< y
  <2>1. x \in Nat /\ y \in Nat
    OBVIOUS
  <2>2. ~(y < x)
    BY <2>1, <1>2, <1>3
  <2> QED  BY <2>1, <2>2
<1> QED  BY <1>3, <1>4

LEMMA KeysHaveWindows == \A k \in Keys : Window[k[1]] \in Nat
<1>1. \A k \in Keys : k[1] \in DOMAIN Window
  BY FeedConstants DEF Keys, RuleNames
<1> QED  BY <1>1, StoreConstants

LEMMA RowFields ==
    ASSUME TableOK, NEW i \in DOMAIN rows
    PROVE  /\ rows[i] \in Row /\ rows[i].key \in Keys /\ Window[rows[i].key[1]] \in Nat
           /\ rows[i].at \in Nat /\ rows[i].last \in Nat /\ rows[i].body \in Nat /\ rows[i].parent \in Nat
           /\ rows[i].count \in Nat \ {0}
           /\ rows[i].severity \in Severities /\ i \in Nat /\ i # NoRow /\ i \in Ids
<1>1. rows[i] \in Row /\ i \in 1..Len(rows)
  BY DEF TableOK
<1>2. /\ rows[i].key \in Keys /\ rows[i].at \in Nat /\ rows[i].last \in Nat /\ rows[i].body \in Nat
      /\ rows[i].parent \in Nat /\ rows[i].count \in Nat \ {0} /\ rows[i].severity \in Severities
  BY <1>1 DEF Row
<1>3. i \in Nat /\ i # NoRow /\ i \in Ids
  BY <1>1, StoreConstants DEF TableOK, NoRow, Ids
<1> QED  BY <1>1, <1>2, <1>3, KeysHaveWindows

\* Among rows there is a latest one.
LEMMA LatestIsOne ==
    ASSUME TableOK, NEW ids \in SUBSET DOMAIN rows, ids # {}
    PROVE  Latest(ids) \in ids
<1> DEFINE T == {now - rows[i].at : i \in ids}
<1>1. \A i \in ids : rows[i].at \in Nat /\ rows[i].at =< now /\ now \in Nat
  BY RowFields DEF TableOK
<1>2. T \in SUBSET Nat /\ T # {}
  BY <1>1
<1> HIDE DEF T
<1>3. PICK x \in T : \A y \in T : x =< y
  BY <1>2, LeastOfNats
<1>4. PICK i \in ids : x = now - rows[i].at
  BY DEF T
<1>5. \A j \in ids : now - rows[i].at =< now - rows[j].at
  BY <1>3, <1>4 DEF T
<1>6. \A j \in ids : rows[j].at =< rows[i].at
  BY <1>1, <1>5
<1> QED  BY <1>6 DEF Latest

\* Where an event goes: a row of its own, or one of its key near it.
LEMMA StoredWhere ==
    ASSUME TableOK, NEW ev \in Events
    PROVE  \/ /\ StoredAs(ev) = Len(rows) + 1 /\ Near(ev.key, ev.at) = {}
              /\ Stored(ev) = Append(rows, NewRow(ev))
           \/ /\ StoredAs(ev) \in DOMAIN rows /\ StoredAs(ev) \in Near(ev.key, ev.at)
              /\ Stored(ev) = [rows EXCEPT ![StoredAs(ev)] = Merged(@, ev)]
<1>1. Len(rows) \in Nat /\ DOMAIN rows = 1..Len(rows)
  BY DEF TableOK
<1>2. CASE Near(ev.key, ev.at) = {}
  <2>1. StoredAs(ev) = Len(rows) + 1
    BY <1>2, Zenon DEF StoredAs
  <2>2. StoredAs(ev) > Len(rows)
    BY <1>1, <2>1
  <2>3. Stored(ev) = Append(rows, NewRow(ev))
    BY <2>2, Zenon DEF Stored
  <2> QED  BY <1>2, <2>1, <2>3
<1>3. CASE Near(ev.key, ev.at) # {}
  <2>1. StoredAs(ev) \in Near(ev.key, ev.at)
    BY <1>3, LatestIsOne DEF StoredAs, Near, Kept
  <2>2. StoredAs(ev) \in DOMAIN rows
    BY <2>1 DEF Near, Kept
  <2>3. ~(StoredAs(ev) > Len(rows))
    BY <1>1, <2>2
  <2>4. Stored(ev) = [rows EXCEPT ![StoredAs(ev)] = Merged(@, ev)]
    BY <2>3, Zenon DEF Stored
  <2> QED  BY <2>1, <2>2, <2>4
<1> QED  BY <1>2, <1>3

LEMMA MergedRow ==
    ASSUME NEW r \in Row, NEW ev \in Events, r.body = r.last, r.at =< r.last
    PROVE  LET m == Merged(r, ev) IN
           /\ m \in Row /\ m.key = r.key /\ m.at = r.at /\ m.parent = r.parent /\ m.gone = r.gone
           /\ r.last =< m.last /\ ev.at =< m.last /\ m.body = m.last /\ m.at =< m.last
<1>1. r.last \in Nat /\ r.at \in Nat /\ r.count \in Nat \ {0} /\ ev.at \in Nat /\ r.count + 1 \in Nat \ {0}
  BY DEF Row, Events
<1>2. CASE ev.at < r.last
  BY <1>1, <1>2 DEF Merged, Row
<1>3. CASE ~(ev.at < r.last)
  <2> DEFINE m == [r EXCEPT !.count = @ + 1, !.last = ev.at, !.body = ev.at]
  <2>1. m \in Row
    BY <1>1 DEF Row
  <2>2. /\ m.key = r.key /\ m.at = r.at /\ m.parent = r.parent /\ m.gone = r.gone
        /\ m.last = ev.at /\ m.body = ev.at
    BY DEF Row
  <2>3. Merged(r, ev) = m
    BY <1>3 DEF Merged
  <2> HIDE DEF m
  <2>4. r.last =< ev.at /\ r.at =< ev.at
    BY <1>1, <1>3
  <2> QED  BY <1>1, <2>1, <2>2, <2>3, <2>4
<1> QED  BY <1>2, <1>3

\* What Ingest leaves.
LEMMA IngestTable ==
    ASSUME TableOK, OneRowPerWindow, NEW ev \in Events, ev.at =< now,
           Ingest(ev), now' = now
    PROVE  /\ TableOK' /\ OneRowPerWindow' /\ Grown
           /\ DOMAIN rows' = DOMAIN rows \cup {StoredAs(ev)} /\ StoredAs(ev) \in Nat \ {NoRow}
           /\ rows'[StoredAs(ev)].key = ev.key /\ ev.at =< rows'[StoredAs(ev)].last
           /\ \A i \in DOMAIN rows : rows'[i].parent = rows[i].parent /\ rows'[i].gone = rows[i].gone
           /\ StoredAs(ev) \notin DOMAIN rows =>
                 /\ StoredAs(ev) = Len(rows) + 1
                 /\ rows'[StoredAs(ev)].parent = NoRow /\ ~rows'[StoredAs(ev)].gone
                 /\ rows'[StoredAs(ev)].at = ev.at
<1> DEFINE id == StoredAs(ev)
<1>1. /\ rows' = Stored(ev) /\ id \in Ids
      /\ rows \in Seq(Row) /\ Len(rows) \in Nat /\ DOMAIN rows = 1..Len(rows)
      /\ ev.key \in Keys /\ ev.severity \in Severities /\ ev.at \in Nat /\ now \in Nat
      /\ \A i \in DOMAIN rows : /\ rows[i].at \in Nat /\ rows[i].last \in Nat /\ rows[i] \in Row
                                /\ Window[rows[i].key[1]] \in Nat
      /\ Window[ev.key[1]] \in Nat
  BY RowFields, KeysHaveWindows DEF Ingest, TableOK, Events
<1>2. CASE id = Len(rows) + 1 /\ Near(ev.key, ev.at) = {} /\ Stored(ev) = Append(rows, NewRow(ev))
  <2>1. NewRow(ev) \in Row
    BY <1>1 DEF NewRow, Row, NoRow
  <2>2. /\ rows' \in Seq(Row) /\ Len(rows') = Len(rows) + 1 /\ DOMAIN rows' = 1..(Len(rows) + 1)
        /\ \A i \in DOMAIN rows : rows'[i] = rows[i]
        /\ rows'[id] = NewRow(ev)
    BY <1>1, <1>2, <2>1
  <2>3. Len(rows') =< MaxRows
    BY <1>1, <1>2, <2>2, StoreConstants DEF Ids
  <2>4. TableOK'
    BY <1>1, <1>2, <2>2, <2>3 DEF TableOK, NewRow
  <2>5. \A i \in Kept : rows[i].key = ev.key => \/ rows[i].at + Window[ev.key[1]] < ev.at
                                                \/ ev.at + Window[ev.key[1]] < rows[i].at
    BY <1>1, <1>2 DEF Near, Kept
  <2>6. OneRowPerWindow'
    <3> SUFFICES ASSUME NEW i \in Kept', NEW j \in Kept', i # j, rows'[i].key = rows'[j].key
                 PROVE  \/ rows'[i].at + Window[rows'[i].key[1]] < rows'[j].at
                        \/ rows'[j].at + Window[rows'[j].key[1]] < rows'[i].at
      BY DEF OneRowPerWindow
    <3>1. \A k \in Kept' : k \in Kept \/ k = id
      BY <1>1, <1>2, <2>2 DEF Kept
    <3>2. \A k \in Kept : rows'[k] = rows[k]
      BY <2>2 DEF Kept
    <3>3. rows'[id].key = ev.key /\ rows'[id].at = ev.at
      BY <2>2 DEF NewRow
    <3>4. CASE i \in Kept /\ j \in Kept
      BY <3>2, <3>4 DEF OneRowPerWindow
    <3>5. CASE i \in Kept /\ j = id
      BY <2>5, <3>2, <3>3, <3>5
    <3>6. CASE i = id /\ j \in Kept
      BY <2>5, <3>2, <3>3, <3>6
    <3> QED  BY <3>1, <3>4, <3>5, <3>6
  <2> QED  BY <1>1, <1>2, <2>2, <2>4, <2>6 DEF Grown, NewRow, NoRow
<1>3. CASE id \in DOMAIN rows /\ id \in Near(ev.key, ev.at) /\ Stored(ev) = [rows EXCEPT ![id] = Merged(@, ev)]
  <2>1. rows[id].key = ev.key
    BY <1>3 DEF Near
  <2>2. LET m == Merged(rows[id], ev) IN
        /\ m \in Row /\ m.key = rows[id].key /\ m.at = rows[id].at /\ m.parent = rows[id].parent
        /\ m.gone = rows[id].gone
        /\ rows[id].last =< m.last /\ ev.at =< m.last /\ m.body = m.last /\ m.at =< m.last
    BY <1>1, <1>3, MergedRow DEF TableOK
  <2>3. /\ rows' \in Seq(Row) /\ Len(rows') = Len(rows) /\ DOMAIN rows' = DOMAIN rows
        /\ \A i \in DOMAIN rows : i # id => rows'[i] = rows[i]
        /\ rows'[id] = Merged(rows[id], ev)
    BY <1>1, <1>3, <2>2
  <2>4. TableOK'
    BY <1>1, <2>2, <2>3 DEF TableOK
  <2>5. \A i \in DOMAIN rows : /\ rows'[i].key = rows[i].key /\ rows'[i].at = rows[i].at
                               /\ rows'[i].gone = rows[i].gone /\ rows'[i].parent = rows[i].parent
                               /\ rows[i].last =< rows'[i].last
    BY <1>1, <2>2, <2>3
  <2>6. OneRowPerWindow'
    BY <2>3, <2>5 DEF OneRowPerWindow, Kept
  <2> QED  BY <1>1, <1>3, <2>1, <2>2, <2>3, <2>4, <2>5, <2>6 DEF Grown, NoRow
<1> QED  BY <1>1, <1>2, <1>3, StoredWhere
-----------------------------------------------------------------------------
(***************************************************************************)
(* What a step does to the store.                                          *)
(***************************************************************************)
Quiet == UNCHANGED <<now, storeVars>>
\* An event of a job is written as it happens, others may be late.
Posts(ev) == ev.at =< now /\ (ev.key[1] = "job" => ev.at = now) /\ Ingest(ev) /\ UNCHANGED now
Joins == \E s \in Subscribers : subs' = subs \cup {s} /\ UNCHANGED <<now, rows, inbox, missed>>
Reads ==
    \E s \in Subscribers :
        /\ Receives(s)
        /\ UNCHANGED missed \/ \E ids \in SUBSET Nat : Loses(s, ids)
        /\ UNCHANGED <<now, rows, subs>>
Drops == \E s \in Subscribers, ids \in SUBSET Nat : Loses(s, ids) /\ UNCHANGED <<now, rows, subs, inbox>>
\* Acks, links and pruning: the rows stay what they are about.
Marks ==
    /\ rows' \in Seq(Row) /\ DOMAIN rows' = DOMAIN rows
    /\ \A i \in DOMAIN rows :
          /\ rows'[i].key = rows[i].key /\ rows'[i].at = rows[i].at /\ rows'[i].last = rows[i].last
          /\ rows'[i].body = rows[i].body /\ rows'[i].severity = rows[i].severity
          /\ rows[i].gone => rows'[i].gone
          /\ rows[i].parent # NoRow => rows'[i].parent # NoRow
    /\ UNCHANGED <<now, subs, inbox, missed>>
Stops == (\E lost \in [Subscribers -> SUBSET Nat] : StoreForgets(lost)) /\ UNCHANGED now
TimePasses == now' = now + 1 /\ UNCHANGED storeVars

PollStep == Quiet \/ \E ev \in Events : Posts(ev)
StoreStep ==
    \/ Quiet \/ (\E ev \in Events : Posts(ev)) \/ Joins \/ Reads \/ Drops \/ Marks \/ Stops \/ TimePasses

\* An id is sent once its row is there, and nobody is sent more than fits.
LEMMA IngestInbox ==
    ASSUME StoreOK, NEW ev \in Events, ev.at =< now, Ingest(ev), UNCHANGED now
    PROVE  InboxOK'
<1> DEFINE id == StoredAs(ev)
<1>1. DOMAIN rows' = DOMAIN rows \cup {id} /\ id \in Ids /\ id \in Nat
  BY IngestTable DEF StoreOK, Ingest, Ids
<1>2. /\ inbox' = [s \in Subscribers |-> IF Gets(s) THEN Append(inbox[s], id) ELSE inbox[s]]
      /\ missed' = [s \in Subscribers |-> IF Gets(s) THEN missed[s] \ {id} ELSE missed[s] \cup {id}]
      /\ subs' = subs
  BY DEF Ingest, Broadcast
<1> HIDE DEF id
<1>3. \A s \in Subscribers : missed'[s] \in SUBSET Nat /\ missed' \in [Subscribers -> SUBSET Nat]
  BY <1>1, <1>2 DEF StoreOK, InboxOK
<1>4. ASSUME NEW s \in Subscribers
      PROVE  /\ inbox'[s] \in Seq(Ids) /\ Len(inbox'[s]) =< Buffer
             /\ \A n \in DOMAIN inbox'[s] : inbox'[s][n] \in DOMAIN rows'
  <2>1. /\ inbox[s] \in Seq(Ids) /\ Len(inbox[s]) =< Buffer
        /\ \A n \in DOMAIN inbox[s] : inbox[s][n] \in DOMAIN rows
    BY DEF StoreOK, InboxOK
  <2>2. CASE Gets(s)
    <3>1. inbox'[s] = Append(inbox[s], id) /\ Len(inbox[s]) < Buffer
      BY <1>2, <2>2 DEF Gets
    <3>2. Len(inbox[s]) \in Nat /\ Buffer \in Nat
      BY <2>1, StoreConstants
    <3> QED  BY <1>1, <2>1, <3>1, <3>2
  <2>3. CASE ~Gets(s)
    BY <1>1, <1>2, <2>1, <2>3
  <2> QED  BY <2>2, <2>3
<1>5. inbox' \in [Subscribers -> Seq(Ids)]
  BY <1>2, <1>4
<1> QED  BY <1>2, <1>3, <1>4, <1>5 DEF StoreOK, InboxOK

LEMMA SameRowsSameStore ==
    ASSUME StoreOK, rows' = rows, now' \in Nat, now =< now'
    PROVE  TableOK' /\ OneRowPerWindow' /\ Grown
<1>1. now \in Nat /\ \A i \in DOMAIN rows : rows[i].at \in Nat /\ rows[i].last \in Nat
  BY RowFields DEF StoreOK, TableOK
<1>2. TableOK'
  BY <1>1 DEF StoreOK, TableOK
<1>3. OneRowPerWindow'
  BY DEF StoreOK, OneRowPerWindow, Kept
<1>4. Grown
  BY <1>1 DEF Grown
<1> QED  BY <1>2, <1>3, <1>4

LEMMA StoreStepKeeps ==
    ASSUME StoreOK, StoreStep
    PROVE  StoreOK' /\ Grown
<1>1. now \in Nat /\ \A i \in DOMAIN rows : rows[i].at \in Nat /\ rows[i].last \in Nat
  BY RowFields DEF StoreOK, TableOK
<1>2. ASSUME Quiet
      PROVE  StoreOK' /\ Grown
  <2>1. InboxOK'
    BY <1>2 DEF StoreOK, InboxOK, Quiet, storeVars
  <2> QED  BY <1>1, <1>2, <2>1, SameRowsSameStore DEF StoreOK, Quiet, storeVars
<1>3. ASSUME NEW ev \in Events, Posts(ev)
      PROVE  StoreOK' /\ Grown
  BY <1>3, IngestTable, IngestInbox DEF StoreOK, Posts
<1>4. ASSUME Joins
      PROVE  StoreOK' /\ Grown
  <2>1. InboxOK'
    BY <1>4 DEF StoreOK, InboxOK, Joins
  <2> QED  BY <1>1, <1>4, <2>1, SameRowsSameStore DEF StoreOK, Joins
<1>5. ASSUME Reads
      PROVE  StoreOK' /\ Grown
  <2>1. PICK s \in Subscribers : /\ Receives(s)
                                 /\ UNCHANGED missed \/ \E ids \in SUBSET Nat : Loses(s, ids)
                                 /\ UNCHANGED <<now, rows, subs>>
    BY <1>5 DEF Reads
  <2>2. missed' \in [Subscribers -> SUBSET Nat]
    BY <2>1 DEF StoreOK, InboxOK, Loses
  <2>3. inbox[s] \in Seq(Ids) /\ inbox[s] # <<>>
    BY <2>1 DEF StoreOK, InboxOK, Receives
  <2>4. /\ Tail(inbox[s]) \in Seq(Ids) /\ Len(Tail(inbox[s])) = Len(inbox[s]) - 1
        /\ \A n \in DOMAIN Tail(inbox[s]) : n + 1 \in DOMAIN inbox[s] /\ Tail(inbox[s])[n] = inbox[s][n + 1]
    BY <2>3
  <2>5. inbox' = [inbox EXCEPT ![s] = Tail(inbox[s])]
    BY <2>1 DEF Receives
  <2>6. Len(inbox[s]) \in Nat /\ Buffer \in Nat /\ Len(inbox[s]) =< Buffer
    BY <2>3, StoreConstants DEF StoreOK, InboxOK
  <2>7. InboxOK'
    BY <2>1, <2>2, <2>4, <2>5, <2>6 DEF StoreOK, InboxOK
  <2> QED  BY <1>1, <2>1, <2>7, SameRowsSameStore DEF StoreOK
<1>6. ASSUME Drops
      PROVE  StoreOK' /\ Grown
  <2>1. InboxOK'
    BY <1>6 DEF StoreOK, InboxOK, Drops, Loses
  <2> QED  BY <1>1, <1>6, <2>1, SameRowsSameStore DEF StoreOK, Drops
<1>7. ASSUME Marks
      PROVE  StoreOK' /\ Grown
  <2>1. Len(rows') = Len(rows)
    BY <1>7 DEF Marks, StoreOK, TableOK
  <2>2. TableOK'
    BY <1>7, <2>1 DEF Marks, StoreOK, TableOK
  <2>3. InboxOK'
    BY <1>7 DEF Marks, StoreOK, InboxOK
  <2>4. Kept' \subseteq Kept
    BY <1>7 DEF Marks, Kept
  <2>5. OneRowPerWindow'
    BY <1>7, <2>4 DEF Marks, StoreOK, OneRowPerWindow, Kept
  <2>6. Grown
    BY <1>1, <1>7 DEF Marks, Grown
  <2> QED  BY <2>2, <2>3, <2>5, <2>6 DEF StoreOK
<1>8. ASSUME Stops
      PROVE  StoreOK' /\ Grown
  <2>1. PICK lost \in [Subscribers -> SUBSET Nat] : StoreForgets(lost) /\ UNCHANGED now
    BY <1>8 DEF Stops
  <2>2. \A s \in Subscribers : {inbox[s][n] : n \in DOMAIN inbox[s]} \subseteq Nat
    <3>1. DOMAIN rows \subseteq Nat
      BY DEF StoreOK, TableOK
    <3> QED  BY <3>1 DEF StoreOK, InboxOK
  <2>3. missed' \in [Subscribers -> SUBSET Nat]
    BY <2>1, <2>2 DEF StoreForgets, StoreOK, InboxOK
  <2>4. InboxOK'
    BY <2>1, <2>3, StoreConstants DEF StoreForgets, StoreOK, InboxOK
  <2> QED  BY <1>1, <2>1, <2>4, SameRowsSameStore DEF StoreOK, StoreForgets
<1>9. ASSUME TimePasses
      PROVE  StoreOK' /\ Grown
  <2>1. InboxOK'
    BY <1>9 DEF StoreOK, InboxOK, TimePasses, storeVars
  <2> QED  BY <1>1, <1>9, <2>1, SameRowsSameStore DEF StoreOK, TimePasses, storeVars
<1> QED  BY <1>2, <1>3, <1>4, <1>5, <1>6, <1>7, <1>8, <1>9 DEF StoreStep
-----------------------------------------------------------------------------
(***************************************************************************)
(* What the pollers are about to write is an event, of now or before.      *)
(***************************************************************************)
AlertKinds == [raised : Nat, level : {f.level : f \in AlertForms}, text : {f.text : f \in AlertForms}]
AlertsOK ==
    /\ alert \in [Uuids -> AlertKinds \cup {None}]
    /\ \A u \in Uuids : alert[u] # None => alert[u] \in AlertKinds /\ alert[u].raised =< now
    /\ alertsPoll \in [todo : SUBSET Uuids, got : [Uuids -> AlertKinds \cup {None}],
                       current : [Uuids -> AlertKinds \cup {None}], on : BOOLEAN]
    /\ \A u \in alertsPoll.todo : alertsPoll.got[u] \in AlertKinds /\ alertsPoll.got[u].raised =< now

ScanKinds == [function : Functions, ended : Nat \cup {None}, errors : BOOLEAN, mine : BOOLEAN]
ScansOK ==
    /\ scan \in [Pools -> ScanKinds \cup {None}] /\ scanPoll \in [Pools -> ScanKinds \cup {None}]
    /\ \A p \in Pools :
          /\ scan[p] # None => scan[p] \in ScanKinds /\ (scan[p].ended # None => scan[p].ended =< now)
          /\ scanPoll[p] # None =>
                scanPoll[p] \in ScanKinds /\ scanPoll[p].ended # None /\ scanPoll[p].ended =< now

AuditOK ==
    /\ audit \in [AuditIds -> [at : Nat, entry : Entries] \cup {None}]
    /\ \A a \in AuditRows : audit[a] \in [at : Nat, entry : Entries] /\ audit[a].at =< now
    /\ auditSeen \subseteq AuditRows
    /\ auditPoll \in [todo : SUBSET AuditRows, rules : SUBSET RuleNames, at : AuditRows \cup {None},
                      ok : BOOLEAN, current : SUBSET AuditRows, on : BOOLEAN]
    /\ auditPoll.rules # {} => auditPoll.at \in AuditRows

LEMMA RulesAreNamed == \A entry : RulesOf(entry) \subseteq RuleNames
BY Zenon DEF RulesOf, SignInRules, MethodRules, RuleNames

LEMMA AlertEventIsEvent ==
    ASSUME now \in Nat, NEW a \in AlertKinds, a.raised =< now, NEW changed \in BOOLEAN
    PROVE  /\ AlertEvent(a, changed) \in Events /\ AlertEvent(a, changed).at =< now
           /\ AlertEvent(a, changed).key[1] # "job"
<1>1. <<"alert", a.level, a.text>> \in Keys
  BY DEF AlertKinds, Keys
<1>2. SeverityOf(a.level) \in Severities
  BY DEF SeverityOf, Severities
<1>3. a.raised \in Nat
  BY DEF AlertKinds
<1> QED  BY <1>1, <1>2, <1>3 DEF AlertEvent, Event, Events

LEMMA ScanEventIsEvent ==
    ASSUME NEW p \in Pools, NEW s \in ScanKinds, s.ended # None
    PROVE  ScanEvent(p, s) \in Events /\ ScanEvent(p, s).at = s.ended /\ ScanEvent(p, s).key[1] # "job"
<1>1. s.ended \in Nat
  BY DEF ScanKinds
<1>2. <<"rebuilt", p, s.ended>> \in Keys /\ <<"scrubbed", p, s.ended>> \in Keys
  BY <1>1 DEF Keys
<1> QED  BY <1>1, <1>2 DEF ScanEvent, ResilverEvent, ScrubEvent, Event, Events, Severities

LEMMA RuleEventIsEvent ==
    ASSUME NEW rule \in RuleNames, NEW at \in Nat
    PROVE  /\ RuleEvent(rule, at) \in Events /\ RuleEvent(rule, at).at = at /\ RuleEvent(rule, at).key = <<rule>>
           /\ RuleEvent(rule, at).key[1] # "job"
<1>1. <<rule>> \in Keys
  BY DEF Keys
<1> QED  BY <1>1 DEF RuleEvent, RuleNames, NewPublicIPLogin, PrivilegedLogin, ShareCreated, UserCreated,
                     PrivilegeGranted, Event, Events, Severities

LEMMA AuditDownIsEvent == now \in Nat => AuditDown \in Events /\ AuditDown.at = now /\ AuditDown.key[1] # "job"
<1>1. <<"audit-down">> \in Keys
  BY DEF Keys
<1> QED  BY <1>1 DEF AuditDown, Event, Events, Severities

LEMMA ReportIsEvent ==
    ASSUME now \in Nat, NEW ev \in Reports
    PROVE  /\ Event(ev.key, ev.severity, now) \in Events /\ Event(ev.key, ev.severity, now).at = now
           /\ Event(ev.key, ev.severity, now).key = ev.key
<1>1. ev.key \in Keys
  BY DEF Keys
<1> QED  BY <1>1, FeedConstants DEF Event, Events

LEMMA AlertsStay ==
    ASSUME AlertsOK, UNCHANGED <<alert, alertsPoll>>, now \in Nat, now' \in Nat, now =< now'
    PROVE  AlertsOK'
BY DEF AlertsOK, AlertKinds

LEMMA AlertsMove ==
    ASSUME StoreOK, AlertsOK,
           \/ \E u \in Uuids, form \in AlertForms : Raised(u, form.level, form.text)
           \/ \E u \in Uuids : Cleared(u)
           \/ AlertsStep
    PROVE  AlertsOK' /\ PollStep
<1> now \in Nat
  BY DEF StoreOK, TableOK
<1>1. ASSUME NEW u \in Uuids, NEW form \in AlertForms, Raised(u, form.level, form.text)
      PROVE  AlertsOK' /\ PollStep
  <2> DEFINE a == [raised |-> IF alert[u] = None THEN now ELSE alert[u].raised, level |-> form.level, text |-> form.text]
  <2>1. a \in AlertKinds /\ a.raised =< now
    <3>1. (IF alert[u] = None THEN now ELSE alert[u].raised) \in Nat /\ (IF alert[u] = None THEN now ELSE alert[u].raised) =< now
      BY DEF AlertsOK, AlertKinds
    <3>2. form.level \in {f.level : f \in AlertForms} /\ form.text \in {f.text : f \in AlertForms}
      OBVIOUS
    <3> QED  BY <3>1, <3>2 DEF AlertKinds
  <2>2. alert' = [alert EXCEPT ![u] = a] /\ UNCHANGED <<now, storeVars, alertsPoll>>
    BY <1>1 DEF Raised
  <2> HIDE DEF a
  <2>3. alert' \in [Uuids -> AlertKinds \cup {None}]
    BY <2>1, <2>2 DEF AlertsOK
  <2> QED  BY <2>1, <2>2, <2>3 DEF AlertsOK, PollStep, Quiet
<1>2. ASSUME NEW u \in Uuids, Cleared(u)
      PROVE  AlertsOK' /\ PollStep
  BY <1>2 DEF Cleared, AlertsOK, PollStep, Quiet
<1>3. ASSUME AlertsFetch
      PROVE  AlertsOK' /\ PollStep
  <2>1. alertsPoll'.got = alert /\ alertsPoll'.todo \in SUBSET {u \in Uuids : alert[u] # None}
    BY <1>3 DEF AlertsFetch
  <2>2. [u \in Uuids |-> IF PassedOver(u) THEN alert[u] ELSE None] \in [Uuids -> AlertKinds \cup {None}]
    BY DEF AlertsOK
  <2>3. alertsPoll' \in [todo : SUBSET Uuids, got : [Uuids -> AlertKinds \cup {None}],
                         current : [Uuids -> AlertKinds \cup {None}], on : BOOLEAN]
    BY <1>3, <2>2 DEF AlertsFetch, AlertsOK
  <2> QED  BY <1>3, <2>1, <2>3 DEF AlertsFetch, AlertsOK, PollStep, Quiet
<1>4. ASSUME AlertsEnd
      PROVE  AlertsOK' /\ PollStep
  BY <1>4 DEF AlertsEnd, NoAlerts, AlertsOK, PollStep, Quiet
<1>5. ASSUME NEW u \in Uuids, AlertIngested(u)
      PROVE  AlertsOK' /\ PollStep
  <2> DEFINE a == alertsPoll.got[u]  ev == AlertEvent(a, alertsSeen[u] # None)
  <2>1. u \in alertsPoll.todo /\ a \in AlertKinds /\ a.raised =< now
    BY <1>5 DEF AlertIngested, AlertsOK
  <2>2. ev \in Events /\ ev.at =< now /\ ev.key[1] # "job"
    BY <2>1, AlertEventIsEvent
  <2>3. PollStep
    BY <1>5, <2>2 DEF AlertIngested, PollStep, Posts
  <2>4. UNCHANGED <<now, alert>> /\ AlertDone(u, [alertsPoll.current EXCEPT ![u] = a])
    BY <1>5 DEF AlertIngested
  <2>5. [alertsPoll.current EXCEPT ![u] = a] \in [Uuids -> AlertKinds \cup {None}]
    BY <2>1 DEF AlertsOK
  <2> QED  BY <2>3, <2>4, <2>5 DEF AlertDone, AlertsOK
<1>6. ASSUME NEW u \in Uuids, AlertFailed(u)
      PROVE  AlertsOK' /\ PollStep
  BY <1>6 DEF AlertFailed, AfterAlertFailed, AlertDone, IngestFails, AlertsOK, PollStep, Quiet
<1> QED  BY <1>1, <1>2, <1>3, <1>4, <1>5, <1>6 DEF AlertsStep

LEMMA ScansStay ==
    ASSUME ScansOK, UNCHANGED <<scan, scanPoll>>, now \in Nat, now' \in Nat, now =< now'
    PROVE  ScansOK'
BY DEF ScansOK, ScanKinds

LEMMA ScansMove ==
    ASSUME StoreOK, ScansOK,
           \/ \E p \in Pools, function \in Functions, mine \in BOOLEAN : ScanStarts(p, function, mine)
           \/ \E p \in Pools, errors \in BOOLEAN : ScanEnds(p, errors)
           \/ ScansStep
    PROVE  ScansOK' /\ PollStep
<1> now \in Nat /\ None \notin Nat
  BY PollersConstants DEF StoreOK, TableOK
<1>1. ASSUME NEW p \in Pools, NEW function \in Functions, NEW mine \in BOOLEAN, ScanStarts(p, function, mine)
      PROVE  ScansOK' /\ PollStep
  <2> DEFINE s == [function |-> function, ended |-> None, errors |-> FALSE, mine |-> mine /\ function = "SCRUB"]
  <2>1. s \in ScanKinds /\ s.ended = None
    BY DEF ScanKinds
  <2>2. scan' = [scan EXCEPT ![p] = s] /\ UNCHANGED <<now, storeVars, scanPoll>>
    BY <1>1 DEF ScanStarts
  <2> HIDE DEF s
  <2> QED  BY <2>1, <2>2 DEF ScansOK, PollStep, Quiet
<1>2. ASSUME NEW p \in Pools, NEW errors \in BOOLEAN, ScanEnds(p, errors)
      PROVE  ScansOK' /\ PollStep
  <2> DEFINE s == [scan[p] EXCEPT !.ended = now, !.errors = errors]
  <2>1. scan[p] \in ScanKinds
    BY <1>2 DEF ScanEnds, ScansOK
  <2>2. s \in ScanKinds /\ s.ended = now
    BY <2>1 DEF ScanKinds
  <2>3. scan' = [scan EXCEPT ![p] = s] /\ UNCHANGED <<now, storeVars, scanPoll>>
    BY <1>2 DEF ScanEnds, ScansOK
  <2> HIDE DEF s
  <2> QED  BY <2>2, <2>3 DEF ScansOK, PollStep, Quiet
<1>3. ASSUME NEW p \in Pools, ScanSeen(p)
      PROVE  ScansOK' /\ PollStep
  BY <1>3 DEF ScanSeen, ScansOK, PollStep, Quiet
<1>4. ASSUME NEW p \in Pools, ScanFinished(p)
      PROVE  ScansOK' /\ PollStep
  BY <1>4 DEF ScanFinished, ScansOK, PollStep, Quiet
<1>5. ASSUME NEW p \in Pools, NEW jobsRead \in BOOLEAN, ScanRecorded(p, jobsRead)
      PROVE  ScansOK' /\ PollStep
  <2>1. /\ ScanEvent(p, scanPoll[p]) \in Events /\ ScanEvent(p, scanPoll[p]).at =< now
        /\ ScanEvent(p, scanPoll[p]).key[1] # "job"
    BY <1>5, ScanEventIsEvent DEF ScanRecorded, ScansOK
  <2>2. PollStep
    BY <1>5, <2>1 DEF ScanRecorded, PollStep, Quiet, Posts
  <2>3. ScansOK'
    BY <1>5 DEF ScanRecorded, ScansOK
  <2> QED  BY <2>2, <2>3
<1>6. ASSUME NEW p \in Pools, ScanFailed(p)
      PROVE  ScansOK' /\ PollStep
  BY <1>6 DEF ScanFailed, IngestFails, ScansOK, PollStep, Quiet
<1> QED  BY <1>1, <1>2, <1>3, <1>4, <1>5, <1>6 DEF ScansStep

LEMMA AuditStays ==
    ASSUME AuditOK, UNCHANGED <<audit, auditSeen, auditPoll>>, now \in Nat, now' \in Nat, now =< now'
    PROVE  AuditOK'
<1>1. AuditRows' = AuditRows
  BY DEF AuditRows
<1> QED  BY <1>1 DEF AuditOK

\* A rule that row a of the audit log matches is in the feed.
InFeed(a, rule) == \E i \in DOMAIN rows : rows[i].key = <<rule>> /\ audit[a].at =< rows[i].last

\* So are those of the row in hand that have been dealt with, none of which
\* failed.
AuditWhole ==
    /\ \A a \in auditSeen \cup auditPoll.current : \A rule \in RulesOf(audit[a].entry) : InFeed(a, rule)
    /\ (auditPoll.at # None /\ auditPoll.ok) =>
          \A rule \in RulesOf(audit[auditPoll.at].entry) \ auditPoll.rules : InFeed(auditPoll.at, rule)

LEMMA InFeedStays ==
    ASSUME StoreOK, StoreOK', Grown, NEW a, NEW rule, InFeed(a, rule), audit[a].at \in Nat, audit'[a] = audit[a]
    PROVE  InFeed(a, rule)'
<1>1. PICK i \in DOMAIN rows : rows[i].key = <<rule>> /\ audit[a].at =< rows[i].last
  BY DEF InFeed
<1>2. i \in DOMAIN rows' /\ rows'[i].key = rows[i].key /\ rows[i].last =< rows'[i].last
  BY DEF Grown
<1>3. rows[i].last \in Nat
  BY RowFields DEF StoreOK
<1>4. rows'[i].last \in Nat
  <2>1. rows'[i] \in Row
    BY <1>2 DEF StoreOK, TableOK
  <2> QED  BY <2>1 DEF Row
<1> QED  BY <1>1, <1>2, <1>3, <1>4 DEF InFeed

LEMMA AuditWholeStays ==
    ASSUME StoreOK, StoreOK', Grown, AuditOK, AuditWhole, UNCHANGED <<auditSeen, auditPoll>>,
           \A a \in AuditRows : audit'[a] = audit[a]
    PROVE  AuditWhole'
<1>1. \A a \in AuditRows : audit[a].at \in Nat
  BY DEF AuditOK
<1>2. auditSeen \cup auditPoll.current \subseteq AuditRows /\ (auditPoll.at # None => auditPoll.at \in AuditRows)
  BY DEF AuditOK
<1>3. ASSUME NEW a \in auditSeen \cup auditPoll.current, NEW rule \in RulesOf(audit'[a].entry)
      PROVE  InFeed(a, rule)'
  BY <1>1, <1>2, <1>3, InFeedStays DEF AuditWhole
<1>4. ASSUME auditPoll.at # None, auditPoll.ok, NEW rule \in RulesOf(audit'[auditPoll.at].entry) \ auditPoll.rules
      PROVE  InFeed(auditPoll.at, rule)'
  BY <1>1, <1>2, <1>4, InFeedStays DEF AuditWhole
<1>5. \A a, rule : InFeed(a, rule)' = (\E i \in DOMAIN rows' : rows'[i].key = <<rule>> /\ audit'[a].at =< rows'[i].last)
  BY DEF InFeed
<1> QED  BY <1>3, <1>4, <1>5 DEF AuditWhole

LEMMA AuditMoves ==
    ASSUME StoreOK, AuditOK, AuditWhole,
           (\E a \in AuditIds, entry \in Entries : Audited(a, entry)) \/ AuditStep
    PROVE  AuditOK' /\ PollStep /\ AuditWhole'
<1> now \in Nat /\ None \notin Nat
  BY PollersConstants DEF StoreOK, TableOK
<1>a. \A a \in AuditRows : audit[a].at \in Nat /\ audit[a].at =< now
  BY DEF AuditOK
<1>b. PollStep => StoreOK' /\ Grown
  BY StoreStepKeeps DEF PollStep, StoreStep
<1>1. ASSUME NEW a \in AuditIds, NEW entry \in Entries, Audited(a, entry)
      PROVE  AuditOK' /\ PollStep /\ AuditWhole'
  <2> DEFINE r == [at |-> now, entry |-> entry]
  <2>1. /\ audit[a] = None /\ audit' = [audit EXCEPT ![a] = r]
        /\ UNCHANGED <<now, storeVars, auditSeen, auditPoll>>
    BY <1>1 DEF Audited
  <2>2. r \in [at : Nat, entry : Entries] /\ r.at = now
    OBVIOUS
  <2> HIDE DEF r
  <2>3. audit' \in [AuditIds -> [at : Nat, entry : Entries] \cup {None}] /\ \A b \in AuditRows : audit'[b] = audit[b]
    BY <2>1, <2>2 DEF AuditOK, AuditRows
  <2>4. AuditRows \subseteq AuditRows' /\ \A b \in AuditRows' : b \in AuditRows \/ audit'[b] = r
    BY <2>1, <2>3 DEF AuditOK, AuditRows
  <2>5. AuditOK'
    BY <2>1, <2>2, <2>3, <2>4 DEF AuditOK
  <2>6. PollStep
    BY <2>1 DEF PollStep, Quiet
  <2> QED  BY <1>b, <2>1, <2>3, <2>5, <2>6, AuditWholeStays
<1>c. ASSUME audit' = audit
      PROVE  AuditRows' = AuditRows
  BY <1>c DEF AuditRows
<1>d. ASSUME audit' = audit, PollStep
      PROVE  \A a \in AuditRows : \A rule : InFeed(a, rule) => InFeed(a, rule)'
  BY <1>a, <1>b, <1>d, InFeedStays
<1>2. ASSUME AuditFetch
      PROVE  AuditOK' /\ PollStep /\ AuditWhole'
  <2>1. /\ auditPoll' = [todo |-> AuditRows \ auditSeen, rules |-> {}, at |-> None, ok |-> TRUE,
                         current |-> AuditRows \cap auditSeen, on |-> TRUE]
        /\ UNCHANGED <<now, storeVars, audit, auditSeen>>
    BY <1>2 DEF AuditFetch, NoAudit
  <2>2. PollStep
    BY <2>1 DEF PollStep, Quiet
  <2>3. AuditOK'
    BY <1>c, <2>1 DEF AuditOK
  <2>4. AuditWhole'
    <3>1. \A a \in auditSeen : \A rule \in RulesOf(audit[a].entry) : InFeed(a, rule)'
      BY <1>d, <2>1, <2>2 DEF AuditWhole, AuditOK
    <3>2. auditPoll'.at = None /\ auditPoll'.current \subseteq auditSeen
      BY <2>1
    <3> QED  BY <2>1, <3>1, <3>2 DEF AuditWhole, InFeed
  <2> QED  BY <2>2, <2>3, <2>4
<1>3. ASSUME UNCHANGED <<now, storeVars, audit, auditSeen, auditPoll>>
      PROVE  AuditOK' /\ PollStep /\ AuditWhole'
  <2>1. PollStep
    BY <1>3 DEF PollStep, Quiet
  <2> QED  BY <1>b, <1>3, <2>1, AuditStays, AuditWholeStays
<1>4. ASSUME NEW stored \in BOOLEAN, AuditFails(stored)
      PROVE  AuditOK' /\ PollStep /\ AuditWhole'
  <2>1. PollStep
    BY <1>4, AuditDownIsEvent DEF AuditFails, PollStep, Quiet, Posts
  <2>2. UNCHANGED <<now, audit, auditSeen, auditPoll>>
    BY <1>4 DEF AuditFails
  <2> QED  BY <1>b, <2>1, <2>2, AuditStays, AuditWholeStays
<1>5. ASSUME NEW a \in AuditIds, AuditNext(a)
      PROVE  AuditOK' /\ PollStep /\ AuditWhole'
  <2>1. /\ a \in AuditRows /\ auditPoll' = [auditPoll EXCEPT !.at = a, !.rules = RulesOf(audit[a].entry), !.ok = TRUE]
        /\ UNCHANGED <<now, storeVars, audit, auditSeen>>
    BY <1>5 DEF AuditNext, AuditOK
  <2>2. RulesOf(audit[a].entry) \subseteq RuleNames
    BY RulesAreNamed
  <2>3. PollStep
    BY <2>1 DEF PollStep, Quiet
  <2>4. AuditOK'
    BY <1>c, <2>1, <2>2 DEF AuditOK
  <2>5. AuditWhole'
    <3>1. \A b \in auditSeen \cup auditPoll.current : \A rule \in RulesOf(audit[b].entry) : InFeed(b, rule)'
      BY <1>d, <2>1, <2>3 DEF AuditWhole, AuditOK
    <3>2. auditPoll'.at = a /\ auditPoll'.rules = RulesOf(audit[a].entry) /\ auditPoll'.current = auditPoll.current
      BY <2>1 DEF AuditOK
    <3> QED  BY <2>1, <3>1, <3>2 DEF AuditWhole, InFeed
  <2> QED  BY <2>3, <2>4, <2>5
<1>6. ASSUME NEW rule \in auditPoll.rules, NEW stored \in BOOLEAN, AuditRule(rule, stored)
      PROVE  AuditOK' /\ PollStep /\ AuditWhole'
  <2> DEFINE a == auditPoll.at
  <2>1. /\ a \in AuditRows /\ rule \in RuleNames
        /\ auditPoll' = [auditPoll EXCEPT !.rules = @ \ {rule}, !.ok = @ /\ stored]
        /\ UNCHANGED <<now, audit, auditSeen>>
    BY <1>6 DEF AuditRule, AuditOK
  <2> DEFINE ev == RuleEvent(rule, audit[a].at)
  <2>2. ev \in Events /\ ev.at = audit[a].at /\ ev.key = <<rule>> /\ ev.key[1] # "job"
    BY <1>a, <2>1, RuleEventIsEvent
  <2>3. stored => Ingest(ev)
    BY <1>6 DEF AuditRule
  <2>4. ~stored => UNCHANGED storeVars
    BY <1>6 DEF AuditRule, IngestFails
  <2> HIDE DEF ev
  <2>5. PollStep
    BY <1>a, <2>1, <2>2, <2>3, <2>4 DEF PollStep, Quiet, Posts
  <2>6. AuditOK'
    BY <1>c, <2>1 DEF AuditOK
  <2>7. ASSUME stored
        PROVE  InFeed(a, rule)'
    <3>1. /\ DOMAIN rows' = DOMAIN rows \cup {StoredAs(ev)} /\ rows'[StoredAs(ev)].key = ev.key
          /\ ev.at =< rows'[StoredAs(ev)].last
      BY <1>a, <2>1, <2>2, <2>3, <2>7, IngestTable DEF StoreOK
    <3> QED  BY <2>1, <2>2, <3>1 DEF InFeed
  <2>8. AuditWhole'
    <3>1. \A b \in auditSeen \cup auditPoll.current : \A r \in RulesOf(audit[b].entry) : InFeed(b, r)'
      BY <1>d, <2>1, <2>5 DEF AuditWhole, AuditOK
    <3>2. auditPoll'.at = a /\ auditPoll'.rules = auditPoll.rules \ {rule} /\ auditPoll'.current = auditPoll.current
          /\ auditPoll'.ok = (auditPoll.ok /\ stored)
      BY <2>1 DEF AuditOK
    <3>3. ASSUME a # None, auditPoll.ok, stored, NEW r \in RulesOf(audit[a].entry) \ (auditPoll.rules \ {rule})
          PROVE  InFeed(a, r)'
      BY <1>d, <2>1, <2>5, <2>7, <3>3 DEF AuditWhole
    <3> QED  BY <2>1, <3>1, <3>2, <3>3 DEF AuditWhole, InFeed
  <2> QED  BY <2>5, <2>6, <2>8
<1>7. ASSUME AuditRowDone
      PROVE  AuditOK' /\ PollStep /\ AuditWhole'
  <2>0. PICK a : a = auditPoll.at
    OBVIOUS
  <2>1. /\ a \in AuditRows /\ a # None /\ auditPoll.rules = {}
        /\ auditPoll' = [auditPoll EXCEPT !.at = None, !.todo = @ \ {a},
                                          !.current = IF auditPoll.ok THEN @ \cup {a} ELSE @]
        /\ UNCHANGED <<now, storeVars, audit, auditSeen>>
    BY <1>7, <2>0 DEF AuditRowDone, RowSeen, AuditOK
  <2>2. PollStep
    BY <2>1 DEF PollStep, Quiet
  <2>3. AuditOK'
    BY <1>c, <2>1 DEF AuditOK
  <2>4. AuditWhole'
    <3>1. \A b \in auditSeen \cup auditPoll.current : \A r \in RulesOf(audit[b].entry) : InFeed(b, r)'
      BY <1>d, <2>1, <2>2 DEF AuditWhole, AuditOK
    <3>2. ASSUME auditPoll.ok, NEW r \in RulesOf(audit[a].entry)
          PROVE  InFeed(a, r)'
      <4>1. r \in RulesOf(audit[a].entry) \ auditPoll.rules
        BY <2>1, <3>2
      <4>2. InFeed(a, r)
        BY <2>0, <2>1, <3>2, <4>1 DEF AuditWhole
      <4> QED  BY <1>d, <2>1, <2>2, <4>2
    <3>3. /\ auditPoll'.at = None
          /\ auditPoll'.current = (IF auditPoll.ok THEN auditPoll.current \cup {a} ELSE auditPoll.current)
      BY <2>1 DEF AuditOK
    <3>4. \A b \in auditSeen' \cup auditPoll'.current : \A r \in RulesOf(audit'[b].entry) : InFeed(b, r)'
      BY <2>1, <3>1, <3>2, <3>3
    <3> QED  BY <3>3, <3>4 DEF AuditWhole, InFeed
  <2> QED  BY <2>2, <2>3, <2>4
<1>8. ASSUME AuditEnd
      PROVE  AuditOK' /\ PollStep /\ AuditWhole'
  <2>1. auditSeen' = auditPoll.current /\ auditPoll' = NoAudit /\ UNCHANGED <<now, storeVars, audit>>
    BY <1>8 DEF AuditEnd
  <2>2. PollStep
    BY <2>1 DEF PollStep, Quiet
  <2>3. AuditOK'
    BY <1>c, <2>1 DEF AuditOK, NoAudit
  <2>4. AuditWhole'
    <3>1. \A b \in auditPoll.current : \A r \in RulesOf(audit[b].entry) : InFeed(b, r)'
      BY <1>d, <2>1, <2>2 DEF AuditWhole, AuditOK
    <3> QED  BY <2>1, <3>1 DEF AuditWhole, InFeed, NoAudit
  <2> QED  BY <2>2, <2>3, <2>4
<1>9. AuditUnavailable => UNCHANGED <<now, storeVars, audit, auditSeen, auditPoll>>
  BY DEF AuditUnavailable
<1> QED  BY <1>1, <1>2, <1>3, <1>4, <1>5, <1>6, <1>7, <1>8, <1>9 DEF AuditStep
-----------------------------------------------------------------------------
(***************************************************************************)
(* The correlators.                                                        *)
(***************************************************************************)
CorrelatorsOK ==
    /\ correlator \in [CorrelatorNames ->
          [step : {"idle", "parent", "link"}, child : Nat, children : SUBSET Nat, parent : Nat]]
    /\ \A c \in CorrelatorNames :
          /\ correlator[c].step = "idle" => correlator[c] = Idle
          /\ correlator[c].step # "idle" =>
                /\ correlator[c].child \in DOMAIN rows /\ Concerns(c, rows[correlator[c].child])
                /\ correlator[c].children \subseteq DOMAIN rows
          /\ correlator[c].step = "link" => correlator[c].parent \in DOMAIN rows

LEMMA SubscribersAre == CorrelatorNames \subseteq Subscribers /\ "push" \in Subscribers
BY FeedConstants

LEMMA ConcernIsOfTheKey ==
    ASSUME NEW c \in CorrelatorNames, NEW r, NEW q, q.key = r.key
    PROVE  Concerns(c, q) <=> Concerns(c, r)
BY DEF CorrelatorNames, Concerns, OfDisk, OfScrub, OfSnapshot

\* Jobs are only ever reported.
LEMMA JobsAreReports == \A k \in Keys : k[1] = "job" => \E ev \in Reports : k = ev.key
BY DEF Keys, RuleNames

LEMMA ParentIsEvent ==
    ASSUME TableOK, NEW c \in CorrelatorNames, NEW i \in DOMAIN rows, Concerns(c, rows[i])
    PROVE  /\ ParentFor(c, rows[i]) \in Events /\ ParentFor(c, rows[i]).at = rows[i].at
           /\ ParentFor(c, rows[i]).key[1] # "job"
<1> DEFINE r == rows[i]
<1>1. r.key \in Keys /\ r.at \in Nat /\ r.severity \in Severities
  BY RowFields
<1> HIDE DEF r
<1>2. CASE c = "disk"
  <2>1. ParentFor(c, r) = DiskParent(r) /\ r.key[3] \in Phases
    BY <1>2 DEF ParentFor, Concerns, OfDisk, r
  <2>2. DiskKey(r.key[3]) \in Keys /\ DiskKey(r.key[3])[1] # "job"
    BY <2>1 DEF DiskKey, Keys
  <2>3. DiskSeverity(r.key[3], r.severity) \in Severities
    BY <1>1 DEF DiskSeverity, Severities
  <2> QED  BY <1>1, <2>1, <2>2, <2>3 DEF DiskParent, Event, Events, r
<1>3. CASE c = "scrub"
  <2>1. ParentFor(c, r) = ScrubParent(r) /\ r.key[1] = "job"
    BY <1>3 DEF ParentFor, Concerns, OfScrub, r
  <2>2. <<"scrub", r.key[3]>> \in Keys
    <3>1. PICK ev \in Reports : r.key = ev.key
      BY <1>1, <2>1, JobsAreReports
    <3> QED  BY <3>1 DEF Keys
  <2>3. ScrubSeverity(r.key[3]) \in Severities
    BY DEF ScrubSeverity, Severities
  <2> QED  BY <1>1, <2>1, <2>2, <2>3 DEF ScrubParent, Event, Events, r
<1>4. CASE c = "rollup"
  <2>1. ParentFor(c, r) = RollupParent(r)
    BY <1>4 DEF ParentFor
  <2>2. <<"rollup", r.at \div Lookback>> \in Keys
    BY <1>1 DEF Keys
  <2> QED  BY <1>1, <2>1, <2>2 DEF RollupParent, Event, Events, Severities, r
<1> QED  BY <1>2, <1>3, <1>4 DEF CorrelatorNames

LEMMA CorrelatorsStay ==
    ASSUME StoreOK, CorrelatorsOK, Grown, UNCHANGED correlator
    PROVE  CorrelatorsOK'
<1>1. ASSUME NEW c \in CorrelatorNames, correlator[c].step # "idle"
      PROVE  Concerns(c, rows'[correlator[c].child])
  <2>1. correlator[c].child \in DOMAIN rows /\ Concerns(c, rows[correlator[c].child])
    BY <1>1 DEF CorrelatorsOK
  <2>2. rows'[correlator[c].child].key = rows[correlator[c].child].key
    BY <2>1 DEF Grown
  <2> QED  BY <2>1, <2>2, ConcernIsOfTheKey
<1> QED  BY <1>1 DEF CorrelatorsOK, Grown

\* One row marked, in a field that says nothing of what it is about.
LEMMA RowMarked ==
    ASSUME NEW r \in Row
    PROVE  /\ [r EXCEPT !.acked = TRUE] \in Row /\ [r EXCEPT !.gone = TRUE] \in Row
           /\ \A p \in Nat : [r EXCEPT !.parent = p] \in Row
BY DEF Row

LEMMA LinksMark ==
    ASSUME StoreOK, NEW child \in DOMAIN rows, NEW parent \in DOMAIN rows, rows' = Link(child, parent),
           UNCHANGED <<now, subs, inbox, missed>>
    PROVE  Marks
<1>1. rows \in Seq(Row) /\ parent \in Nat /\ parent # NoRow
  BY RowFields DEF StoreOK, TableOK
<1>2. CASE child \in Kept
  <2> DEFINE r == [rows[child] EXCEPT !.parent = parent]
  <2>1. rows[child] \in Row
    BY <1>1
  <2>2. r \in Row
    BY <1>1, <2>1, RowMarked
  <2>3. /\ r.key = rows[child].key /\ r.at = rows[child].at /\ r.last = rows[child].last
        /\ r.body = rows[child].body /\ r.severity = rows[child].severity /\ r.gone = rows[child].gone
        /\ r.parent = parent
    BY <2>1 DEF Row
  <2>4. rows' = [rows EXCEPT ![child] = r]
    BY <1>1, <1>2 DEF Link
  <2> HIDE DEF r
  <2> QED  BY <1>1, <2>2, <2>3, <2>4 DEF Marks
<1>3. CASE child \notin Kept
  BY <1>1, <1>3 DEF Link, Marks
<1> QED  BY <1>2, <1>3

LEMMA ChildrenAreRows ==
    ASSUME NEW c, NEW child \in DOMAIN rows, NEW children \in ChildrenOf(c, child)
    PROVE  children \subseteq DOMAIN rows
BY DEF ChildrenOf, Listings, JobsSince, Matches, Kept

LEMMA CorrelatorsMove ==
    ASSUME StoreOK, CorrelatorsOK, NEW c \in CorrelatorNames, CorrelatorStep(c)
    PROVE  CorrelatorsOK' /\ StoreStep
<1>0. c \in Subscribers /\ DOMAIN rows \subseteq Nat /\ rows \in Seq(Row)
  BY SubscribersAre DEF StoreOK, TableOK
<1>a. ASSUME UNCHANGED rows, NEW q,
             q \in [step : {"idle", "parent", "link"}, child : Nat, children : SUBSET Nat, parent : Nat],
             correlator' = [correlator EXCEPT ![c] = q],
             q.step = "idle" => q = Idle,
             q.step # "idle" => q.child \in DOMAIN rows /\ Concerns(c, rows[q.child]) /\ q.children \subseteq DOMAIN rows,
             q.step = "link" => q.parent \in DOMAIN rows
      PROVE  CorrelatorsOK'
  BY <1>a DEF CorrelatorsOK
<1>b. Idle \in [step : {"idle", "parent", "link"}, child : Nat, children : SUBSET Nat, parent : Nat] /\ Idle.step = "idle"
  BY DEF Idle, NoRow
<1>1. ASSUME Handle(c)
      PROVE  CorrelatorsOK' /\ StoreStep
  <2> DEFINE child == Received(c)
             Q(children) == IF Concerns(c, rows[child]) /\ Enough(c, children)
                  THEN [step |-> "parent", child |-> child, children |-> children, parent |-> NoRow] ELSE Idle
  <2>0. Receives(c) /\ UNCHANGED <<now, rows, subs, missed>>
    BY <1>1 DEF Handle
  <2>1. PICK children \in ChildrenOf(c, child) : correlator' = [correlator EXCEPT ![c] = Q(children)]
    BY <1>1 DEF Handle
  <2>2. child \in DOMAIN rows
    BY <1>0, <2>0 DEF Receives, Received, StoreOK, InboxOK
  <2>3. children \subseteq DOMAIN rows
    BY <2>2, ChildrenAreRows
  <2>4. StoreStep
    BY <1>0, <2>0 DEF StoreStep, Reads
  <2> DEFINE q == Q(children)
  <2> HIDE DEF child
  <2>5. /\ q \in [step : {"idle", "parent", "link"}, child : Nat, children : SUBSET Nat, parent : Nat]
        /\ q.step = "idle" => q = Idle
        /\ q.step # "idle" => q.child \in DOMAIN rows /\ Concerns(c, rows[q.child]) /\ q.children \subseteq DOMAIN rows
        /\ q.step # "link"
    BY <1>0, <1>b, <2>2, <2>3 DEF NoRow
  <2>6. correlator' = [correlator EXCEPT ![c] = q]
    BY <2>1
  <2> HIDE DEF q
  <2> QED  BY <1>a, <2>0, <2>4, <2>5, <2>6
<1>2. ASSUME ParentIngested(c)
      PROVE  CorrelatorsOK' /\ StoreStep
  <2> DEFINE k == correlator[c]  ev == ParentFor(c, rows[k.child])
  <2>1. /\ k.step = "parent" /\ Ingest(ev) /\ UNCHANGED now
        /\ correlator' = [correlator EXCEPT ![c].step = "link", ![c].parent = StoredAs(ev)]
    BY <1>2 DEF ParentIngested
  <2>2. k.child \in DOMAIN rows /\ Concerns(c, rows[k.child]) /\ k.children \subseteq DOMAIN rows
    BY <2>1 DEF CorrelatorsOK
  <2>3. ev \in Events /\ ev.at =< now /\ ev.key[1] # "job"
    BY <2>2, ParentIsEvent DEF StoreOK, TableOK
  <2>4. StoreStep
    BY <2>1, <2>3 DEF StoreStep, Posts
  <2>5. Grown /\ StoredAs(ev) \in DOMAIN rows' /\ StoredAs(ev) \in Nat
    BY <2>1, <2>3, IngestTable DEF StoreOK
  <2> HIDE DEF ev
  <2>6. /\ correlator'[c] = [k EXCEPT !.step = "link", !.parent = StoredAs(ev)]
        /\ \A d \in CorrelatorNames \ {c} : correlator'[d] = correlator[d]
    BY <2>1 DEF CorrelatorsOK
  <2>7. /\ correlator'[c].step = "link" /\ correlator'[c].parent = StoredAs(ev) /\ correlator'[c].child = k.child
        /\ correlator'[c].children = k.children
        /\ correlator'[c] \in [step : {"idle", "parent", "link"}, child : Nat, children : SUBSET Nat, parent : Nat]
    BY <2>5, <2>6 DEF CorrelatorsOK
  <2>8. ASSUME NEW d \in CorrelatorNames, NEW i \in DOMAIN rows, Concerns(d, rows[i])
        PROVE  Concerns(d, rows'[i]) /\ i \in DOMAIN rows'
    BY <2>5, <2>8, ConcernIsOfTheKey DEF Grown
  <2>9. correlator' \in [CorrelatorNames ->
            [step : {"idle", "parent", "link"}, child : Nat, children : SUBSET Nat, parent : Nat]]
    BY <2>1, <2>6, <2>7 DEF CorrelatorsOK
  <2>10. DOMAIN rows \subseteq DOMAIN rows'
    BY <2>5 DEF Grown
  <2>11. ASSUME NEW d \in CorrelatorNames
         PROVE  /\ correlator'[d].step = "idle" => correlator'[d] = Idle
                /\ correlator'[d].step # "idle" =>
                      /\ correlator'[d].child \in DOMAIN rows' /\ Concerns(d, rows'[correlator'[d].child])
                      /\ correlator'[d].children \subseteq DOMAIN rows'
                /\ correlator'[d].step = "link" => correlator'[d].parent \in DOMAIN rows'
    <3>1. CASE d = c
      BY <2>2, <2>5, <2>7, <2>8, <2>10, <3>1
    <3>2. CASE d # c
      BY <2>6, <2>8, <2>10, <3>2 DEF CorrelatorsOK
    <3> QED  BY <3>1, <3>2
  <2> QED  BY <2>4, <2>9, <2>11 DEF CorrelatorsOK
<1>3. ASSUME ParentFails(c)
      PROVE  CorrelatorsOK' /\ StoreStep
  <2>1. /\ Loses(c, {correlator[c].child}) /\ correlator' = [correlator EXCEPT ![c] = Idle]
        /\ UNCHANGED <<now, rows, subs, inbox>>
    BY <1>3 DEF ParentFails
  <2>2. {correlator[c].child} \in SUBSET Nat
    BY DEF CorrelatorsOK
  <2>3. StoreStep
    BY <1>0, <2>1, <2>2 DEF StoreStep, Drops
  <2> QED  BY <1>a, <1>b, <2>1, <2>3
<1>4. ASSUME LinksDone(c)
      PROVE  CorrelatorsOK' /\ StoreStep
  <2>1. correlator' = [correlator EXCEPT ![c] = Idle] /\ UNCHANGED <<now, storeVars>>
    BY <1>4 DEF LinksDone
  <2> QED  BY <1>a, <1>b, <2>1 DEF StoreStep, Quiet, storeVars
<1>5. ASSUME NEW child \in correlator[c].children, LinkChild(c, child)
      PROVE  CorrelatorsOK' /\ StoreStep
  <2> DEFINE k == correlator[c]
  <2>1. /\ k.step = "link" /\ rows' = IF Unlinked(c, child) THEN Link(child, k.parent) ELSE rows
        /\ correlator' = [correlator EXCEPT ![c].children = @ \ {child}]
        /\ UNCHANGED <<now, subs, inbox, missed>>
    BY <1>5 DEF LinkChild
  <2>2. child \in DOMAIN rows /\ k.parent \in DOMAIN rows
    BY <1>5, <2>1 DEF CorrelatorsOK
  <2>3. StoreStep
    <3>1. CASE Unlinked(c, child)
      BY <2>1, <2>2, <3>1, LinksMark DEF StoreStep
    <3>2. CASE ~Unlinked(c, child)
      BY <2>1, <3>2 DEF StoreStep, Quiet, storeVars
    <3> QED  BY <3>1, <3>2
  <2>4. Grown
    BY <2>3, StoreStepKeeps
  <2>5. ASSUME NEW d \in CorrelatorNames, NEW i \in DOMAIN rows, Concerns(d, rows[i])
        PROVE  Concerns(d, rows'[i]) /\ i \in DOMAIN rows'
    BY <2>4, <2>5, ConcernIsOfTheKey DEF Grown
  <2>6. DOMAIN rows \subseteq DOMAIN rows'
    BY <2>4 DEF Grown
  <2>7. /\ correlator'[c] = [k EXCEPT !.children = @ \ {child}]
        /\ \A d \in CorrelatorNames \ {c} : correlator'[d] = correlator[d]
    BY <2>1 DEF CorrelatorsOK
  <2>8. /\ correlator'[c].step = "link" /\ correlator'[c].parent = k.parent /\ correlator'[c].child = k.child
        /\ correlator'[c].children \subseteq k.children
        /\ correlator'[c] \in [step : {"idle", "parent", "link"}, child : Nat, children : SUBSET Nat, parent : Nat]
    BY <2>1, <2>7 DEF CorrelatorsOK
  <2>9. correlator' \in [CorrelatorNames ->
            [step : {"idle", "parent", "link"}, child : Nat, children : SUBSET Nat, parent : Nat]]
    BY <2>1, <2>7, <2>8 DEF CorrelatorsOK
  <2>10. k.child \in DOMAIN rows /\ Concerns(c, rows[k.child]) /\ k.children \subseteq DOMAIN rows
    BY <2>1 DEF CorrelatorsOK
  <2>11. ASSUME NEW d \in CorrelatorNames
         PROVE  /\ correlator'[d].step = "idle" => correlator'[d] = Idle
                /\ correlator'[d].step # "idle" =>
                      /\ correlator'[d].child \in DOMAIN rows' /\ Concerns(d, rows'[correlator'[d].child])
                      /\ correlator'[d].children \subseteq DOMAIN rows'
                /\ correlator'[d].step = "link" => correlator'[d].parent \in DOMAIN rows'
    <3>1. CASE d = c
      BY <2>2, <2>5, <2>6, <2>8, <2>10, <3>1
    <3>2. CASE d # c
      BY <2>5, <2>6, <2>7, <3>2 DEF CorrelatorsOK
    <3> QED  BY <3>1, <3>2
  <2> QED  BY <2>3, <2>9, <2>11 DEF CorrelatorsOK
<1>6. ASSUME NEW child \in correlator[c].children, LinkFails(c, child)
      PROVE  CorrelatorsOK' /\ StoreStep
  <2> DEFINE q == [correlator[c] EXCEPT !.children = @ \ {child}]
  <2>1. correlator[c].step = "link" /\ correlator' = [correlator EXCEPT ![c] = q] /\ UNCHANGED <<now, storeVars>>
    BY <1>6 DEF LinkFails, CorrelatorsOK
  <2>2. /\ q \in [step : {"idle", "parent", "link"}, child : Nat, children : SUBSET Nat, parent : Nat]
        /\ q.step = "link" /\ q.parent \in DOMAIN rows /\ q.children \subseteq DOMAIN rows
        /\ q.child \in DOMAIN rows /\ Concerns(c, rows[q.child])
    BY <2>1 DEF CorrelatorsOK
  <2> HIDE DEF q
  <2> QED  BY <1>a, <2>1, <2>2 DEF StoreStep, Quiet, storeVars
<1>7. ASSUME c = "rollup", ListFails
      PROVE  CorrelatorsOK' /\ StoreStep
  <2> DEFINE run == Received("rollup")
  <2>1. Receives("rollup") /\ Loses("rollup", {run}) /\ UNCHANGED <<now, rows, subs, correlator>>
    BY <1>7 DEF ListFails
  <2>2. run \in Nat
    BY <1>0, <1>7, <2>1 DEF Receives, Received, StoreOK, InboxOK
  <2>3. {run} \in SUBSET Nat
    BY <2>2
  <2> HIDE DEF run
  <2>4. StoreStep
    BY <1>0, <1>7, <2>1, <2>3 DEF StoreStep, Reads
  <2> QED  BY <2>1, <2>4 DEF CorrelatorsOK
<1> QED  BY <1>1, <1>2, <1>3, <1>4, <1>5, <1>6, <1>7 DEF CorrelatorStep
-----------------------------------------------------------------------------
(***************************************************************************)
(* The notifier.                                                           *)
(***************************************************************************)
CourierType == [step : {"resting", "sending", "sent"}, id : Nat, tries : 0..1]
NotifierOK == NotifierType /\ courier \in CourierType

\* What the courier holds, and that a retry or a push sent keeps its kind.
LEMMA CourierIs ==
    ASSUME NEW k \in CourierType
    PROVE  /\ k.step \in {"resting", "sending", "sent"} /\ k.id \in Nat /\ k.tries \in 0..1
           /\ [k EXCEPT !.tries = 1] \in CourierType /\ [k EXCEPT !.tries = 1].id = k.id
           /\ [k EXCEPT !.step = "sent"] \in CourierType /\ [k EXCEPT !.step = "sent"].id = k.id
<1>1. k.step \in {"resting", "sending", "sent"} /\ k.id \in Nat /\ k.tries \in 0..1
  BY DEF CourierType
<1>2. [k EXCEPT !.tries = 1] \in CourierType /\ [k EXCEPT !.tries = 1].id = k.id
  BY DEF CourierType
<1>3. [k EXCEPT !.step = "sent"] \in CourierType /\ [k EXCEPT !.step = "sent"].id = k.id
  BY DEF CourierType
<1> QED
  BY <1>1, <1>2, <1>3

\* A step of the notifier keeps its shape and is a step of the store.
LEMMA NotifierMoves ==
    ASSUME StoreOK, NotifierOK, NotifierStep
    PROVE  NotifierOK' /\ StoreStep
<1> USE DEF NotifierOK, NotifierType
<1> Ids \subseteq Nat /\ now \in Nat /\ "push" \in Subscribers /\ QueueDepth \in Nat
  BY SubscribersAre, NotifierConstants DEF Ids, StoreOK, TableOK
<1>a. Resting \in CourierType /\ Resting.step = "resting"
  BY DEF Resting, NoRow, CourierType
<1>b. \A k \in CourierType : /\ k.step \in {"resting", "sending", "sent"} /\ k.id \in Nat /\ k.tries \in 0..1
                             /\ [k EXCEPT !.tries = 1] \in CourierType /\ [k EXCEPT !.tries = 1].id = k.id
                             /\ [k EXCEPT !.step = "sent"] \in CourierType /\ [k EXCEPT !.step = "sent"].id = k.id
  BY CourierIs
<1>c. \A i \in Ids : LET k == [step |-> "sending", id |-> i, tries |-> 0] IN k \in CourierType /\ k.id = i
  BY DEF CourierType
<1>1. ASSUME NEW logRead \in BOOLEAN, NotifierStarts(logRead)
      PROVE  NotifierOK' /\ StoreStep
  <2>1. StoreStep
    BY <1>1 DEF NotifierStarts, Subscribe, StoreStep, Joins
  <2>2. Rehydrated \in [Ids -> Nat \cup {Never}]
    BY DEF Rehydrated
  <2> QED  BY <1>1, <2>1, <2>2 DEF NotifierStarts
<1>2. ASSUME NotifierReceives
      PROVE  NotifierOK' /\ StoreStep
  <2> DEFINE id == Received("push")
  <2>1. id \in Ids
    BY <1>2 DEF NotifierReceives, Receives, Received, StoreOK, InboxOK
  <2>2. StoreStep
    <3>1. UNCHANGED missed \/ \E ids \in SUBSET Nat : Loses("push", ids)
      BY <1>2, <2>1 DEF NotifierReceives
    <3> QED  BY <1>2, <3>1 DEF NotifierReceives, StoreStep, Reads
  <2>3. \/ UNCHANGED queue
        \/ Len(queue) < QueueDepth /\ queue' = Append(queue, id)
    BY <1>2 DEF NotifierReceives
  <2>4. UNCHANGED <<lastPushed, courier, pushLog, told, doubted>>
    BY <1>2 DEF NotifierReceives
  <2> HIDE DEF id
  <2>5. queue' \in Seq(Ids) /\ Len(queue') =< QueueDepth
    BY <2>1, <2>3
  <2> QED  BY <2>2, <2>4, <2>5
<1>3. ASSUME PruneDedupe
      PROVE  NotifierOK' /\ StoreStep
  BY <1>3 DEF PruneDedupe, StoreStep, Quiet
<1>4. ASSUME NEW send \in BOOLEAN, Takes(send)
      PROVE  NotifierOK' /\ StoreStep
  <2>1. queue # <<>> /\ queue' = Tail(queue) /\ UNCHANGED <<now, storeVars, pushLog, told, doubted>>
    BY <1>4 DEF Takes
  <2>2. Head(queue) \in Ids /\ Tail(queue) \in Seq(Ids) /\ Len(Tail(queue)) =< QueueDepth
    BY <2>1
  <2>3. lastPushed' \in [Ids -> Nat \cup {Never}]
    BY <1>4, <2>2 DEF Takes
  <2>4. courier' \in CourierType /\ (courier'.step = "resting" \/ courier'.id \in Ids)
    <3>1. courier' = courier \/ courier' = [step |-> "sending", id |-> Head(queue), tries |-> 0]
      BY <1>4, Zenon DEF Takes
    <3> QED  BY <1>c, <2>2, <3>1
  <2> QED  BY <1>b, <2>1, <2>2, <2>3, <2>4 DEF StoreStep, Quiet
<1>5. ASSUME Delivered
      PROVE  NotifierOK' /\ StoreStep
  <2>1. courier' = [courier EXCEPT !.step = "sent"] /\ courier.id \in Ids
    BY <1>5 DEF Delivered
  <2>2. courier' \in CourierType /\ courier'.id \in Ids
    BY <1>b, <2>1
  <2> QED  BY <1>5, <1>b, <2>2 DEF Delivered, Reaches, StoreStep, Quiet
<1>6. ASSUME NEW why \in {"refused", "down", "answer lost"}, SendFails(why)
      PROVE  NotifierOK' /\ StoreStep
  <2>1. courier.id \in Ids /\ courier.step = "sending"
    BY <1>6 DEF SendFails
  <2>2. courier' \in CourierType /\ (courier'.step = "resting" \/ courier'.id \in Ids)
    <3>1. courier' = Resting \/ courier' = [courier EXCEPT !.tries = 1]
      BY <1>6 DEF SendFails, GivesUp
    <3> QED  BY <1>a, <1>b, <2>1, <3>1
  <2>3. lastPushed' \in [Ids -> Nat \cup {Never}]
    BY <1>6, <2>1 DEF SendFails, GivesUp, AfterGivingUp
  <2>4. told' \in [Ids -> Nat \cup {Never}] /\ doubted' \subseteq Ids
    BY <1>6, <2>1 DEF SendFails, Reaches
  <2>5. StoreStep
    <3>1. UNCHANGED missed \/ Loses("push", {courier.id})
      BY <1>6 DEF SendFails, GivesUp
    <3>2. {courier.id} \in SUBSET Nat
      BY <2>1
    <3> QED  BY <1>6, <3>1, <3>2 DEF SendFails, StoreStep, Drops, Quiet, storeVars
  <2>6. UNCHANGED <<queue, pushLog>>
    BY <1>6 DEF SendFails
  <2> QED  BY <1>b, <2>2, <2>3, <2>4, <2>5, <2>6
<1>7. ASSUME Records \/ RecordFails
      PROVE  NotifierOK' /\ StoreStep
  <2>1. courier.id \in Ids /\ courier' = Resting /\ UNCHANGED <<now, storeVars, lastPushed, queue, told>>
    BY <1>7 DEF Records, RecordFails
  <2>2. pushLog' \in [Ids -> Nat \cup {Never}] /\ doubted' \subseteq Ids
    BY <1>7, <2>1 DEF Records, RecordPush, RecordFails
  <2> QED  BY <1>a, <1>b, <2>1, <2>2 DEF StoreStep, Quiet
<1>8. ASSUME NEW p \in PrefChoices, NEW withQuiet \in BOOLEAN, NEW written \in BOOLEAN, SetPrefs(p, withQuiet, written)
      PROVE  NotifierOK' /\ StoreStep
  BY <1>8 DEF SetPrefs, StoreStep, Quiet
<1> QED  BY <1>1, <1>2, <1>3, <1>4, <1>5, <1>6, <1>7, <1>8 DEF NotifierStep, CourierStep
-----------------------------------------------------------------------------
(***************************************************************************)
(* All of the feed.                                                        *)
(***************************************************************************)
FeedInv == StoreOK /\ AlertsOK /\ ScansOK /\ AuditOK /\ AuditWhole /\ CorrelatorsOK /\ NotifierOK

LEMMA FeedInit == Init => FeedInv
<1> SUFFICES ASSUME Init  PROVE FeedInv
  OBVIOUS
<1> USE DEF Init, StoreInit, PollersInit, CorrelatorsInit, NotifierInit
<1>1. StoreOK
  BY StoreConstants DEF StoreOK, TableOK, InboxOK, OneRowPerWindow, Kept
<1>2. AlertsOK
  BY DEF AlertsOK, NoAlerts
<1>3. ScansOK
  BY DEF ScansOK
<1>4. AuditOK
  BY DEF AuditOK, NoAudit, AuditRows
<1>5. AuditWhole
  BY DEF AuditWhole, NoAudit
<1>6. CorrelatorsOK
  BY DEF CorrelatorsOK, Idle, NoRow
<1>7. NotifierOK
  BY NotifierConstants DEF NotifierOK, NotifierType, CourierType, Resting, NoRow, NeverAny
<1> QED  BY <1>1, <1>2, <1>3, <1>4, <1>5, <1>6, <1>7 DEF FeedInv

LEMMA AcksMark ==
    ASSUME StoreOK, FromTheApp
    PROVE  Marks
<1>1. rows \in Seq(Row)
  BY DEF StoreOK, TableOK
<1>2. \A r \in Row : LET m == [r EXCEPT !.acked = TRUE] IN
        /\ m.key = r.key /\ m.at = r.at /\ m.last = r.last /\ m.body = r.body /\ m.severity = r.severity
        /\ m.gone = r.gone /\ m.parent = r.parent /\ m \in Row
  BY DEF Row
<1>3. ASSUME AckAll
      PROVE  Marks
  BY <1>1, <1>2, <1>3 DEF AckAll, Marks
<1>4. ASSUME NEW i \in Kept, Ack(i)
      PROVE  Marks
  <2> DEFINE m == [rows[i] EXCEPT !.acked = TRUE]
  <2>1. i \in DOMAIN rows /\ rows[i] \in Row
    BY <1>1 DEF Kept
  <2>2. rows' = [rows EXCEPT ![i] = m] /\ UNCHANGED <<now, subs, inbox, missed>>
    BY <1>1, <1>4, <2>1 DEF Ack
  <2>3. /\ m.key = rows[i].key /\ m.at = rows[i].at /\ m.last = rows[i].last /\ m.body = rows[i].body
        /\ m.severity = rows[i].severity /\ m.gone = rows[i].gone /\ m.parent = rows[i].parent /\ m \in Row
    BY <1>2, <2>1
  <2> HIDE DEF m
  <2> QED  BY <1>1, <2>1, <2>2, <2>3 DEF Marks
<1> QED  BY <1>3, <1>4 DEF FromTheApp

LEMMA PruningMarks ==
    ASSUME StoreOK, Prune
    PROVE  Marks
<1>1. rows \in Seq(Row)
  BY DEF StoreOK, TableOK
<1>2. \A r \in Row : LET m == [r EXCEPT !.gone = TRUE] IN
        /\ m.key = r.key /\ m.at = r.at /\ m.last = r.last /\ m.body = r.body /\ m.severity = r.severity
        /\ m.gone /\ m.parent = r.parent /\ m \in Row
  BY DEF Row
<1> QED  BY <1>1, <1>2 DEF Prune, Marks

LEMMA ReportsPost ==
    ASSUME StoreOK, NEW ev \in Reports, Reported(ev)
    PROVE  StoreStep
BY ReportIsEvent DEF Reported, StoreStep, Posts, StoreOK, TableOK

LEMMA RestartStops ==
    ASSUME StoreOK, CorrelatorsOK, NotifierOK, Restart
    PROVE  StoreStep
<1>1. DOMAIN rows \subseteq Nat /\ Ids \subseteq Nat
  BY DEF StoreOK, TableOK, Ids
<1>2. ASSUME NEW s \in Subscribers
      PROVE  LostBy(s) \in SUBSET Nat
  <2>1. CASE s = "push"
    BY <1>1, <2>1 DEF LostBy, InHand, NotifierOK, NotifierType
  <2>2. CASE s # "push"
    BY <1>2, <2>2, FeedConstants DEF LostBy, CorrelatorsOK
  <2> QED  BY <2>1, <2>2
<1>3. [s \in Subscribers |-> LostBy(s)] \in [Subscribers -> SUBSET Nat]
  BY <1>2
<1>4. StoreForgets([s \in Subscribers |-> LostBy(s)]) /\ UNCHANGED now
  BY DEF Restart
<1> QED  BY <1>3, <1>4 DEF StoreStep, Stops

LEMMA NotifierStays ==
    ASSUME NotifierOK, UNCHANGED <<lastPushed, queue, courier, pushLog, told, doubted>>
    PROVE  NotifierOK'
BY DEF NotifierOK, NotifierType, CourierType

\* What the others do, a component has no part in.
LEMMA OthersStay ==
    ASSUME FeedInv, StoreStep
    PROVE  /\ UNCHANGED alertVars => AlertsOK'
           /\ UNCHANGED scanVars => ScansOK'
           /\ UNCHANGED auditVars => AuditOK' /\ AuditWhole'
           /\ UNCHANGED correlator => CorrelatorsOK'
           /\ UNCHANGED pushVars => NotifierOK'
           /\ StoreOK'
<1>1. StoreOK' /\ Grown
  BY StoreStepKeeps DEF FeedInv
<1>2. now \in Nat /\ now' \in Nat /\ now =< now'
  BY <1>1 DEF FeedInv, StoreOK, TableOK, Grown
<1>3. UNCHANGED alertVars => AlertsOK'
  BY <1>2, AlertsStay DEF FeedInv, alertVars
<1>4. UNCHANGED scanVars => ScansOK'
  BY <1>2, ScansStay DEF FeedInv, scanVars
<1>5. UNCHANGED auditVars => AuditOK' /\ AuditWhole'
  BY <1>1, <1>2, AuditStays, AuditWholeStays DEF FeedInv, auditVars
<1>6. UNCHANGED correlator => CorrelatorsOK'
  BY <1>1, CorrelatorsStay DEF FeedInv
<1>7. UNCHANGED pushVars => NotifierOK'
  BY NotifierStays DEF FeedInv, pushVars
<1> QED  BY <1>1, <1>3, <1>4, <1>5, <1>6, <1>7

\* Which component a step is of, and what it leaves alone.
AlertsDo ==
    /\ \/ \E u \in Uuids, form \in AlertForms : Raised(u, form.level, form.text)
       \/ \E u \in Uuids : Cleared(u)
       \/ AlertsStep
    /\ UNCHANGED <<now, subs, scanVars, auditVars, correlator, linkFailed, pushVars>>
ScansDo ==
    /\ \/ \E p \in Pools, function \in Functions, mine \in BOOLEAN : ScanStarts(p, function, mine)
       \/ \E p \in Pools, errors \in BOOLEAN : ScanEnds(p, errors)
       \/ ScansStep
    /\ UNCHANGED <<now, subs, alertVars, auditVars, correlator, linkFailed, pushVars>>
AuditDoes ==
    /\ (\E a \in AuditIds, entry \in Entries : Audited(a, entry)) \/ AuditStep
    /\ UNCHANGED <<now, subs, alertVars, scanVars, correlator, linkFailed, pushVars>>

LEMMA PollersAct ==
    (Surroundings \/ AlertsStep \/ ScansStep \/ AuditStep) /\ UNCHANGED <<correlator, linkFailed, pushVars>> =>
        AlertsDo \/ ScansDo \/ AuditDoes
<1>1. \A u \in Uuids, form \in AlertForms : Raised(u, form.level, form.text) => UNCHANGED <<now, subs, scanVars, auditVars>>
  BY Zenon DEF storeVars, Ingest, IngestFails, Raised
<1>2. \A u \in Uuids : Cleared(u) => UNCHANGED <<now, subs, scanVars, auditVars>>
  BY Zenon DEF storeVars, Ingest, IngestFails, Cleared
<1>3. AlertsStep => UNCHANGED <<now, subs, scanVars, auditVars>>
  BY Zenon DEF storeVars, Ingest, IngestFails, AlertsStep, AlertsFetch, AlertsEnd, AlertIngested, AlertFailed
<1>4. \A p \in Pools, function \in Functions, mine \in BOOLEAN :
          ScanStarts(p, function, mine) => UNCHANGED <<now, subs, alertVars, auditVars>>
  BY Zenon DEF storeVars, Ingest, IngestFails, ScanStarts
<1>5. \A p \in Pools, errors \in BOOLEAN : ScanEnds(p, errors) => UNCHANGED <<now, subs, alertVars, auditVars>>
  BY Zenon DEF storeVars, Ingest, IngestFails, ScanEnds
<1>6. ScansStep => UNCHANGED <<now, subs, alertVars, auditVars>>
  BY Zenon DEF storeVars, Ingest, IngestFails, ScansStep, ScanSeen, ScanFinished, ScanRecorded, ScanFailed
<1>7. \A a \in AuditIds, entry \in Entries : Audited(a, entry) => UNCHANGED <<now, subs, alertVars, scanVars>>
  BY Zenon DEF storeVars, Ingest, IngestFails, Audited
<1>8. AuditStep => UNCHANGED <<now, subs, alertVars, scanVars>>
  BY Zenon DEF storeVars, Ingest, IngestFails, AuditStep, AuditFetch, AuditUnavailable, AuditFails, AuditNext, AuditRule, AuditRowDone, AuditEnd
<1> QED  BY <1>1, <1>2, <1>3, <1>4, <1>5, <1>6, <1>7, <1>8 DEF Surroundings, AlertsDo, ScansDo, AuditDoes

LEMMA FeedMoves ==
    ASSUME FeedInv, [Next]_vars
    PROVE  FeedInv' /\ StoreStep
<1> USE DEF FeedInv
<1>1. CASE AlertsDo
  <2>1. AlertsOK' /\ StoreStep
    BY <1>1, AlertsMove DEF AlertsDo, PollStep, StoreStep
  <2> QED  BY <1>1, <2>1, OthersStay DEF AlertsDo
<1>2. CASE ScansDo
  <2>1. ScansOK' /\ StoreStep
    BY <1>2, ScansMove DEF ScansDo, PollStep, StoreStep
  <2> QED  BY <1>2, <2>1, OthersStay DEF ScansDo
<1>3. CASE AuditDoes
  <2>1. AuditOK' /\ AuditWhole' /\ StoreStep
    BY <1>3, AuditMoves DEF AuditDoes, PollStep, StoreStep
  <2> QED  BY <1>3, <2>1, OthersStay DEF AuditDoes
<1>4. CASE \E ev \in Reports : Reported(ev) /\ UNCHANGED <<pollerVars, correlator, linkFailed, pushVars>>
  BY <1>4, ReportsPost, OthersStay DEF pollerVars
<1>5. CASE \E c \in CorrelatorNames : Subscribe(c) /\ UNCHANGED <<pollerVars, correlator, linkFailed, pushVars>>
  <2>1. StoreStep
    BY <1>5, SubscribersAre DEF Subscribe, StoreStep, Joins
  <2> QED  BY <1>5, <2>1, OthersStay DEF pollerVars
<1>6. CASE \E c \in CorrelatorNames : CorrelatorStep(c) /\ UNCHANGED <<pollerVars, pushVars>>
  BY <1>6, CorrelatorsMove, OthersStay DEF pollerVars
<1>7. CASE NotifierStep /\ UNCHANGED <<pollerVars, correlator, linkFailed>>
  BY <1>7, NotifierMoves, OthersStay DEF pollerVars
<1>8. CASE FromTheApp /\ UNCHANGED <<pollerVars, correlator, linkFailed, pushVars>>
  BY <1>8, AcksMark, OthersStay DEF StoreStep, pollerVars
<1>9. CASE Prunes
  <2>1. StoreStep
    BY <1>9, PruningMarks DEF Prunes, StoreStep
  <2>2. pushLog' \in [Ids -> Nat \cup {Never}] /\ UNCHANGED <<lastPushed, queue, courier, told, doubted>>
    BY <1>9 DEF Prunes, PruneLog, NotifierOK, NotifierType
  <2>3. NotifierOK'
    BY <2>2 DEF NotifierOK, NotifierType
  <2> QED  BY <1>9, <2>1, <2>3, OthersStay DEF Prunes, pollerVars
<1>10. CASE Restart
  <2>1. StoreStep /\ StoreOK'
    BY <1>10, RestartStops, OthersStay
  <2>2. PollersForget /\ CorrelatorsForget /\ NotifierForgets /\ UNCHANGED now
    BY <1>10 DEF Restart
  <2>3. AlertsOK'
    BY <2>2 DEF PollersForget, AlertsOK, NoAlerts
  <2>4. ScansOK'
    BY <2>2 DEF PollersForget, ScansOK
  <2>5. AuditOK' /\ AuditWhole'
    BY <2>2 DEF PollersForget, AuditOK, AuditWhole, AuditRows, NoAudit
  <2>6. CorrelatorsOK'
    BY <2>2 DEF CorrelatorsForget, CorrelatorsOK, Idle, NoRow
  <2>7. NotifierOK'
    BY <2>2, NotifierConstants DEF NotifierForgets, NotifierOK, NotifierType, CourierType, NeverAny, Resting, NoRow
  <2> QED  BY <2>1, <2>3, <2>4, <2>5, <2>6, <2>7
<1>11. CASE Passes
  BY <1>11, OthersStay DEF Passes, Tick, StoreStep, TimePasses, pollerVars
<1>12. CASE UNCHANGED vars
  BY <1>12, OthersStay DEF vars, pollerVars, StoreStep, Quiet
<1> QED  BY <1>1, <1>2, <1>3, <1>4, <1>5, <1>6, <1>7, <1>8, <1>9, <1>10, <1>11, <1>12, PollersAct DEF Next

LEMMA FeedHolds == Spec => []FeedInv
<1>1. FeedInv /\ [Next]_vars => FeedInv'
  BY FeedMoves
<1> QED  BY FeedInit, <1>1, PTL DEF Spec

\* Each row of the feed is one burst of its key and shows the latest of it,
\* whoever ingests what and in whatever order: no two rows of a key are
\* within its window of each other (Ingest, store.go).
THEOREM StoreIsSoundHolds == Spec => []StoreIsSound
<1>1. FeedInv => StoreIsSound
  <2> SUFFICES ASSUME FeedInv  PROVE StoreIsSound
    OBVIOUS
  <2>1. \A i \in DOMAIN rows : rows[i] \in RowType
    <3>1. TAKE i \in DOMAIN rows
    <3> DEFINE K == {rows[j].key : j \in DOMAIN rows}
    <3>2. rows[i] \in Row /\ rows[i].key \in K
      BY DEF FeedInv, StoreOK, TableOK
    <3>3. RowType = [key : K, severity : Severities, at : Nat, last : Nat, body : Nat,
                     count : Nat \ {0}, parent : Nat, acked : BOOLEAN, gone : BOOLEAN]
      BY Zenon DEF RowType
    <3> HIDE DEF K
    <3> QED  BY <3>2, <3>3 DEF Row
  <2>2. DOMAIN rows \subseteq Ids
    BY RowFields DEF FeedInv, StoreOK
  <2>3. FeedType
    BY <2>1, <2>2 DEF FeedInv, FeedType, NotifierOK, StoreOK, InboxOK
  <2>4. BodyIsLatest
    BY DEF FeedInv, StoreOK, TableOK, BodyIsLatest
  <2> QED  BY <2>3, <2>4 DEF StoreIsSound, FeedInv, StoreOK
<1> QED  BY <1>1, FeedHolds, PTL

\* The audit poller's promise: a row of the audit log it counts as seen is
\* in the feed under every rule it matches, though a poll may fail between
\* two of them (poll, audit.go).
THEOREM AuditRowsAreWholeHolds == Spec => []AuditRowsAreWhole
<1>1. FeedInv => AuditRowsAreWhole
  BY DEF FeedInv, AuditWhole, AuditRowsAreWhole, InFeed
<1> QED  BY <1>1, FeedHolds, PTL
-----------------------------------------------------------------------------
(***************************************************************************)
(* The phone is told once in a window: the notifier implements PushOnce.   *)
(* What it remembers, in memory while it runs and in the log when it does  *)
(* not, is no older than what the phone was told, unless telling it again  *)
(* is in order anyway.                                                     *)
(***************************************************************************)
PushTimes ==
    \A i \in Ids :
        /\ told[i] # Never => told[i] =< now
        /\ lastPushed[i] # Never => lastPushed[i] =< now
        /\ pushLog[i] # Never => pushLog[i] =< now

SendsWhatIsDue ==
    courier.step = "sending" => Promise!Fresh(courier.id) /\ lastPushed[courier.id] = now

Remembers(time, i) == time[i] # Never /\ told[i] # Never /\ told[i] =< time[i]

RunningRemembers == "push" \in subs => \A i \in Ids : Promise!Fresh(i) \/ Remembers(lastPushed, i)

LogRemembers ==
    \A i \in Ids : Promise!Fresh(i) \/ Remembers(pushLog, i) \/ (courier.step = "sent" /\ courier.id = i)

RestsWhenStopped == "push" \notin subs => queue = <<>> /\ courier = Resting

PushInv == PushTimes /\ SendsWhatIsDue /\ RunningRemembers /\ LogRemembers /\ RestsWhenStopped

LEMMA PushInit == Init => PushInv /\ Promise!Init
<1> SUFFICES ASSUME Init PROVE PushInv /\ Promise!Init
  OBVIOUS
<1>1. /\ now = 0 /\ told = [i \in Ids |-> Never] /\ lastPushed = [i \in Ids |-> Never] /\ pushLog = [i \in Ids |-> Never]
      /\ courier = Resting /\ queue = <<>> /\ doubted = {}
  BY DEF Init, StoreInit, NotifierInit, NeverAny
<1>2. \A i \in Ids : Promise!Fresh(i)
  BY <1>1 DEF Promise!Fresh
<1> QED  BY <1>1, <1>2 DEF PushInv, PushTimes, SendsWhatIsDue, RunningRemembers, LogRemembers, RestsWhenStopped, Resting,
                           Promise!Init

\* A send that is due stays due.
LEMMA DueStaysDue ==
    ASSUME NotifierOK, NEW i \in Ids, Promise!Fresh(i), told'[i] = told[i], i \in doubted => i \in doubted',
           now \in Nat, now' \in Nat, now =< now'
    PROVE  Promise!Fresh(i)'
<1>1. told[i] \in Nat \cup {Never} /\ Again \in Nat
  BY NotifierConstants DEF NotifierOK, NotifierType
<1> QED  BY <1>1 DEF Promise!Fresh

\* A step of the others.
LEMMA PushStays ==
    ASSUME FeedInv, PushInv, UNCHANGED <<now, pushVars>>, "push" \in subs' <=> "push" \in subs
    PROVE  PushInv' /\ [Promise!Next]_(Promise!vars)
<1>1. \A i \in Ids : Promise!Fresh(i)' <=> Promise!Fresh(i)
  BY DEF Promise!Fresh, pushVars
<1>2. courier.step = "sending" => courier.id \in Ids
  BY DEF FeedInv, NotifierOK, NotifierType
<1>3. UNCHANGED <<lastPushed, queue, courier, pushLog, told, doubted, now>>
  BY DEF pushVars
<1>4. PushTimes'
  BY <1>3 DEF PushInv, PushTimes
<1>5. SendsWhatIsDue'
  BY <1>1, <1>2, <1>3 DEF PushInv, SendsWhatIsDue, Promise!Fresh
<1>6. RunningRemembers'
  BY <1>1, <1>3 DEF PushInv, RunningRemembers, Remembers
<1>7. LogRemembers'
  BY <1>1, <1>3 DEF PushInv, LogRemembers, Remembers
<1>8. RestsWhenStopped'
  BY <1>3 DEF PushInv, RestsWhenStopped
<1> QED  BY <1>3, <1>4, <1>5, <1>6, <1>7, <1>8 DEF PushInv, Promise!vars

LEMMA PushFacts ==
    ASSUME FeedInv
    PROVE  /\ now \in Nat /\ Again \in Nat \ {0} /\ Retention \in Nat /\ Again =< Retention /\ Never \notin Nat
           /\ told \in [Ids -> Nat \cup {Never}] /\ lastPushed \in [Ids -> Nat \cup {Never}]
           /\ pushLog \in [Ids -> Nat \cup {Never}] /\ queue \in Seq(Ids) /\ courier \in CourierType
           /\ courier.step # "resting" => courier.id \in Ids
BY NotifierConstants, StoreConstants DEF FeedInv, StoreOK, TableOK, NotifierOK, NotifierType, CourierType

LEMMA StartRemembers ==
    ASSUME FeedInv, PushInv, NEW logRead \in BOOLEAN, NotifierStarts(logRead)
    PROVE  PushInv' /\ [Promise!Next]_(Promise!vars)
<1>1. /\ "push" \notin subs /\ queue = <<>> /\ courier = Resting /\ "push" \in subs'
      /\ UNCHANGED <<now, queue, courier, pushLog, told>>
  BY DEF NotifierStarts, Subscribe, PushInv, RestsWhenStopped
<1>2. CASE logRead
  <2>1. lastPushed' = Rehydrated /\ doubted' = doubted
    BY <1>2 DEF NotifierStarts
  <2>2. \A i \in Ids : /\ lastPushed'[i] \in {pushLog[i], Never}
                       /\ Promise!Fresh(i) \/ (lastPushed'[i] = pushLog[i] /\ Remembers(pushLog, i))
    <3>1. TAKE i \in Ids
    <3>2. lastPushed'[i] = IF pushLog[i] # Never /\ now =< pushLog[i] + Again THEN pushLog[i] ELSE Never
      BY <2>1 DEF Rehydrated
    <3>3. Promise!Fresh(i) \/ Remembers(pushLog, i)
      BY <1>1 DEF PushInv, LogRemembers, Resting
    <3>4. CASE Remembers(pushLog, i)
      BY <3>2, <3>4, PushFacts DEF Remembers, Promise!Fresh
    <3> QED  BY <3>2, <3>3, <3>4
  <2>3. PushTimes'
    BY <1>1, <2>2 DEF PushInv, PushTimes
  <2>4. RunningRemembers'
    BY <1>1, <2>1, <2>2 DEF RunningRemembers, Remembers, Promise!Fresh
  <2>5. LogRemembers'
    BY <1>1, <2>1 DEF PushInv, LogRemembers, Remembers, Promise!Fresh
  <2> QED  BY <1>1, <2>1, <2>3, <2>4, <2>5 DEF PushInv, SendsWhatIsDue, RestsWhenStopped, Resting, Promise!vars
<1>3. CASE ~logRead
  <2>1. lastPushed' = lastPushed /\ doubted' = Ids
    BY <1>3 DEF NotifierStarts
  <2>2. \A i \in Ids : Promise!Fresh(i)'
    BY <2>1 DEF Promise!Fresh
  <2>3. PushTimes'
    BY <1>1, <2>1 DEF PushInv, PushTimes
  <2>4. Promise!Doubt(Ids)
    BY <1>1, <2>1 DEF FeedInv, NotifierOK, NotifierType, Promise!Doubt
  <2>5. Promise!Next
    BY <2>4 DEF Promise!Next
  <2> QED  BY <1>1, <2>2, <2>3, <2>5
           DEF PushInv, SendsWhatIsDue, RunningRemembers, LogRemembers, RestsWhenStopped, Resting
<1> QED  BY <1>2, <1>3

LEMMA ReceivingRemembers ==
    ASSUME FeedInv, PushInv, NotifierReceives
    PROVE  PushInv' /\ [Promise!Next]_(Promise!vars)
<1>1. "push" \in subs /\ UNCHANGED <<now, subs, lastPushed, courier, pushLog, told, doubted>>
  BY DEF NotifierReceives, Receives
<1>2. \A i \in Ids : Promise!Fresh(i)' <=> Promise!Fresh(i)
  BY <1>1 DEF Promise!Fresh
<1>3. courier.step = "sending" => courier.id \in Ids
  BY DEF FeedInv, NotifierOK, NotifierType
<1> QED  BY <1>1, <1>2, <1>3 DEF PushInv, PushTimes, SendsWhatIsDue, RunningRemembers, LogRemembers, RestsWhenStopped,
                                 Remembers, Promise!vars, Promise!Fresh

LEMMA PruningRemembers ==
    ASSUME FeedInv, PushInv, PruneDedupe
    PROVE  PushInv' /\ [Promise!Next]_(Promise!vars)
<1>1. UNCHANGED <<now, subs, queue, courier, pushLog, told, doubted>>
  BY DEF PruneDedupe, storeVars
<1>2. \A i \in Ids : lastPushed'[i] = IF lastPushed[i] # Never /\ lastPushed[i] + Again < now THEN Never ELSE lastPushed[i]
  BY DEF PruneDedupe
<1>3. \A i \in Ids : Promise!Fresh(i)' <=> Promise!Fresh(i)
  BY <1>1 DEF Promise!Fresh
<1>4. PushTimes'
  BY <1>1, <1>2 DEF PushInv, PushTimes
<1>5. SendsWhatIsDue'
  <2>1. ASSUME courier.step = "sending"
        PROVE  Promise!Fresh(courier.id) /\ lastPushed'[courier.id] = now /\ courier.id \in Ids
    BY <1>2, <2>1, PushFacts DEF PushInv, SendsWhatIsDue
  <2> QED  BY <1>1, <2>1 DEF SendsWhatIsDue, Promise!Fresh
<1>6. RunningRemembers'
  <2>1. ASSUME NEW i \in Ids, Remembers(lastPushed, i)
        PROVE  Promise!Fresh(i) \/ (lastPushed'[i] # Never /\ told[i] # Never /\ told[i] =< lastPushed'[i])
    BY <1>2, <2>1, PushFacts DEF Remembers, Promise!Fresh
  <2> QED  BY <1>1, <1>3, <2>1 DEF PushInv, RunningRemembers, Remembers
<1>7. LogRemembers'
  BY <1>1, <1>3 DEF PushInv, LogRemembers, Remembers
<1> QED  BY <1>1, <1>4, <1>5, <1>6, <1>7 DEF PushInv, RestsWhenStopped, Promise!vars

LEMMA TakingRemembers ==
    ASSUME FeedInv, PushInv, NEW send \in BOOLEAN, Takes(send)
    PROVE  PushInv' /\ [Promise!Next]_(Promise!vars)
<1> DEFINE id == Head(queue)
<1>1. /\ courier = Resting /\ queue # <<>> /\ queue' = Tail(queue)
      /\ UNCHANGED <<now, subs, pushLog, told, doubted>>
  BY DEF Takes, storeVars
<1>2. "push" \in subs /\ id \in Ids
  BY <1>1, PushFacts DEF PushInv, RestsWhenStopped
<1>3. \A i \in Ids : Promise!Fresh(i)' <=> Promise!Fresh(i)
  BY <1>1 DEF Promise!Fresh
<1>4. CASE send
  <2>1. /\ Fresh(id) /\ lastPushed' = [lastPushed EXCEPT ![id] = now]
        /\ courier' = [step |-> "sending", id |-> id, tries |-> 0]
    BY <1>4 DEF Takes
  <2>2. Promise!Fresh(id)
    <3>1. Promise!Fresh(id) \/ Remembers(lastPushed, id)
      BY <1>2 DEF PushInv, RunningRemembers
    <3> QED  BY <1>2, <2>1, <3>1, PushFacts DEF Fresh, Remembers, Promise!Fresh
  <2>3. PushTimes'
    BY <1>1, <1>2, <2>1, PushFacts DEF PushInv, PushTimes
  <2>4. SendsWhatIsDue'
    BY <1>1, <1>2, <2>1, <2>2, PushFacts DEF SendsWhatIsDue, Promise!Fresh
  <2>5. RunningRemembers'
    BY <1>1, <1>2, <1>3, <2>1, <2>2, PushFacts DEF PushInv, RunningRemembers, Remembers
  <2>6. LogRemembers'
    BY <1>1, <1>3, <2>1 DEF PushInv, LogRemembers, Remembers, Resting
  <2> QED  BY <1>1, <1>2, <2>3, <2>4, <2>5, <2>6 DEF PushInv, RestsWhenStopped, Promise!vars
<1>5. CASE ~send
  <2>1. UNCHANGED <<lastPushed, courier>>
    BY <1>5 DEF Takes
  <2> QED  BY <1>1, <1>2, <1>3, <2>1 DEF PushInv, PushTimes, SendsWhatIsDue, RunningRemembers, LogRemembers,
                                         RestsWhenStopped, Remembers, Resting, Promise!vars
<1> QED  BY <1>4, <1>5

LEMMA DeliveringRemembers ==
    ASSUME FeedInv, PushInv, Delivered
    PROVE  PushInv' /\ [Promise!Next]_(Promise!vars)
<1>0. PICK id : id = courier.id
  OBVIOUS
<1>1. /\ courier.step = "sending" /\ told' = [told EXCEPT ![id] = now] /\ doubted' = doubted \ {id}
      /\ courier' = [courier EXCEPT !.step = "sent"]
      /\ UNCHANGED <<now, subs, lastPushed, queue, pushLog>>
  BY <1>0 DEF Delivered, Reaches, storeVars
<1>2. id \in Ids /\ courier'.step = "sent" /\ courier'.id = id /\ Promise!Fresh(id) /\ lastPushed[id] = now
  BY <1>0, <1>1, PushFacts DEF PushInv, SendsWhatIsDue, CourierType
<1>3. "push" \in subs
  BY <1>1 DEF PushInv, RestsWhenStopped, Resting
<1>4. \A i \in Ids \ {id} : (Promise!Fresh(i)' <=> Promise!Fresh(i)) /\ told'[i] = told[i]
  BY <1>1, PushFacts DEF Promise!Fresh
<1>5. told'[id] = now
  BY <1>1, <1>2, PushFacts
<1>6. PushTimes'
  BY <1>1, <1>4, <1>5, PushFacts DEF PushInv, PushTimes
<1>7. RunningRemembers'
  <2>1. ASSUME NEW i \in Ids
        PROVE  Promise!Fresh(i)' \/ Remembers(lastPushed, i)'
    <3>1. CASE i = id
      BY <1>1, <1>2, <1>5, <3>1, PushFacts DEF Remembers
    <3>2. CASE i # id
      BY <1>1, <1>3, <1>4, <3>2 DEF PushInv, RunningRemembers, Remembers
    <3> QED  BY <3>1, <3>2
  <2> QED  BY <2>1 DEF RunningRemembers, Remembers, Promise!Fresh
<1>8. LogRemembers'
  <2>1. ASSUME NEW i \in Ids \ {id}
        PROVE  Promise!Fresh(i)' \/ Remembers(pushLog, i)'
    BY <1>1, <1>4 DEF PushInv, LogRemembers, Remembers
  <2> QED  BY <1>2, <2>1 DEF LogRemembers, Remembers, Promise!Fresh
<1>9. Promise!Tell(id)
  BY <1>1, <1>2 DEF Promise!Tell
<1>10. Promise!Next
  BY <1>2, <1>9 DEF Promise!Next
<1> QED  BY <1>1, <1>2, <1>3, <1>6, <1>7, <1>8, <1>10 DEF PushInv, SendsWhatIsDue, RestsWhenStopped

LEMMA FailingRemembers ==
    ASSUME FeedInv, PushInv, NEW why \in {"refused", "down", "answer lost"}, SendFails(why)
    PROVE  PushInv' /\ [Promise!Next]_(Promise!vars)
<1>0. PICK id : id = courier.id
  OBVIOUS
<1>1. courier.step = "sending" /\ UNCHANGED <<now, subs, queue, pushLog>>
  BY DEF SendFails
<1>2. id \in Ids /\ Promise!Fresh(id) /\ lastPushed[id] = now /\ "push" \in subs
  <2>1. id \in Ids /\ Promise!Fresh(id) /\ lastPushed[id] = now
    BY <1>0, <1>1, PushFacts DEF PushInv, SendsWhatIsDue
  <2>2. "push" \in subs
    <3>1. courier # Resting
      <4>1. Resting.step = "resting"
        BY DEF Resting
      <4> QED  BY <1>1, <4>1
    <3> QED  BY <3>1 DEF PushInv, RestsWhenStopped
  <2> QED  BY <2>1, <2>2
<1>3. \/ courier' = Resting /\ lastPushed' = [lastPushed EXCEPT ![id] = Never]
      \/ courier' = [courier EXCEPT !.tries = 1] /\ UNCHANGED lastPushed
  BY <1>0 DEF SendFails, GivesUp, AfterGivingUp
<1>4. \/ told' = [told EXCEPT ![id] = now] /\ doubted' = doubted \cup {id}
      \/ UNCHANGED <<told, doubted>>
  BY <1>0 DEF SendFails, Reaches
<1>5. \A i \in Ids : Promise!Fresh(i) => Promise!Fresh(i)'
  BY <1>1, <1>4, PushFacts DEF Promise!Fresh
<1>6. \A i \in Ids \ {id} : told'[i] = told[i] /\ lastPushed'[i] = lastPushed[i]
  BY <1>3, <1>4, PushFacts
<1>7. lastPushed'[id] \in {now, Never} /\ told'[id] \in {told[id], now}
  BY <1>2, <1>3, <1>4, PushFacts
<1>8. courier'.step \in {"resting", "sending"} /\ (courier'.step = "sending" => courier'.id = id /\ lastPushed'[id] = now)
  <2>1. CASE courier' = Resting
    BY <2>1 DEF Resting
  <2>2. CASE courier' = [courier EXCEPT !.tries = 1] /\ UNCHANGED lastPushed
    <3>1. courier'.step = "sending" /\ courier'.id = id
      BY <1>0, <1>1, <2>2, PushFacts DEF CourierType
    <3> QED  BY <1>2, <2>2, <3>1
  <2> QED  BY <1>3, <2>1, <2>2
<1>9. PushTimes'
  <2>1. ASSUME NEW i \in Ids
        PROVE  (told'[i] # Never => told'[i] =< now) /\ (lastPushed'[i] # Never => lastPushed'[i] =< now)
    <3>1. CASE i = id
      BY <1>2, <1>7, <3>1, PushFacts DEF PushInv, PushTimes
    <3>2. CASE i # id
      BY <1>6, <3>2 DEF PushInv, PushTimes
    <3> QED  BY <3>1, <3>2
  <2> QED  BY <1>1, <2>1 DEF PushInv, PushTimes
<1>10. SendsWhatIsDue'
  BY <1>1, <1>2, <1>5, <1>8 DEF SendsWhatIsDue, Promise!Fresh
<1>11. RunningRemembers'
  <2>1. ASSUME NEW i \in Ids
        PROVE  Promise!Fresh(i)' \/ Remembers(lastPushed, i)'
    <3>1. CASE i = id
      BY <1>2, <1>5, <3>1
    <3>2. CASE i # id
      BY <1>2, <1>5, <1>6, <3>2 DEF PushInv, RunningRemembers, Remembers
    <3> QED  BY <3>1, <3>2
  <2> QED  BY <2>1 DEF RunningRemembers, Remembers, Promise!Fresh
<1>12. LogRemembers'
  <2>1. ASSUME NEW i \in Ids
        PROVE  Promise!Fresh(i)' \/ Remembers(pushLog, i)'
    <3>1. CASE i = id
      BY <1>2, <1>5, <3>1
    <3>2. CASE i # id
      BY <1>1, <1>5, <1>6, <3>2 DEF PushInv, LogRemembers, Remembers
    <3> QED  BY <3>1, <3>2
  <2> QED  BY <2>1 DEF LogRemembers, Remembers, Promise!Fresh
<1>13. [Promise!Next]_(Promise!vars)
  <2>1. CASE told' = [told EXCEPT ![id] = now] /\ doubted' = doubted \cup {id}
    <3>1. Promise!Tell(id)
      BY <1>1, <1>2, <2>1 DEF Promise!Tell
    <3> QED  BY <1>2, <3>1 DEF Promise!Next
  <2>2. CASE UNCHANGED <<told, doubted>>
    BY <1>1, <2>2 DEF Promise!vars
  <2> QED  BY <1>4, <2>1, <2>2
<1> QED  BY <1>1, <1>2, <1>9, <1>10, <1>11, <1>12, <1>13 DEF PushInv, RestsWhenStopped

LEMMA RecordingRemembers ==
    ASSUME FeedInv, PushInv, Records
    PROVE  PushInv' /\ [Promise!Next]_(Promise!vars)
<1> DEFINE id == courier.id
<1>1. /\ courier.step = "sent" /\ pushLog' = [pushLog EXCEPT ![id] = now] /\ courier' = Resting
      /\ UNCHANGED <<now, subs, lastPushed, queue, told, doubted>>
  BY DEF Records, RecordPush, storeVars
<1>2. id \in Ids /\ "push" \in subs
  BY <1>1, PushFacts DEF PushInv, RestsWhenStopped, Resting
<1>3. \A i \in Ids : Promise!Fresh(i)' <=> Promise!Fresh(i)
  BY <1>1 DEF Promise!Fresh
<1>4. pushLog'[id] = now /\ \A i \in Ids \ {id} : pushLog'[i] = pushLog[i]
  BY <1>1, <1>2, PushFacts
<1>5. PushTimes'
  BY <1>1, <1>4, PushFacts DEF PushInv, PushTimes
<1>6. LogRemembers'
  <2>1. ASSUME NEW i \in Ids
        PROVE  Promise!Fresh(i) \/ (pushLog'[i] # Never /\ told[i] # Never /\ told[i] =< pushLog'[i])
    <3>1. CASE i = id
      BY <1>2, <1>4, <3>1, PushFacts DEF PushInv, PushTimes, Promise!Fresh
    <3>2. CASE i # id
      BY <1>4, <3>2 DEF PushInv, LogRemembers, Remembers
    <3> QED  BY <3>1, <3>2
  <2> QED  BY <1>1, <1>3, <2>1 DEF LogRemembers, Remembers
<1>7. RunningRemembers'
  BY <1>1, <1>3 DEF PushInv, RunningRemembers, Remembers
<1> QED  BY <1>1, <1>2, <1>5, <1>6, <1>7 DEF PushInv, SendsWhatIsDue, RestsWhenStopped, Resting, Promise!vars

LEMMA NotRecordingRemembers ==
    ASSUME FeedInv, PushInv, RecordFails
    PROVE  PushInv' /\ [Promise!Next]_(Promise!vars)
<1>0. PICK id : id = courier.id
  OBVIOUS
<1>1. /\ courier.step = "sent" /\ doubted' = doubted \cup {id} /\ courier' = Resting
      /\ UNCHANGED <<now, subs, lastPushed, queue, pushLog, told>>
  BY <1>0 DEF RecordFails, storeVars
<1>2. id \in Ids /\ "push" \in subs
  BY <1>0, <1>1, PushFacts DEF PushInv, RestsWhenStopped, Resting
<1>3. \A i \in Ids : Promise!Fresh(i) => Promise!Fresh(i)'
  BY <1>1 DEF Promise!Fresh
<1>4. Promise!Fresh(id)'
  BY <1>1 DEF Promise!Fresh
<1>5. PushTimes'
  BY <1>1 DEF PushInv, PushTimes
<1>6. LogRemembers'
  BY <1>0, <1>1, <1>3, <1>4 DEF PushInv, LogRemembers, Remembers, Promise!Fresh
<1>7. RunningRemembers'
  BY <1>1, <1>3 DEF PushInv, RunningRemembers, Remembers
<1>8. Promise!Next
  <2>1. Promise!Doubt({id}) /\ {id} \in SUBSET Ids
    BY <1>1, <1>2 DEF Promise!Doubt
  <2> QED  BY <2>1 DEF Promise!Next
<1> QED  BY <1>1, <1>2, <1>5, <1>6, <1>7, <1>8 DEF PushInv, SendsWhatIsDue, RestsWhenStopped, Resting

LEMMA LogPruningRemembers ==
    ASSUME FeedInv, PushInv, Prunes
    PROVE  PushInv' /\ [Promise!Next]_(Promise!vars)
<1>1. UNCHANGED <<now, subs, lastPushed, queue, courier, told, doubted>>
  BY DEF Prunes, Prune
<1>2. \A i \in Ids : pushLog'[i] = IF pushLog[i] # Never /\ pushLog[i] + Retention < now THEN Never ELSE pushLog[i]
  BY DEF Prunes, PruneLog
<1>3. \A i \in Ids : Promise!Fresh(i)' <=> Promise!Fresh(i)
  BY <1>1 DEF Promise!Fresh
<1>4. PushTimes'
  BY <1>1, <1>2 DEF PushInv, PushTimes
<1>5. LogRemembers'
  <2>1. ASSUME NEW i \in Ids, Remembers(pushLog, i)
        PROVE  Promise!Fresh(i) \/ (pushLog'[i] # Never /\ told[i] # Never /\ told[i] =< pushLog'[i])
    BY <1>2, <2>1, PushFacts DEF Remembers, Promise!Fresh
  <2> QED  BY <1>1, <1>3, <2>1 DEF PushInv, LogRemembers, Remembers
<1>6. RunningRemembers'
  BY <1>1, <1>3 DEF PushInv, RunningRemembers, Remembers
<1>7. SendsWhatIsDue'
  BY <1>1 DEF PushInv, SendsWhatIsDue, Promise!Fresh
<1> QED  BY <1>1, <1>4, <1>5, <1>6, <1>7 DEF PushInv, RestsWhenStopped, Promise!vars

LEMMA RestartRemembers ==
    ASSUME FeedInv, PushInv, Restart
    PROVE  PushInv' /\ [Promise!Next]_(Promise!vars)
<1>1. /\ lastPushed' = NeverAny /\ queue' = <<>> /\ courier' = Resting /\ subs' = {}
      /\ doubted' = IF courier.step = "sent" THEN doubted \cup {courier.id} ELSE doubted
      /\ UNCHANGED <<now, pushLog, told>>
  BY DEF Restart, NotifierForgets, StoreForgets
<1>2. \A i \in Ids : Promise!Fresh(i) => Promise!Fresh(i)'
  BY <1>1 DEF Promise!Fresh
<1>3. LogRemembers'
  <2>1. ASSUME NEW i \in Ids
        PROVE  Promise!Fresh(i)' \/ Remembers(pushLog, i)'
    BY <1>1, <1>2 DEF PushInv, LogRemembers, Remembers, Promise!Fresh
  <2> QED  BY <2>1 DEF LogRemembers, Remembers, Promise!Fresh
<1>4. PushTimes'
  BY <1>1 DEF PushInv, PushTimes, NeverAny
<1>5. [Promise!Next]_(Promise!vars)
  <2>1. CASE courier.step = "sent"
    <3>1. Promise!Doubt({courier.id}) /\ {courier.id} \in SUBSET Ids
      BY <1>1, <2>1, PushFacts DEF Promise!Doubt
    <3> QED  BY <3>1 DEF Promise!Next
  <2>2. CASE courier.step # "sent"
    BY <1>1, <2>2 DEF Promise!vars
  <2> QED  BY <2>1, <2>2
<1> QED  BY <1>1, <1>3, <1>4, <1>5 DEF PushInv, SendsWhatIsDue, RunningRemembers, RestsWhenStopped, Resting

LEMMA PassingRemembers ==
    ASSUME FeedInv, PushInv, Passes
    PROVE  PushInv' /\ [Promise!Next]_(Promise!vars)
<1>1. courier.step # "sending" /\ now' = now + 1 /\ UNCHANGED <<subs, lastPushed, queue, courier, pushLog, told, doubted>>
  BY DEF Passes, Tick, storeVars, pushVars
<1>2. \A i \in Ids : Promise!Fresh(i) => Promise!Fresh(i)'
  BY <1>1, PushFacts DEF Promise!Fresh
<1>3. PushTimes'
  BY <1>1, PushFacts DEF PushInv, PushTimes
<1>4. RunningRemembers'
  BY <1>1, <1>2 DEF PushInv, RunningRemembers, Remembers
<1>5. LogRemembers'
  BY <1>1, <1>2 DEF PushInv, LogRemembers, Remembers
<1>6. Promise!Next
  BY <1>1 DEF Promise!Next, Promise!Pass
<1> QED  BY <1>1, <1>3, <1>4, <1>5, <1>6 DEF PushInv, SendsWhatIsDue, RestsWhenStopped

\* Every step of the feed is one of PushOnce, or none.
LEMMA PushMoves ==
    ASSUME FeedInv, PushInv, [Next]_vars
    PROVE  PushInv' /\ [Promise!Next]_(Promise!vars)
<1>1. CASE AlertsDo \/ ScansDo \/ AuditDoes
  BY <1>1, PushStays DEF AlertsDo, ScansDo, AuditDoes
<1>2. CASE \E ev \in Reports : Reported(ev) /\ UNCHANGED <<pollerVars, correlator, linkFailed, pushVars>>
  BY <1>2, PushStays DEF Reported, Ingest
<1>3. CASE \E c \in CorrelatorNames : Subscribe(c) /\ UNCHANGED <<pollerVars, correlator, linkFailed, pushVars>>
  BY <1>3, PushStays DEF Subscribe, CorrelatorNames
<1>4. CASE \E c \in CorrelatorNames : CorrelatorStep(c) /\ UNCHANGED <<pollerVars, pushVars>>
  <2>1. ASSUME NEW c \in CorrelatorNames, CorrelatorStep(c)
        PROVE  UNCHANGED <<now, subs>>
    BY <2>1, Zenon DEF CorrelatorStep, Handle, ParentIngested, Ingest, ParentFails, LinksDone, LinkChild, LinkFails,
        ListFails, storeVars
  <2> QED  BY <1>4, <2>1, PushStays
<1>5. CASE NotifierStep /\ UNCHANGED <<pollerVars, correlator, linkFailed>>
  <2>1. ASSUME NEW p \in PrefChoices, NEW withQuiet \in BOOLEAN, NEW written \in BOOLEAN, SetPrefs(p, withQuiet, written)
        PROVE  PushInv' /\ [Promise!Next]_(Promise!vars)
    <3>1. UNCHANGED <<now, subs, lastPushed, queue, courier, pushLog, told, doubted>>
      BY <2>1 DEF SetPrefs, storeVars
    <3>2. \A i \in Ids : Promise!Fresh(i)' <=> Promise!Fresh(i)
      BY <3>1 DEF Promise!Fresh
    <3> QED  BY <3>1, <3>2, PushFacts DEF PushInv, PushTimes, SendsWhatIsDue, RunningRemembers, LogRemembers,
                                          RestsWhenStopped, Remembers, Promise!vars, Promise!Fresh
  <2> QED  BY <1>5, <2>1, StartRemembers, ReceivingRemembers, PruningRemembers, TakingRemembers, DeliveringRemembers,
              FailingRemembers, RecordingRemembers, NotRecordingRemembers DEF NotifierStep, CourierStep
<1>6. CASE FromTheApp /\ UNCHANGED <<pollerVars, correlator, linkFailed, pushVars>>
  BY <1>6, PushStays DEF FromTheApp, AckAll, Ack
<1>7. CASE UNCHANGED vars
  BY <1>7, PushStays DEF vars, storeVars
<1> QED  BY <1>1, <1>2, <1>3, <1>4, <1>5, <1>6, <1>7, LogPruningRemembers, RestartRemembers, PassingRemembers, PollersAct
         DEF Next

\* The notifier's promise, restarts, lost answers and a log that can't be
\* read or written included: an event notifies the phone again only after
\* the dedupe window, unless nobody can know whether the last time reached
\* it (markIfFresh, rehydrate and send of notifier.go; Prune keeps the log
\* for as long as the window).
THEOREM OncePerWindowHolds == Spec => OncePerWindow
<1>1. FeedInv /\ PushInv /\ [Next]_vars => PushInv' /\ [Promise!Next]_(Promise!vars)
  BY PushMoves
<1>2. Init => PushInv /\ Promise!Init
  BY PushInit
<1> QED  BY <1>1, <1>2, FeedHolds, PTL DEF Spec, OncePerWindow, Promise!Spec
-----------------------------------------------------------------------------
(***************************************************************************)
(* Children have parents.  To a correlator a step of anyone else does one  *)
(* thing: it may send it events, and may prune old rows.                   *)
(***************************************************************************)
Waits(c, i) == i \in missed[c] \/ \E n \in DOMAIN inbox[c] : inbox[c][n] = i

Sends(c) ==
    /\ DOMAIN rows \subseteq DOMAIN rows'
    /\ \A i \in DOMAIN rows :
          /\ rows'[i].key = rows[i].key /\ rows'[i].at = rows[i].at /\ rows'[i].parent = rows[i].parent
          /\ rows[i].gone => rows'[i].gone
    \* who is pruned is the oldest
    /\ \A i, j \in DOMAIN rows :
          (rows'[i].gone /\ ~rows[i].gone /\ rows[j].at =< rows[i].at) => rows'[j].gone
    /\ \A i \in DOMAIN rows' \ DOMAIN rows :
          /\ Waits(c, i)'
          /\ rows'[i].key[1] = "job" => rows'[i].at = now
          /\ \A j \in DOMAIN rows : j < i
    /\ \A i : Waits(c, i) => Waits(c, i)'

LEMMA SameSends ==
    ASSUME NEW c \in CorrelatorNames, rows' = rows, inbox'[c] = inbox[c], missed'[c] = missed[c]
    PROVE  Sends(c)
BY DEF Sends, Waits

LEMMA BroadcastWaits ==
    ASSUME StoreOK, NEW c \in Subscribers, NEW ev \in Events, Ingest(ev)
    PROVE  \A i : (Waits(c, i) \/ i = StoredAs(ev)) => Waits(c, i)'
<1> DEFINE id == StoredAs(ev)
<1>1. /\ inbox'[c] = IF Gets(c) THEN Append(inbox[c], id) ELSE inbox[c]
      /\ missed'[c] = IF Gets(c) THEN missed[c] \ {id} ELSE missed[c] \cup {id}
  BY DEF Ingest, Broadcast
<1>2. inbox[c] \in Seq(Ids) /\ id \in Ids
  BY DEF StoreOK, InboxOK, Ingest
<1> HIDE DEF id
<1>3. CASE Gets(c)
  <2>1. /\ inbox'[c] = Append(inbox[c], id) /\ Len(inbox[c]) \in Nat
        /\ DOMAIN inbox[c] = 1..Len(inbox[c]) /\ DOMAIN inbox'[c] = 1..(Len(inbox[c]) + 1)
        /\ inbox'[c][Len(inbox[c]) + 1] = id
        /\ \A n \in DOMAIN inbox[c] : inbox'[c][n] = inbox[c][n]
    BY <1>1, <1>2, <1>3
  <2>2. \E n \in DOMAIN inbox'[c] : inbox'[c][n] = id
    BY <2>1
  <2>3. \A i : (\E n \in DOMAIN inbox[c] : inbox[c][n] = i) => \E n \in DOMAIN inbox'[c] : inbox'[c][n] = i
    <3>1. \A n \in DOMAIN inbox[c] : n \in DOMAIN inbox'[c] /\ inbox'[c][n] = inbox[c][n]
      BY <2>1
    <3> QED  BY <3>1
  <2>4. missed'[c] = missed[c] \ {id}
    BY <1>1, <1>3
  <2>5. \A i : Waits(c, i) => i \in missed'[c] \/ \E n \in DOMAIN inbox'[c] : inbox'[c][n] = i
    BY <2>2, <2>3, <2>4 DEF Waits
  <2>6. \A i : i = id => i \in missed'[c] \/ \E n \in DOMAIN inbox'[c] : inbox'[c][n] = i
    BY <2>2
  <2> QED  BY <2>5, <2>6 DEF Waits, id
<1>4. CASE ~Gets(c)
  <2>1. inbox'[c] = inbox[c] /\ missed'[c] = missed[c] \cup {id}
    BY <1>1, <1>4
  <2> QED  BY <2>1 DEF Waits, id
<1> QED  BY <1>3, <1>4

LEMMA PostsSend ==
    ASSUME StoreOK, NEW c \in CorrelatorNames, NEW ev \in Events, Posts(ev)
    PROVE  Sends(c)
<1> DEFINE id == StoredAs(ev)
<1>1. Ingest(ev) /\ now' = now /\ ev.at =< now /\ c \in Subscribers /\ (ev.key[1] = "job" => ev.at = now)
  BY SubscribersAre DEF Posts
<1>2. \A i : (Waits(c, i) \/ i = id) => Waits(c, i)'
  BY <1>1, BroadcastWaits
<1>3. /\ Grown /\ DOMAIN rows' = DOMAIN rows \cup {id} /\ rows'[id].key = ev.key
      /\ \A i \in DOMAIN rows : rows'[i].parent = rows[i].parent /\ rows'[i].gone = rows[i].gone
      /\ id \notin DOMAIN rows => id = Len(rows) + 1 /\ rows'[id].at = ev.at
  BY <1>1, IngestTable DEF StoreOK
<1>4. \A i \in DOMAIN rows' \ DOMAIN rows :
        Waits(c, i)' /\ (rows'[i].key[1] = "job" => rows'[i].at = now) /\ \A j \in DOMAIN rows : j < i
  <2>1. TAKE i \in DOMAIN rows' \ DOMAIN rows
  <2>2. i = id /\ id = Len(rows) + 1 /\ rows'[i].at = ev.at /\ rows'[i].key = ev.key
    BY <1>3, <2>1
  <2>3. Waits(c, i)'
    BY <1>2, <2>2
  <2>4. \A j \in DOMAIN rows : j < i
    BY <2>2 DEF StoreOK, TableOK
  <2> QED  BY <1>1, <2>2, <2>3, <2>4
<1> QED  BY <1>2, <1>3, <1>4 DEF Sends, Grown

LEMMA AcksSend ==
    ASSUME StoreOK, NEW c \in CorrelatorNames, FromTheApp
    PROVE  Sends(c)
<1>1. Marks /\ rows \in Seq(Row)
  BY AcksMark DEF StoreOK, TableOK
<1>2. \A r \in Row : [r EXCEPT !.acked = TRUE].gone = r.gone /\ [r EXCEPT !.acked = TRUE].parent = r.parent
  BY DEF Row
<1>3. \A i \in DOMAIN rows : rows'[i] \in {rows[i], [rows[i] EXCEPT !.acked = TRUE]}
  BY <1>1 DEF FromTheApp, AckAll, Ack
<1>4. \A i \in DOMAIN rows : rows'[i].gone = rows[i].gone /\ rows'[i].parent = rows[i].parent
  <2>1. TAKE i \in DOMAIN rows
  <2>2. rows[i] \in Row
    BY <1>1
  <2> QED  BY <1>2, <1>3, <2>2
<1> QED  BY <1>1, <1>4 DEF Sends, Marks, Waits

LEMMA PruningSends ==
    ASSUME StoreOK, NEW c \in CorrelatorNames, Prune
    PROVE  Sends(c)
<1>1. Marks /\ rows \in Seq(Row) /\ now \in Nat /\ Retention \in Nat
  BY PruningMarks, StoreConstants DEF StoreOK, TableOK
<1>2. \A r \in Row : [r EXCEPT !.gone = TRUE].gone /\ [r EXCEPT !.gone = TRUE].parent = r.parent /\ r.at \in Nat
  BY DEF Row
<1>3. \A i \in DOMAIN rows :
        rows'[i] = IF rows[i].at + Retention < now THEN [rows[i] EXCEPT !.gone = TRUE] ELSE rows[i]
  BY DEF Prune
<1>4. \A i \in DOMAIN rows : rows'[i].parent = rows[i].parent /\ rows[i].at \in Nat
  <2>1. TAKE i \in DOMAIN rows
  <2>2. rows[i] \in Row
    BY <1>1
  <2> QED  BY <1>2, <1>3, <2>2
<1>5. ASSUME NEW i \in DOMAIN rows, NEW j \in DOMAIN rows, rows'[i].gone, ~rows[i].gone, rows[j].at =< rows[i].at
      PROVE  rows'[j].gone
  <2>1. rows[i].at + Retention < now
    BY <1>3, <1>5
  <2>2. rows[j].at + Retention < now
    BY <1>1, <1>4, <1>5, <2>1
  <2>3. rows[j] \in Row
    BY <1>1
  <2> QED  BY <1>2, <1>3, <2>2, <2>3
<1> QED  BY <1>1, <1>4, <1>5 DEF Sends, Marks, Waits

LEMMA RestartSends ==
    ASSUME StoreOK, NEW c \in CorrelatorNames, Restart
    PROVE  /\ Sends(c) /\ correlator'[c] = Idle /\ linkFailed' = linkFailed
           /\ \A i : (correlator[c] # Idle /\ i = correlator[c].child) => Waits(c, i)'
<1>1. /\ rows' = rows /\ correlator'[c] = Idle /\ linkFailed' = linkFailed /\ c \in Subscribers /\ c # "push"
      /\ missed'[c] = missed[c] \cup {inbox[c][n] : n \in DOMAIN inbox[c]} \cup LostBy(c)
  BY SubscribersAre DEF Restart, StoreForgets, CorrelatorsForget, CorrelatorNames
<1>2. \A i : Waits(c, i) => Waits(c, i)'
  BY <1>1 DEF Waits
<1>3. correlator[c] # Idle => correlator[c].child \in missed'[c]
  BY <1>1 DEF LostBy
<1>4. \A i : (correlator[c] # Idle /\ i = correlator[c].child) => Waits(c, i)'
  BY <1>3 DEF Waits
<1>5. Sends(c)
  BY <1>1, <1>2 DEF Sends
<1> QED  BY <1>1, <1>4, <1>5

LEMMA ParentPosts ==
    ASSUME FeedInv, NEW d \in CorrelatorNames, ParentIngested(d)
    PROVE  LET ev == ParentFor(d, rows[correlator[d].child]) IN ev \in Events /\ Posts(ev)
<1>1. correlator[d].child \in DOMAIN rows /\ Concerns(d, rows[correlator[d].child])
  BY DEF FeedInv, CorrelatorsOK, ParentIngested
<1>2. rows[correlator[d].child].at =< now
  BY <1>1 DEF FeedInv, StoreOK, TableOK
<1> QED  BY <1>1, <1>2, ParentIsEvent DEF FeedInv, StoreOK, ParentIngested, Posts

CorrelatorIsIn(c) ==
    \/ Handle(c) \/ ParentIngested(c) \/ ParentFails(c) \/ LinksDone(c)
    \/ (\E child \in correlator[c].children : LinkFails(c, child))
    \/ c = "rollup" /\ ListFails
Links == \E d \in CorrelatorNames : \E child \in correlator[d].children : LinkChild(d, child)

\* What a step is to one of the correlators.
LEMMA CorrelatorSees ==
    ASSUME FeedInv, [Next]_vars, NEW c \in CorrelatorNames
    PROVE  \/ Sends(c) /\ correlator'[c] = correlator[c] /\ linkFailed \subseteq linkFailed'
           \/ Links \/ CorrelatorIsIn(c) \/ Restart
<1> StoreOK
  BY DEF FeedInv
<1>1. PollStep => Sends(c)
  BY PostsSend, SameSends DEF PollStep, Quiet, storeVars
<1>2. CASE AlertsDo
  BY <1>1, <1>2, AlertsMove DEF FeedInv, AlertsDo
<1>3. CASE ScansDo
  BY <1>1, <1>3, ScansMove DEF FeedInv, ScansDo
<1>4. CASE AuditDoes
  BY <1>1, <1>4, AuditMoves DEF FeedInv, AuditDoes
<1>5. CASE \E ev \in Reports : Reported(ev) /\ UNCHANGED <<pollerVars, correlator, linkFailed, pushVars>>
  <2>1. PICK ev \in Reports : Reported(ev) /\ UNCHANGED <<correlator, linkFailed>>
    BY <1>5
  <2>2. Event(ev.key, ev.severity, now) \in Events /\ Posts(Event(ev.key, ev.severity, now))
    BY <2>1, ReportIsEvent DEF Reported, Posts, StoreOK, TableOK
  <2> QED  BY <2>1, <2>2, PostsSend
<1>6. CASE \E d \in CorrelatorNames : Subscribe(d) /\ UNCHANGED <<pollerVars, correlator, linkFailed, pushVars>>
  BY <1>6, SameSends DEF Subscribe
<1>7. CASE \E d \in CorrelatorNames : CorrelatorStep(d) /\ UNCHANGED <<pollerVars, pushVars>>
  <2>1. PICK d \in CorrelatorNames : CorrelatorStep(d)
    BY <1>7
  <2>2. ASSUME d # c, Handle(d)
        PROVE  Sends(c) /\ correlator'[c] = correlator[c] /\ linkFailed' = linkFailed
    <3>1. PICK q : correlator' = [correlator EXCEPT ![d] = q]
      BY <2>2 DEF Handle
    <3>2. correlator'[c] = correlator[c]
      BY <2>2, <3>1 DEF FeedInv, CorrelatorsOK
    <3>3. rows' = rows /\ missed' = missed /\ linkFailed' = linkFailed /\ inbox'[c] = inbox[c]
      BY <2>2, SubscribersAre DEF Handle, Receives, StoreOK, InboxOK
    <3> QED  BY <3>2, <3>3, SameSends
  <2>3. ASSUME d # c, ParentIngested(d)
        PROVE  Sends(c) /\ correlator'[c] = correlator[c] /\ linkFailed' = linkFailed
    <3>1. Sends(c)
      BY <2>3, ParentPosts, PostsSend
    <3>2. correlator'[c] = correlator[c] /\ linkFailed' = linkFailed
      BY <2>3 DEF ParentIngested, FeedInv, CorrelatorsOK
    <3> QED  BY <3>1, <3>2
  <2>4. ASSUME d # c, ParentFails(d)
        PROVE  Sends(c) /\ correlator'[c] = correlator[c] /\ linkFailed' = linkFailed
    BY <2>4, SameSends, SubscribersAre DEF ParentFails, Loses, FeedInv, CorrelatorsOK, StoreOK, InboxOK
  <2>5. ASSUME d # c, LinksDone(d)
        PROVE  Sends(c) /\ correlator'[c] = correlator[c] /\ linkFailed' = linkFailed
    BY <2>5, SameSends DEF LinksDone, storeVars, FeedInv, CorrelatorsOK
  <2>6. ASSUME d # c, NEW child \in correlator[d].children, LinkFails(d, child)
        PROVE  Sends(c) /\ correlator'[c] = correlator[c] /\ linkFailed \subseteq linkFailed'
    BY <2>6, SameSends DEF LinkFails, storeVars, FeedInv, CorrelatorsOK
  <2>7. ASSUME c # "rollup", ListFails
        PROVE  Sends(c) /\ correlator'[c] = correlator[c] /\ linkFailed' = linkFailed
    <3>1. rows' = rows /\ inbox'[c] = inbox[c] /\ missed'[c] = missed[c] /\ UNCHANGED <<correlator, linkFailed>>
      BY <2>7, SubscribersAre DEF ListFails, Receives, Loses, StoreOK, InboxOK, CorrelatorNames
    <3> QED  BY <3>1, SameSends
  <2> QED  BY <2>1, <2>2, <2>3, <2>4, <2>5, <2>6, <2>7 DEF CorrelatorStep, CorrelatorIsIn, Links
<1>8. CASE NotifierStep /\ UNCHANGED <<pollerVars, correlator, linkFailed>>
  <2>1. c # "push" /\ c \in Subscribers /\ "push" \in Subscribers
    BY SubscribersAre DEF CorrelatorNames
  <2>2. rows' = rows /\ inbox'[c] = inbox[c] /\ missed'[c] = missed[c]
    <3>1. ASSUME NotifierReceives
          PROVE  rows' = rows /\ inbox'[c] = inbox[c] /\ missed'[c] = missed[c]
      BY <2>1, <3>1 DEF NotifierReceives, Receives, Loses, StoreOK, InboxOK
    <3>2. ASSUME NEW why \in {"refused", "down", "answer lost"}, SendFails(why)
          PROVE  rows' = rows /\ inbox'[c] = inbox[c] /\ missed'[c] = missed[c]
      BY <2>1, <3>2 DEF SendFails, GivesUp, Loses, StoreOK, InboxOK
    <3>3. (PruneDedupe \/ Delivered \/ Records \/ RecordFails) => UNCHANGED storeVars
      BY DEF PruneDedupe, Delivered, Records, RecordFails
    <3>4. \A send \in BOOLEAN : Takes(send) => UNCHANGED storeVars
      BY DEF Takes
    <3>5. \A p \in PrefChoices, withQuiet, written \in BOOLEAN : SetPrefs(p, withQuiet, written) => UNCHANGED storeVars
      BY DEF SetPrefs
    <3>6. \A logRead \in BOOLEAN : NotifierStarts(logRead) => UNCHANGED <<rows, inbox, missed>>
      BY DEF NotifierStarts, Subscribe
    <3> QED  BY <1>8, <3>1, <3>2, <3>3, <3>4, <3>5, <3>6 DEF NotifierStep, CourierStep, storeVars
  <2> QED  BY <1>8, <2>2, SameSends
<1>9. CASE FromTheApp /\ UNCHANGED <<pollerVars, correlator, linkFailed, pushVars>>
  BY <1>9, AcksSend
<1>10. CASE Prunes
  BY <1>10, PruningSends DEF Prunes
<1>11. CASE Passes
  BY <1>11, SameSends DEF Passes, Tick, storeVars
<1>12. CASE UNCHANGED vars
  BY <1>12, SameSends DEF vars, storeVars
<1> QED  BY <1>2, <1>3, <1>4, <1>5, <1>6, <1>7, <1>8, <1>9, <1>10, <1>11, <1>12, PollersAct DEF Next

\* What it is to have a child linked right, if its link was written, and what
\* a correlator that is about to link one knows.
LinkedTo(c, i) ==
    \/ i \in linkFailed
    \/ rows[i].parent \in DOMAIN rows /\ rows[rows[i].parent].key = ParentFor(c, rows[i]).key

Settled(c) ==
    \A i \in Kept : Concerns(c, rows[i]) => Waits(c, i) \/ correlator[c].child = i \/ LinkedTo(c, i)

KnowsItsParent(c) ==
    /\ correlator[c].step # "idle" => correlator[c].children \subseteq {correlator[c].child}
    /\ correlator[c].step = "parent" => correlator[c].children = {correlator[c].child}
    /\ correlator[c].step = "link" =>
          /\ rows[correlator[c].parent].key = ParentFor(c, rows[correlator[c].child]).key
          /\ \A i \in Kept : i = correlator[c].child => i \in correlator[c].children \/ LinkedTo(c, i)

RollupsChildren ==
    correlator["rollup"].step # "idle" => \A i \in correlator["rollup"].children : OfSnapshot(rows[i])

Single == {"disk", "scrub"}

LEMMA ParentIsOfTheKey ==
    ASSUME NEW c \in Single, NEW r, NEW q, q.key = r.key
    PROVE  ParentFor(c, q).key = ParentFor(c, r).key
BY DEF Single, ParentFor, DiskParent, ScrubParent, Event

LEMMA ConcernsAreApart ==
    ASSUME NEW c \in CorrelatorNames, NEW d \in CorrelatorNames, NEW r, Concerns(c, r), Concerns(d, r)
    PROVE  c = d
BY DEF CorrelatorNames, Concerns, OfDisk, OfScrub, OfSnapshot

LEMMA LinkedStays ==
    ASSUME NEW c \in Single, Sends(c), linkFailed \subseteq linkFailed', NEW i \in DOMAIN rows, LinkedTo(c, i)
    PROVE  LinkedTo(c, i)'
<1>1. CASE i \in linkFailed
  BY <1>1 DEF LinkedTo
<1>2. CASE i \notin linkFailed
  <2>1. /\ rows'[i].key = rows[i].key /\ rows'[i].parent = rows[i].parent /\ rows[i].parent \in DOMAIN rows
        /\ rows[i].parent \in DOMAIN rows' /\ rows'[rows[i].parent].key = rows[rows[i].parent].key
        /\ rows[rows[i].parent].key = ParentFor(c, rows[i]).key
    BY <1>2 DEF Sends, LinkedTo
  <2>2. ParentFor(c, rows'[i]).key = ParentFor(c, rows[i]).key
    BY <2>1, ParentIsOfTheKey
  <2> QED  BY <2>1, <2>2 DEF LinkedTo
<1> QED  BY <1>1, <1>2

LEMMA SettledStays ==
    ASSUME FeedInv, NEW c \in Single, Settled(c), Sends(c), linkFailed \subseteq linkFailed',
           \A i \in Kept : (i = correlator[c].child /\ Concerns(c, rows[i]))
               => Waits(c, i)' \/ correlator'[c].child = i \/ LinkedTo(c, i)
    PROVE  Settled(c)'
<1> SUFFICES ASSUME NEW i \in Kept', Concerns(c, rows'[i])
             PROVE  Waits(c, i)' \/ correlator'[c].child = i \/ LinkedTo(c, i)'
  <2>1. Settled(c)' <=> \A i \in Kept' : Concerns(c, rows'[i]) => Waits(c, i)' \/ correlator'[c].child = i \/ LinkedTo(c, i)'
    BY DEF Settled
  <2> QED  BY <2>1
<1> c \in CorrelatorNames
  BY DEF Single, CorrelatorNames
<1>1. CASE i \notin DOMAIN rows
  <2>1. i \in DOMAIN rows'
    BY DEF Kept
  <2> QED  BY <1>1, <2>1 DEF Sends
<1>2. CASE i \in DOMAIN rows
  <2>1. i \in Kept /\ rows'[i].key = rows[i].key
    BY <1>2 DEF Sends, Kept
  <2>2. Concerns(c, rows[i])
    BY <2>1, ConcernIsOfTheKey
  <2>3. Waits(c, i) => Waits(c, i)'
    BY DEF Sends
  <2>4. LinkedTo(c, i) => LinkedTo(c, i)'
    BY <1>2, LinkedStays
  <2> QED  BY <2>1, <2>2, <2>3, <2>4 DEF Settled
<1> QED  BY <1>1, <1>2

LEMMA KnowsStays ==
    ASSUME FeedInv, NEW c \in Single, KnowsItsParent(c), Sends(c), linkFailed \subseteq linkFailed',
           correlator'[c] = correlator[c]
    PROVE  KnowsItsParent(c)'
<1> DEFINE k == correlator[c]
<1> c \in CorrelatorNames
  BY DEF Single, CorrelatorNames
<1>1. ASSUME k.step = "link"
      PROVE  rows'[k.parent].key = ParentFor(c, rows'[k.child]).key
  <2>1. k.parent \in DOMAIN rows /\ k.child \in DOMAIN rows
    BY <1>1 DEF FeedInv, CorrelatorsOK
  <2>2. rows'[k.parent].key = rows[k.parent].key /\ rows'[k.child].key = rows[k.child].key
    BY <2>1 DEF Sends
  <2>3. ParentFor(c, rows'[k.child]).key = ParentFor(c, rows[k.child]).key
    BY <2>2, ParentIsOfTheKey
  <2> QED  BY <1>1, <2>2, <2>3 DEF KnowsItsParent
<1>2. ASSUME k.step = "link", NEW i \in Kept', i = k.child
      PROVE  i \in k.children \/ LinkedTo(c, i)'
  <2>1. i \in DOMAIN rows
    BY <1>2 DEF FeedInv, CorrelatorsOK
  <2>2. i \in Kept
    BY <1>2, <2>1 DEF Sends, Kept
  <2>3. i \in k.children \/ LinkedTo(c, i)
    BY <1>2, <2>2 DEF KnowsItsParent
  <2> QED  BY <2>1, <2>3, LinkedStays
<1> QED  BY <1>1, <1>2 DEF KnowsItsParent

\* One link made.
LEMMA LinkRows ==
    ASSUME FeedInv, NEW d \in CorrelatorNames, NEW child \in correlator[d].children, LinkChild(d, child)
    PROVE  /\ child \in DOMAIN rows /\ correlator[d].step = "link" /\ correlator[d].parent \in DOMAIN rows
           /\ DOMAIN rows' = DOMAIN rows /\ Kept' = Kept /\ UNCHANGED <<now, inbox, missed>>
           /\ \A i \in DOMAIN rows : rows'[i].key = rows[i].key /\ rows'[i].at = rows[i].at /\ rows'[i].gone = rows[i].gone
           /\ \A i \in DOMAIN rows \ {child} : rows'[i].parent = rows[i].parent
           /\ ~Unlinked(d, child) => rows' = rows
           /\ (child \in Kept /\ Unlinked(d, child)) => rows'[child].parent = correlator[d].parent
           /\ correlator'[d].step = "link" /\ correlator'[d].child = correlator[d].child
           /\ correlator'[d].parent = correlator[d].parent /\ correlator'[d].children = correlator[d].children \ {child}
           /\ \A e \in CorrelatorNames \ {d} : correlator'[e] = correlator[e]
           /\ linkFailed' = linkFailed \ {child}
<1>1. /\ correlator[d].step = "link" /\ linkFailed' = linkFailed \ {child}
      /\ rows' = IF Unlinked(d, child) THEN Link(child, correlator[d].parent) ELSE rows
      /\ correlator' = [correlator EXCEPT ![d].children = @ \ {child}]
      /\ UNCHANGED <<now, inbox, missed>>
  BY DEF LinkChild
<1>2. child \in DOMAIN rows /\ correlator[d].parent \in DOMAIN rows
  BY <1>1 DEF FeedInv, CorrelatorsOK
<1>3. /\ correlator'[d].step = "link" /\ correlator'[d].child = correlator[d].child
      /\ correlator'[d].parent = correlator[d].parent /\ correlator'[d].children = correlator[d].children \ {child}
      /\ \A e \in CorrelatorNames \ {d} : correlator'[e] = correlator[e]
  BY <1>1 DEF FeedInv, CorrelatorsOK
<1>4. rows \in Seq(Row)
  BY DEF FeedInv, StoreOK, TableOK
<1>5. CASE child \in Kept /\ Unlinked(d, child)
  <2> DEFINE r == [rows[child] EXCEPT !.parent = correlator[d].parent]
  <2>1. rows[child] \in Row
    BY <1>2, <1>4
  <2>2. r.key = rows[child].key /\ r.at = rows[child].at /\ r.gone = rows[child].gone /\ r.parent = correlator[d].parent
    BY <2>1 DEF Row
  <2>3. rows' = [rows EXCEPT ![child] = r]
    BY <1>1, <1>5 DEF Link
  <2> HIDE DEF r
  <2>4. /\ DOMAIN rows' = DOMAIN rows
        /\ \A i \in DOMAIN rows : rows'[i].key = rows[i].key /\ rows'[i].at = rows[i].at /\ rows'[i].gone = rows[i].gone
        /\ \A i \in DOMAIN rows \ {child} : rows'[i].parent = rows[i].parent
        /\ rows'[child].parent = correlator[d].parent
    BY <1>2, <1>4, <2>2, <2>3
  <2> QED  BY <1>1, <1>2, <1>3, <1>5, <2>4 DEF Kept
<1>6. CASE ~(child \in Kept /\ Unlinked(d, child))
  <2>1. rows' = rows
    BY <1>1, <1>6 DEF Link
  <2> QED  BY <1>1, <1>2, <1>3, <1>6, <2>1 DEF Kept
<1> QED  BY <1>5, <1>6

\* What waits once the first is read is what waited, but for that one.
LEMMA ReadingLeaves ==
    ASSUME FeedInv, NEW c \in CorrelatorNames, Receives(c), missed' = missed
    PROVE  /\ \A i : Waits(c, i) => Waits(c, i)' \/ i = Received(c)
           /\ Received(c) \in DOMAIN rows
<1>1. c \in Subscribers /\ inbox[c] \in Seq(Ids) /\ inbox[c] # <<>> /\ inbox'[c] = Tail(inbox[c])
  BY SubscribersAre DEF Receives, FeedInv, StoreOK, InboxOK
<1>2. ASSUME NEW n \in DOMAIN inbox[c], inbox[c][n] # Head(inbox[c])
      PROVE  n - 1 \in DOMAIN inbox'[c] /\ inbox'[c][n - 1] = inbox[c][n]
  BY <1>1, <1>2
<1>3. \A i : (\E n \in DOMAIN inbox[c] : inbox[c][n] = i) /\ i # Head(inbox[c]) => \E n \in DOMAIN inbox'[c] : inbox'[c][n] = i
  BY <1>2
<1>4. Received(c) \in DOMAIN rows
  BY <1>1 DEF Received, FeedInv, StoreOK, InboxOK
<1>5. \A i : Waits(c, i) => i \in missed'[c] \/ (\E n \in DOMAIN inbox'[c] : inbox'[c][n] = i) \/ i = Received(c)
  BY <1>3 DEF Waits, Received
<1> QED  BY <1>4, <1>5 DEF Waits

LEMMA ChildMoves ==
    ASSUME FeedInv, [Next]_vars, RollupsChildren, NEW c \in Single,
           \A d \in Single : Settled(d) /\ KnowsItsParent(d)
    PROVE  Settled(c)' /\ KnowsItsParent(c)'
<1> DEFINE k == correlator[c]
<1> c \in CorrelatorNames /\ c # "rollup"
  BY DEF Single, CorrelatorNames
<1>a. Idle.step = "idle" /\ Idle.child = NoRow /\ Idle.children = {} /\ \A i \in DOMAIN rows : i # NoRow
  BY RowFields DEF Idle, FeedInv, StoreOK
<1>b. correlator'[c] = Idle => KnowsItsParent(c)'
  BY <1>a DEF KnowsItsParent
<1>1. CASE Sends(c) /\ correlator'[c] = correlator[c] /\ linkFailed \subseteq linkFailed'
  <2>1. Settled(c)'
    BY <1>1, SettledStays
  <2> QED  BY <1>1, <2>1, KnowsStays
<1>2. ASSUME NEW d \in CorrelatorNames, NEW child \in correlator[d].children, LinkChild(d, child)
      PROVE  Settled(c)' /\ KnowsItsParent(c)'
  <2>1. /\ child \in DOMAIN rows /\ correlator[d].step = "link" /\ correlator[d].parent \in DOMAIN rows
        /\ DOMAIN rows' = DOMAIN rows /\ Kept' = Kept /\ UNCHANGED <<now, inbox, missed>>
        /\ \A i \in DOMAIN rows : rows'[i].key = rows[i].key
        /\ \A i \in DOMAIN rows \ {child} : rows'[i].parent = rows[i].parent
        /\ (child \in Kept /\ Unlinked(d, child)) => rows'[child].parent = correlator[d].parent
        /\ correlator'[d].step = "link" /\ correlator'[d].child = correlator[d].child
        /\ correlator'[d].parent = correlator[d].parent /\ correlator'[d].children = correlator[d].children \ {child}
        /\ \A e \in CorrelatorNames \ {d} : correlator'[e] = correlator[e]
        /\ linkFailed' = linkFailed \ {child}
    BY <1>2, LinkRows
  <2>2. Concerns(d, rows[child])
    <3>1. CASE d = "rollup"
      BY <1>2, <2>1, <3>1 DEF RollupsChildren, Concerns
    <3>2. CASE d # "rollup"
      <4>1. d \in Single
        BY <3>2 DEF Single, CorrelatorNames
      <4>2. child = correlator[d].child
        BY <1>2, <2>1, <4>1 DEF KnowsItsParent
      <4> QED  BY <2>1, <4>2 DEF FeedInv, CorrelatorsOK
    <3> QED  BY <3>1, <3>2
  <2>3. ASSUME NEW i \in DOMAIN rows, LinkedTo(c, i), i # child
        PROVE  LinkedTo(c, i)'
    <3>1. rows'[i].parent = rows[i].parent /\ rows'[i].key = rows[i].key
      BY <2>1, <2>3
    <3>2. ParentFor(c, rows'[i]).key = ParentFor(c, rows[i]).key
      BY <3>1, ParentIsOfTheKey
    <3>3. CASE i \in linkFailed
      BY <2>1, <2>3, <3>3 DEF LinkedTo
    <3>4. CASE i \notin linkFailed
      BY <2>1, <2>3, <3>1, <3>2, <3>4 DEF LinkedTo
    <3> QED  BY <3>3, <3>4
  <2>4. ASSUME c = d, NEW i \in Kept, i = child
        PROVE  LinkedTo(c, i)'
    <3>1. child = k.child
      BY <1>2, <2>1, <2>4 DEF KnowsItsParent
    <3>2. Unlinked(d, child) /\ rows'[i].parent = k.parent
      BY <2>1, <2>4 DEF Unlinked
    <3>3. rows[k.parent].key = ParentFor(c, rows[i]).key
      BY <2>1, <2>4, <3>1 DEF KnowsItsParent
    <3>4. ParentFor(c, rows'[i]).key = ParentFor(c, rows[i]).key
      BY <2>1, <2>4, ParentIsOfTheKey
    <3>5. rows'[k.parent].key = rows[k.parent].key /\ k.parent \in DOMAIN rows'
      BY <2>1, <2>4
    <3> QED  BY <3>2, <3>3, <3>4, <3>5 DEF LinkedTo
  <2>5. ASSUME c # d, NEW i \in DOMAIN rows, Concerns(c, rows[i])
        PROVE  i # child
    BY <2>2, <2>5, ConcernsAreApart
  <2>6. correlator'[c].child = k.child /\ correlator'[c].step = k.step /\ correlator'[c].parent = k.parent
    BY <2>1
  <2>7. \A i : Waits(c, i)' <=> Waits(c, i)
    BY <2>1 DEF Waits
  <2>8. ASSUME NEW i \in Kept, Concerns(c, rows'[i])
        PROVE  Waits(c, i)' \/ correlator'[c].child = i \/ LinkedTo(c, i)'
    <3>1. i \in DOMAIN rows /\ Concerns(c, rows[i])
      BY <2>1, <2>8, ConcernIsOfTheKey DEF Kept
    <3>2. Waits(c, i) \/ k.child = i \/ LinkedTo(c, i)
      BY <2>8, <3>1 DEF Settled
    <3>3. CASE LinkedTo(c, i)
      BY <2>3, <2>4, <2>5, <2>8, <3>1, <3>3
    <3> QED  BY <2>6, <2>7, <3>2, <3>3
  <2>9. Settled(c)'
    BY <2>1, <2>8 DEF Settled
  <2>10. KnowsItsParent(c)'
    <3>1. ASSUME k.step = "link"
          PROVE  rows'[k.parent].key = ParentFor(c, rows'[k.child]).key
      <4>1. k.parent \in DOMAIN rows /\ k.child \in DOMAIN rows
        BY <3>1 DEF FeedInv, CorrelatorsOK
      <4>2. ParentFor(c, rows'[k.child]).key = ParentFor(c, rows[k.child]).key
        BY <2>1, <4>1, ParentIsOfTheKey
      <4> QED  BY <2>1, <3>1, <4>1, <4>2 DEF KnowsItsParent
    <3>2. ASSUME k.step = "link", NEW i \in Kept, i = k.child
          PROVE  i \in correlator'[c].children \/ LinkedTo(c, i)'
      <4>1. i \in DOMAIN rows /\ Concerns(c, rows[i])
        BY <3>2 DEF FeedInv, CorrelatorsOK
      <4>2. i \in k.children \/ LinkedTo(c, i)
        BY <3>2 DEF KnowsItsParent
      <4>3. CASE c # d
        BY <2>1, <2>3, <2>5, <4>1, <4>2, <4>3
      <4>4. CASE c = d
        BY <2>1, <2>3, <2>4, <3>2, <4>1, <4>2, <4>4
      <4> QED  BY <4>3, <4>4
    <3>3. correlator'[c].children \subseteq k.children /\ (k.step = "parent" => correlator'[c].children = k.children)
      BY <2>1
    <3> QED  BY <2>1, <2>6, <3>1, <3>2, <3>3 DEF KnowsItsParent
  <2> QED  BY <2>9, <2>10
<1>3. CASE Handle(c)
  <2> DEFINE child == Received(c)
  <2>1. k = Idle /\ Receives(c) /\ UNCHANGED <<now, rows, subs, missed, linkFailed>>
    BY <1>3 DEF Handle, Free
  <2>2. Enough(c, {child}) /\ ChildrenOf(c, child) = {{child}}
    BY DEF Enough, ChildrenOf
  <2>a. correlator' = [correlator EXCEPT ![c] =
              IF Concerns(c, rows[child]) /\ Enough(c, {child})
              THEN [step |-> "parent", child |-> child, children |-> {child}, parent |-> NoRow] ELSE Idle]
    BY <1>3, <2>2 DEF Handle
  <2>3. /\ Concerns(c, rows[child]) =>
              correlator'[c] = [step |-> "parent", child |-> child, children |-> {child}, parent |-> NoRow]
        /\ ~Concerns(c, rows[child]) => correlator'[c] = Idle
    BY <2>2, <2>a DEF FeedInv, CorrelatorsOK
  <2> HIDE DEF child
  <2>4. \A i : Waits(c, i) => Waits(c, i)' \/ i = child
    BY <2>1, ReadingLeaves DEF child
  <2>5. \A i : LinkedTo(c, i)' <=> LinkedTo(c, i)
    BY <2>1 DEF LinkedTo
  <2>6. Kept' = Kept
    BY <2>1 DEF Kept
  <2>7. ASSUME NEW i \in Kept, Concerns(c, rows[i])
        PROVE  Waits(c, i)' \/ correlator'[c].child = i \/ LinkedTo(c, i)'
    <3>1. i # NoRow
      BY <1>a DEF Kept
    <3>2. Waits(c, i) \/ LinkedTo(c, i)
      BY <1>a, <2>1, <2>7, <3>1 DEF Settled
    <3>3. i = child => correlator'[c].child = i
      BY <2>3, <2>7
    <3> QED  BY <2>4, <2>5, <3>2, <3>3
  <2>8. Settled(c)'
    BY <2>1, <2>6, <2>7 DEF Settled
  <2>9. KnowsItsParent(c)'
    BY <1>b, <2>3 DEF KnowsItsParent
  <2> QED  BY <2>8, <2>9
<1>4. CASE ParentIngested(c)
  <2> DEFINE ev == ParentFor(c, rows[k.child])  id == StoredAs(ev)
  <2>1. ev \in Events /\ Posts(ev)
    BY <1>4, ParentPosts
  <2>2. Sends(c) /\ rows'[id].key = ev.key
    BY <2>1, PostsSend, IngestTable DEF FeedInv, StoreOK, Posts
  <2>3. /\ k.step = "parent" /\ correlator' = [correlator EXCEPT ![c].step = "link", ![c].parent = id]
        /\ linkFailed' = linkFailed
    BY <1>4 DEF ParentIngested
  <2> HIDE DEF ev, id
  <2>4. /\ correlator'[c].step = "link" /\ correlator'[c].parent = id /\ correlator'[c].child = k.child
        /\ correlator'[c].children = k.children
    BY <2>3 DEF FeedInv, CorrelatorsOK
  <2>5. Settled(c)'
    BY <2>2, <2>3, <2>4, SettledStays
  <2>6. ParentFor(c, rows'[k.child]).key = ev.key
    <3>1. k.child \in DOMAIN rows
      BY <2>3 DEF FeedInv, CorrelatorsOK
    <3> QED  BY <2>2, <3>1, ParentIsOfTheKey DEF Sends, ev
  <2>7. k.children = {k.child}
    BY <2>3 DEF KnowsItsParent
  <2>8. KnowsItsParent(c)'
    BY <2>2, <2>4, <2>6, <2>7 DEF KnowsItsParent
  <2> QED  BY <2>5, <2>8
<1>5. CASE ParentFails(c)
  <2>1. /\ missed' = [missed EXCEPT ![c] = @ \cup {k.child}] /\ correlator' = [correlator EXCEPT ![c] = Idle]
        /\ UNCHANGED <<rows, inbox, linkFailed>>
    BY <1>5 DEF ParentFails, Loses
  <2>2. correlator'[c] = Idle /\ missed'[c] = missed[c] \cup {k.child}
    BY <2>1, SubscribersAre DEF FeedInv, CorrelatorsOK, StoreOK, InboxOK
  <2>3. \A i : Waits(c, i) \/ i = k.child => Waits(c, i)'
    BY <2>1, <2>2 DEF Waits
  <2>4. Sends(c)
    BY <2>1, <2>3 DEF Sends
  <2> QED  BY <1>b, <2>1, <2>2, <2>3, <2>4, SettledStays
<1>6. CASE LinksDone(c)
  <2>1. k.step = "link" /\ k.children = {} /\ correlator'[c] = Idle /\ UNCHANGED <<storeVars, linkFailed>>
    BY <1>6 DEF LinksDone, FeedInv, CorrelatorsOK
  <2>2. Sends(c)
    BY <2>1, SameSends DEF storeVars
  <2>3. \A i \in Kept : i = k.child => LinkedTo(c, i)
    BY <2>1 DEF KnowsItsParent
  <2> QED  BY <1>b, <2>1, <2>2, <2>3, SettledStays
<1>7. CASE Restart
  <2>1. /\ Sends(c) /\ correlator'[c] = Idle /\ linkFailed' = linkFailed
        /\ \A i : (correlator[c] # Idle /\ i = correlator[c].child) => Waits(c, i)'
    BY <1>7, RestartSends DEF FeedInv
  <2>2. \A i \in Kept : i = k.child => Waits(c, i)'
    BY <1>a, <2>1 DEF Kept
  <2> QED  BY <1>b, <2>1, <2>2, SettledStays
<1>8. ASSUME NEW child \in k.children, LinkFails(c, child)
      PROVE  Settled(c)' /\ KnowsItsParent(c)'
  <2>1. /\ k.step = "link" /\ UNCHANGED storeVars /\ linkFailed' = linkFailed \cup {child}
        /\ correlator' = [correlator EXCEPT ![c].children = @ \ {child}]
    BY <1>8 DEF LinkFails
  <2>2. /\ correlator'[c].step = "link" /\ correlator'[c].child = k.child /\ correlator'[c].parent = k.parent
        /\ correlator'[c].children = k.children \ {child}
    BY <2>1 DEF FeedInv, CorrelatorsOK
  <2>3. Sends(c) /\ rows' = rows /\ Kept' = Kept
    BY <2>1, SameSends DEF storeVars, Kept
  <2>4. Settled(c)'
    BY <2>1, <2>2, <2>3, SettledStays
  <2>5. ASSUME NEW i \in Kept, i = k.child
        PROVE  i \in correlator'[c].children \/ LinkedTo(c, i)'
    <3>1. i \in k.children \/ LinkedTo(c, i)
      BY <2>1, <2>5 DEF KnowsItsParent
    <3>2. LinkedTo(c, i) => LinkedTo(c, i)'
      BY <2>1, <2>3, LinkedStays DEF Kept
    <3>3. i = child => LinkedTo(c, i)'
      BY <2>1 DEF LinkedTo
    <3> QED  BY <2>2, <3>1, <3>2, <3>3
  <2> QED  BY <2>1, <2>2, <2>3, <2>4, <2>5 DEF KnowsItsParent
<1> QED  BY <1>1, <1>2, <1>3, <1>4, <1>5, <1>6, <1>7, <1>8, CorrelatorSees DEF CorrelatorIsIn, Links
-----------------------------------------------------------------------------
(***************************************************************************)
(* Snapshot runs and their roll-up.                                        *)
(***************************************************************************)
Runs == {i \in Kept : OfSnapshot(rows[i])}
IsNewest(n) == n \in Runs /\ \A j \in Runs : j =< n
Parented(i) == i \in linkFailed \/ rows[i].parent # NoRow

\* Rows of snapshot runs are in the order of their times.
RunsInOrder ==
    \A i, j \in DOMAIN rows :
        (OfSnapshot(rows[i]) /\ OfSnapshot(rows[j]) /\ i =< j) => rows[i].at =< rows[j].at

\* Once the newest run doesn't wait any more, its recent ones are too few,
\* are in hand, or have parents.
Whole(n) ==
    LET recent == Recent(rows[n].at) IN
    /\ (~Waits("rollup", n) /\ correlator["rollup"].child # n) =>
          (Cardinality(recent) >= Threshold => \A i \in recent : Parented(i))
    /\ correlator["rollup"].child = n => \A i \in recent : i \in correlator["rollup"].children \/ Parented(i)

NewestIsWhole == \A n \in Runs : IsNewest(n) => Whole(n)

RollupInv == RollupsChildren /\ RunsInOrder /\ NewestIsWhole

LEMMA SnapshotIsOfTheKey ==
    ASSUME NEW r, NEW q, q.key = r.key
    PROVE  OfSnapshot(q) <=> OfSnapshot(r)
BY DEF OfSnapshot

LEMMA JobsAreFinite ==
    ASSUME StoreOK, NEW at
    PROVE  IsFiniteSet(JobsSince(at))
<1>1. DOMAIN rows = 1..Len(rows) /\ Len(rows) \in Nat
  BY DEF StoreOK, TableOK
<1>2. IsFiniteSet(DOMAIN rows)
  BY <1>1, FS_Interval
<1>3. JobsSince(at) \subseteq DOMAIN rows
  BY DEF JobsSince, Kept
<1> QED  BY <1>2, <1>3, FS_Subset

LEMMA RecentIsFinite ==
    ASSUME StoreOK, NEW at
    PROVE  IsFiniteSet(Recent(at))
<1>1. Recent(at) \subseteq JobsSince(at)
  BY DEF Recent
<1> QED  BY <1>1, JobsAreFinite, FS_Subset

\* A list of the jobs since a time has every snapshot run that is recent then.
LEMMA RecentAreListed ==
    ASSUME StoreOK, NEW at, NEW list \in Listings(at)
    PROVE  Recent(at) \subseteq Matches(list) /\ IsFiniteSet(Matches(list))
<1>1. /\ list \subseteq JobsSince(at) /\ (list = JobsSince(at) \/ Cardinality(list) = ListLimit)
      /\ \A i \in list, j \in JobsSince(at) \ list : rows[j].at =< rows[i].at
  BY DEF Listings
<1>2. ASSUME NEW i \in Recent(at), i \notin list
      PROVE  FALSE
  <2> DEFINE newer == {j \in JobsSince(at) \ {i} : rows[j].at >= rows[i].at}
  <2>1. i \in JobsSince(at) /\ Cardinality(newer) < ListLimit
    BY <1>2 DEF Recent
  <2>2. \A j \in JobsSince(at) : rows[j].at \in Nat
    BY RowFields DEF JobsSince, Kept, StoreOK
  <2>3. list \subseteq newer
    BY <1>1, <1>2, <2>1, <2>2
  <2>4. newer \subseteq JobsSince(at)
    OBVIOUS
  <2> HIDE DEF newer
  <2>5. Cardinality(list) =< Cardinality(newer) /\ IsFiniteSet(newer) /\ IsFiniteSet(list)
    BY <2>3, <2>4, JobsAreFinite, FS_Subset
  <2>6. Cardinality(list) \in Nat /\ Cardinality(newer) \in Nat /\ ListLimit \in Nat
    BY <2>5, FS_CardinalityType, CorrelatorsConstants
  <2> QED  BY <1>1, <1>2, <2>1, <2>5, <2>6
<1>3. \A i \in Recent(at) : OfSnapshot(rows[i])
  BY DEF Recent
<1>4. Matches(list) \subseteq JobsSince(at)
  BY <1>1 DEF Matches
<1>5. IsFiniteSet(Matches(list))
  BY <1>4, JobsAreFinite, FS_Subset
<1> QED  BY <1>2, <1>3, <1>5 DEF Matches

\* What is pruned is older than what stays, so that among the rows there were
\* no other run becomes recent.
LEMMA RecentShrinks ==
    ASSUME FeedInv, StoreOK', Sends("rollup"), NEW at, NEW i \in DOMAIN rows, i \in Recent(at)'
    PROVE  i \in Recent(at)
<1> DEFINE newer == {j \in JobsSince(at) \ {i} : rows[j].at >= rows[i].at}
           newer1 == {j \in JobsSince(at)' \ {i} : rows'[j].at >= rows'[i].at}
<1>1. i \in JobsSince(at)' /\ OfSnapshot(rows'[i]) /\ Cardinality(newer1) < ListLimit
  BY DEF Recent
<1>2. \A j \in DOMAIN rows : /\ rows'[j].key = rows[j].key /\ rows'[j].at = rows[j].at /\ j \in DOMAIN rows'
                             /\ rows[j].gone => rows'[j].gone
  BY DEF Sends
<1>3. i \in JobsSince(at) /\ OfSnapshot(rows[i]) /\ ~rows'[i].gone
  BY <1>1, <1>2, SnapshotIsOfTheKey DEF JobsSince, Kept
<1>4. ASSUME NEW j \in newer
      PROVE  j \in newer1
  <2>1. j \in DOMAIN rows /\ ~rows[j].gone /\ KindOf(rows[j].key) = "job" /\ at < rows[j].at + Lookback
        /\ j # i /\ rows[j].at >= rows[i].at
    BY DEF JobsSince, Kept
  <2>2. rows[i].at \in Nat /\ rows[j].at \in Nat
    BY <2>1, RowFields DEF FeedInv, StoreOK
  <2>3. ~rows'[j].gone
    BY <1>3, <2>1, <2>2 DEF Sends
  <2> QED  BY <1>2, <2>1, <2>3 DEF JobsSince, Kept
<1>5. IsFiniteSet(newer1)
  <2>1. IsFiniteSet(JobsSince(at)')
    <3>1. DOMAIN rows' = 1..Len(rows') /\ Len(rows') \in Nat
      BY DEF StoreOK, TableOK
    <3>2. IsFiniteSet(DOMAIN rows')
      BY <3>1, FS_Interval
    <3>3. JobsSince(at)' \subseteq DOMAIN rows'
      BY DEF JobsSince, Kept
    <3> QED  BY <3>2, <3>3, FS_Subset
  <2>2. newer1 \subseteq JobsSince(at)'
    OBVIOUS
  <2> QED  BY <2>1, <2>2, FS_Subset
<1> HIDE DEF newer, newer1
<1>6. newer \subseteq newer1
  BY <1>4
<1>7. Cardinality(newer) =< Cardinality(newer1) /\ IsFiniteSet(newer)
  BY <1>5, <1>6, FS_Subset
<1>8. Cardinality(newer) \in Nat /\ Cardinality(newer1) \in Nat /\ ListLimit \in Nat
  BY <1>5, <1>7, FS_CardinalityType, CorrelatorsConstants
<1>9. Cardinality(newer) < ListLimit
  BY <1>1, <1>7, <1>8
<1> QED  BY <1>3, <1>9 DEF Recent, newer

LEMMA OrderStays ==
    ASSUME FeedInv, StoreOK', RunsInOrder, Sends("rollup")
    PROVE  RunsInOrder'
<1> SUFFICES ASSUME NEW i \in DOMAIN rows', NEW j \in DOMAIN rows', OfSnapshot(rows'[i]), OfSnapshot(rows'[j]), i =< j
             PROVE  rows'[i].at =< rows'[j].at
  BY DEF RunsInOrder
<1>0. DOMAIN rows \subseteq Nat /\ DOMAIN rows' \subseteq Nat /\ now \in Nat
  BY DEF FeedInv, StoreOK, TableOK
<1>1. CASE j \in DOMAIN rows
  <2>1. i \in DOMAIN rows
    BY <1>0, <1>1 DEF Sends
  <2>2. rows'[i].key = rows[i].key /\ rows'[j].key = rows[j].key /\ rows'[i].at = rows[i].at /\ rows'[j].at = rows[j].at
    BY <1>1, <2>1 DEF Sends
  <2>3. OfSnapshot(rows[i]) /\ OfSnapshot(rows[j])
    BY <2>2, SnapshotIsOfTheKey
  <2> QED  BY <1>1, <2>1, <2>2, <2>3 DEF RunsInOrder
<1>2. CASE j \notin DOMAIN rows
  <2>1. rows'[j].at = now
    BY <1>2 DEF Sends, OfSnapshot
  <2>2. CASE i \in DOMAIN rows
    BY <2>1, <2>2 DEF Sends, FeedInv, StoreOK, TableOK
  <2>3. CASE i \notin DOMAIN rows
    <3>1. rows'[i].at = now
      BY <2>3 DEF Sends, OfSnapshot
    <3> QED  BY <1>0, <2>1, <3>1
  <2> QED  BY <2>2, <2>3
<1> QED  BY <1>1, <1>2

\* A step that sends the roll-up's correlator something leaves it a newer
\* run, which waits, or the newest it had, with no more recent ones.
LEMMA NewestStays ==
    ASSUME FeedInv, StoreOK', RunsInOrder, Sends("rollup"), linkFailed \subseteq linkFailed',
           NEW n \in Runs', IsNewest(n)'
    PROVE  \/ n \notin DOMAIN rows /\ Waits("rollup", n)'
           \/ /\ n \in DOMAIN rows /\ IsNewest(n) /\ Recent(rows[n].at)' \subseteq Recent(rows[n].at)
              /\ \A i \in Recent(rows[n].at)' : Parented(i) => Parented(i)'
<1>0. /\ n \in DOMAIN rows' /\ ~rows'[n].gone /\ OfSnapshot(rows'[n])
      /\ \A j \in Runs' : j =< n
  BY DEF Runs, Kept, IsNewest
<1>1. CASE n \notin DOMAIN rows
  BY <1>0, <1>1 DEF Sends
<1>2. CASE n \in DOMAIN rows
  <2>1. \A i \in DOMAIN rows : OfSnapshot(rows'[i]) <=> OfSnapshot(rows[i])
    BY SnapshotIsOfTheKey DEF Sends
  <2>2. n \in Runs
    BY <1>0, <1>2, <2>1 DEF Sends, Runs, Kept
  <2>3. ASSUME NEW j \in Runs, ~(j =< n)
        PROVE  FALSE
    <3>1. j \in DOMAIN rows /\ ~rows[j].gone /\ OfSnapshot(rows[j]) /\ j \in Nat /\ n \in Nat
      BY <1>2, <2>3 DEF Runs, Kept, FeedInv, StoreOK, TableOK
    <3>2. j \notin Runs'
      BY <1>0, <2>3
    <3>3. rows'[j].gone
      BY <2>1, <3>1, <3>2 DEF Runs, Kept, Sends
    <3>4. rows[n].at =< rows[j].at
      BY <1>0, <1>2, <2>1, <2>3, <3>1 DEF RunsInOrder
    <3>5. rows'[n].gone
      BY <1>2, <3>1, <3>3, <3>4 DEF Sends
    <3> QED  BY <1>0, <3>5
  <2>4. IsNewest(n)
    BY <2>2, <2>3 DEF IsNewest
  <2>5. rows'[n].at = rows[n].at
    BY <1>2 DEF Sends
  <2>6. ASSUME NEW at, at = rows'[n].at, NEW i, i \in Recent(at)'
        PROVE  i \in Recent(at) /\ (Parented(i) => Parented(i)')
    <3>1. i \in DOMAIN rows' /\ i \in Runs'
      BY <2>6 DEF Recent, JobsSince, Runs, Kept
    <3>2. i =< n
      BY <1>0, <3>1
    <3>3. i \in DOMAIN rows
      <4>1. n \in Nat /\ i \in Nat
        BY <1>2, <3>1 DEF FeedInv, StoreOK, TableOK
      <4> QED  BY <1>2, <3>1, <3>2, <4>1 DEF Sends
    <3>4. i \in Recent(at)
      BY <2>6, <3>3, RecentShrinks
    <3>5. rows'[i].parent = rows[i].parent
      BY <3>3 DEF Sends
    <3> QED  BY <3>4, <3>5 DEF Parented
  <2>7. \A at : at = rows'[n].at => Recent(rows[n].at)' = Recent(at)'
    BY DEF Recent, JobsSince
  <2> QED  BY <1>2, <2>4, <2>5, <2>6, <2>7
<1> QED  BY <1>1, <1>2

LEMMA WholeStays ==
    ASSUME FeedInv, StoreOK', RunsInOrder, NewestIsWhole, Sends("rollup"), linkFailed \subseteq linkFailed',
           \A i \in DOMAIN rows' : correlator'["rollup"].child = i => i \in DOMAIN rows,
           \A i \in Runs : i = correlator["rollup"].child =>
               \/ Waits("rollup", i)' \/ correlator["rollup"].children = {}
               \/ correlator'["rollup"].child = i /\ correlator'["rollup"].children = correlator["rollup"].children,
           \A i \in DOMAIN rows : i = correlator'["rollup"].child =>
               i = correlator["rollup"].child /\ correlator'["rollup"].children = correlator["rollup"].children
    PROVE  NewestIsWhole'
<1> SUFFICES ASSUME NEW n \in Runs', IsNewest(n)'
             PROVE  Whole(n)'
  BY DEF NewestIsWhole
<1> DEFINE k == correlator["rollup"]  k1 == correlator'["rollup"]
<1>0. n \in DOMAIN rows'
  BY DEF Runs, Kept
<1>1. CASE n \notin DOMAIN rows /\ Waits("rollup", n)'
  BY <1>0, <1>1 DEF Whole
<1>2. CASE /\ n \in DOMAIN rows /\ IsNewest(n) /\ Recent(rows[n].at)' \subseteq Recent(rows[n].at)
           /\ \A i \in Recent(rows[n].at)' : Parented(i) => Parented(i)'
  <2>1. Whole(n) /\ n \in Runs
    BY <1>2 DEF IsNewest, NewestIsWhole
  <2>2. ASSUME ~Waits("rollup", n)', k1.child # n, Cardinality(Recent(rows[n].at)') >= Threshold,
               NEW i \in Recent(rows[n].at)'
        PROVE  Parented(i)'
    <3>1. ~Waits("rollup", n)
      BY <2>2 DEF Sends
    <3>2. CASE k.child = n
      <4>1. k.children = {}
        BY <2>1, <2>2, <3>2
      <4> QED  BY <1>2, <2>1, <2>2, <3>2, <4>1 DEF Whole
    <3>3. CASE k.child # n
      <4>1. Cardinality(Recent(rows[n].at)') =< Cardinality(Recent(rows[n].at))
        BY <1>2, RecentIsFinite, FS_Subset DEF FeedInv
      <4>2. /\ Cardinality(Recent(rows[n].at)) \in Nat /\ Cardinality(Recent(rows[n].at)') \in Nat
            /\ Threshold \in Nat
        BY <1>2, RecentIsFinite, FS_Subset, FS_CardinalityType, CorrelatorsConstants DEF FeedInv
      <4>3. Cardinality(Recent(rows[n].at)) >= Threshold
        BY <2>2, <4>1, <4>2
      <4> QED  BY <1>2, <2>1, <2>2, <3>1, <3>3, <4>3 DEF Whole
    <3> QED  BY <3>2, <3>3
  <2>3. ASSUME k1.child = n, NEW i \in Recent(rows[n].at)'
        PROVE  i \in k1.children \/ Parented(i)'
    <3>1. k.child = n /\ k1.children = k.children
      BY <1>2, <2>3
    <3> QED  BY <1>2, <2>1, <2>3, <3>1 DEF Whole
  <2> QED  BY <2>2, <2>3 DEF Whole
<1> QED  BY <1>1, <1>2, NewestStays

LEMMA RollupsChildrenStay ==
    ASSUME FeedInv, RollupsChildren, Sends("rollup"),
           correlator'["rollup"].step # "idle" =>
               /\ correlator["rollup"].step # "idle" /\ correlator'["rollup"].children \subseteq correlator["rollup"].children
    PROVE  RollupsChildren'
<1> SUFFICES ASSUME correlator'["rollup"].step # "idle", NEW i \in correlator'["rollup"].children
             PROVE  OfSnapshot(rows'[i])
  BY DEF RollupsChildren
<1>1. "rollup" \in CorrelatorNames
  BY DEF CorrelatorNames
<1>2. i \in DOMAIN rows /\ OfSnapshot(rows[i])
  BY <1>1 DEF RollupsChildren, FeedInv, CorrelatorsOK
<1>3. rows'[i].key = rows[i].key
  BY <1>2 DEF Sends
<1> QED  BY <1>2, <1>3, SnapshotIsOfTheKey

LEMMA LinksLeaveRecent ==
    ASSUME DOMAIN rows' = DOMAIN rows, Kept' = Kept,
           \A i \in DOMAIN rows : rows'[i].key = rows[i].key /\ rows'[i].at = rows[i].at,
           NEW n \in DOMAIN rows
    PROVE  Recent(rows[n].at)' = Recent(rows[n].at)
<1>1. \A i \in Kept : i \in DOMAIN rows
  BY DEF Kept
<1>2. \A i \in DOMAIN rows : OfSnapshot(rows'[i]) <=> OfSnapshot(rows[i])
  BY SnapshotIsOfTheKey
<1>3. rows'[n].at = rows[n].at
  OBVIOUS
<1>4. \A at : JobsSince(at)' = JobsSince(at)
  BY <1>1 DEF JobsSince
<1>5. \A at, i : i \in JobsSince(at) => i \in DOMAIN rows
  BY <1>1 DEF JobsSince
<1>6. ASSUME NEW at
      PROVE  Recent(at)' = Recent(at)
  <2>1. JobsSince(at)' = JobsSince(at) /\ JobsSince(at) \subseteq DOMAIN rows
    BY <1>4, <1>5
  <2>2. \A i \in JobsSince(at) :
           {j \in JobsSince(at)' \ {i} : rows'[j].at >= rows'[i].at} = {j \in JobsSince(at) \ {i} : rows[j].at >= rows[i].at}
    BY <2>1
  <2> QED  BY <1>2, <2>1, <2>2 DEF Recent
<1> QED  BY <1>3, <1>6

LEMMA RollupMoves ==
    ASSUME FeedInv, FeedInv', [Next]_vars, RollupInv
    PROVE  RollupInv'
<1> DEFINE c == "rollup"  k == correlator[c]  k1 == correlator'[c]
<1> USE DEF RollupInv
<1>0. c \in CorrelatorNames /\ c \in Subscribers /\ StoreOK' /\ StoreOK
  BY SubscribersAre DEF CorrelatorNames, FeedInv
<1>a. /\ Idle.step = "idle" /\ Idle.child = NoRow /\ Idle.children = {}
      /\ \A i \in DOMAIN rows : i # NoRow
      /\ \A i \in DOMAIN rows' : i # NoRow
  BY DEF Idle, FeedInv, StoreOK, TableOK, NoRow
<1>b. k.step = "idle" => k.child = NoRow
  BY <1>0, <1>a DEF FeedInv, CorrelatorsOK
<1>c. k.child = NoRow \/ k.child \in DOMAIN rows
  BY <1>0, <1>b DEF FeedInv, CorrelatorsOK
<1>1. ASSUME Sends(c), linkFailed \subseteq linkFailed', k1 = Idle,
             \A i \in Runs : i = k.child => Waits(c, i)' \/ k.children = {}
      PROVE  RollupInv'
  <2>1. RunsInOrder'
    BY <1>0, <1>1, OrderStays
  <2>2. NewestIsWhole'
    BY <1>0, <1>1, <1>a, WholeStays
  <2>3. RollupsChildren'
    BY <1>1, <1>a DEF RollupsChildren
  <2> QED  BY <2>1, <2>2, <2>3
<1>2. ASSUME Sends(c), linkFailed \subseteq linkFailed', k1.child = k.child, k1.children = k.children, k1.step # "idle" => k.step # "idle"
      PROVE  RollupInv'
  <2>1. RunsInOrder'
    BY <1>0, <1>2, OrderStays
  <2>2. NewestIsWhole'
    BY <1>0, <1>2, <1>a, <1>c, WholeStays
  <2>3. RollupsChildren'
    BY <1>2, RollupsChildrenStay
  <2> QED  BY <2>1, <2>2, <2>3
<1>3. ASSUME Handle(c)
      PROVE  RollupInv'
  <2> DEFINE child == Received(c)
  <2>0. k = Idle /\ Receives(c) /\ UNCHANGED <<now, rows, subs, missed, linkFailed>>
    BY <1>3 DEF Handle, Free
  <2>a. PICK list \in Listings(rows[child].at) :
           correlator' = [correlator EXCEPT ![c] =
              IF Concerns(c, rows[child]) /\ Enough(c, Matches(list))
              THEN [step |-> "parent", child |-> child, children |-> Matches(list), parent |-> NoRow] ELSE Idle]
    BY <1>3 DEF Handle, ChildrenOf
  <2> DEFINE children == Matches(list)
  <2>1. k = Idle /\ Receives(c) /\ UNCHANGED <<now, rows, subs, missed, linkFailed>>
    BY <2>0
  <2>2. /\ Enough(c, children) <=> Cardinality(children) >= Threshold
        /\ Concerns(c, rows[child]) <=> OfSnapshot(rows[child])
    BY DEF Enough, Concerns
  <2>3. \/ /\ OfSnapshot(rows[child]) /\ Cardinality(children) >= Threshold
           /\ k1 = [step |-> "parent", child |-> child, children |-> children, parent |-> NoRow]
        \/ ~(OfSnapshot(rows[child]) /\ Cardinality(children) >= Threshold) /\ k1 = Idle
    BY <1>0, <2>a, <2>2 DEF FeedInv, CorrelatorsOK
  <2>b. Recent(rows[child].at) \subseteq children
        /\ (Cardinality(Recent(rows[child].at)) >= Threshold => Cardinality(children) >= Threshold)
    <3>1. Recent(rows[child].at) \subseteq children /\ IsFiniteSet(children)
      BY <1>0, RecentAreListed
    <3>2. Cardinality(Recent(rows[child].at)) =< Cardinality(children) /\ IsFiniteSet(Recent(rows[child].at))
      BY <3>1, FS_Subset
    <3>3. /\ Cardinality(Recent(rows[child].at)) \in Nat /\ Cardinality(children) \in Nat /\ Threshold \in Nat
      BY <3>1, <3>2, FS_CardinalityType, CorrelatorsConstants
    <3> QED  BY <3>1, <3>2, <3>3
  <2>c. \A i \in children : OfSnapshot(rows[i])
    BY DEF Matches
  <2>4. \A i : Waits(c, i) => Waits(c, i)' \/ i = child
    BY <1>0, <2>1, ReadingLeaves
  <2> HIDE DEF child, children
  <2>5. \A at : Recent(at)' = Recent(at)
    BY <2>1 DEF Recent, JobsSince, Kept
  <2>6. Runs' = Runs /\ Kept' = Kept /\ \A n : IsNewest(n)' <=> IsNewest(n)
    BY <2>1 DEF Runs, Kept, IsNewest
  <2>7. ASSUME NEW n \in Runs, IsNewest(n)
        PROVE  Whole(n)'
    <3>1. Whole(n) /\ OfSnapshot(rows[n]) /\ n # NoRow
      BY <1>a, <2>7 DEF NewestIsWhole, Runs, Kept
    <3>2. Recent(rows[n].at)' = Recent(rows[n].at)
      BY <2>1, <2>5
    <3>3. ASSUME ~Waits(c, n)', k1.child # n, Cardinality(Recent(rows[n].at)) >= Threshold, NEW i \in Recent(rows[n].at)
          PROVE  Parented(i)
      <4>1. n # child
        BY <2>3, <2>b, <3>1, <3>3
      <4>2. ~Waits(c, n)
        BY <2>4, <3>3, <4>1
      <4> QED  BY <1>a, <2>1, <3>1, <3>3, <4>2 DEF Whole
    <3>4. ASSUME k1.child = n, NEW i \in Recent(rows[n].at)
          PROVE  i \in k1.children
      BY <1>a, <2>3, <2>b, <3>1, <3>4
    <3>5. \A i : Parented(i)' <=> Parented(i)
      BY <2>1 DEF Parented
    <3> QED  BY <3>2, <3>3, <3>4, <3>5 DEF Whole
  <2>8. NewestIsWhole'
    BY <2>6, <2>7 DEF NewestIsWhole
  <2>9. RollupsChildren'
    BY <1>a, <2>1, <2>3, <2>c DEF RollupsChildren
  <2>10. RunsInOrder'
    BY <2>1 DEF RunsInOrder
  <2> QED  BY <2>8, <2>9, <2>10
<1>4. ASSUME ParentIngested(c)
      PROVE  RollupInv'
  <2>1. Sends(c)
    BY <1>0, <1>4, ParentPosts, PostsSend
  <2>2. k.step = "parent" /\ k1.child = k.child /\ k1.children = k.children /\ linkFailed' = linkFailed
    BY <1>0, <1>4 DEF ParentIngested, FeedInv, CorrelatorsOK
  <2> QED  BY <1>2, <2>1, <2>2
<1>5. ASSUME ParentFails(c)
      PROVE  RollupInv'
  <2>1. /\ missed' = [missed EXCEPT ![c] = @ \cup {k.child}] /\ correlator' = [correlator EXCEPT ![c] = Idle]
        /\ UNCHANGED <<rows, inbox, linkFailed>>
    BY <1>5 DEF ParentFails, Loses
  <2>2. k1 = Idle /\ missed'[c] = missed[c] \cup {k.child}
    BY <1>0, <2>1 DEF FeedInv, CorrelatorsOK, StoreOK, InboxOK
  <2>3. \A i : Waits(c, i) \/ i = k.child => Waits(c, i)'
    BY <2>1, <2>2 DEF Waits
  <2>4. Sends(c)
    BY <2>1, <2>3 DEF Sends
  <2> QED  BY <1>1, <2>1, <2>2, <2>3, <2>4
<1>6. ASSUME LinksDone(c)
      PROVE  RollupInv'
  <2>1. k.children = {} /\ k1 = Idle /\ UNCHANGED <<storeVars, linkFailed>>
    BY <1>0, <1>6 DEF LinksDone, FeedInv, CorrelatorsOK
  <2>2. Sends(c)
    BY <1>0, <2>1, SameSends DEF storeVars
  <2> QED  BY <1>1, <2>1, <2>2
<1>7. ASSUME Restart
      PROVE  RollupInv'
  <2>1. /\ Sends(c) /\ k1 = Idle /\ linkFailed' = linkFailed
        /\ \A i : (k # Idle /\ i = k.child) => Waits(c, i)'
    BY <1>0, <1>7, RestartSends
  <2>2. \A i \in Runs : i = k.child => Waits(c, i)'
    BY <1>a, <2>1 DEF Runs, Kept
  <2> QED  BY <1>1, <2>1, <2>2
<1>8. ASSUME NEW d \in CorrelatorNames, NEW child \in correlator[d].children, LinkChild(d, child)
      PROVE  RollupInv'
  <2>1. /\ child \in DOMAIN rows /\ correlator[d].step = "link" /\ correlator[d].parent \in DOMAIN rows
        /\ DOMAIN rows' = DOMAIN rows /\ Kept' = Kept /\ UNCHANGED <<now, inbox, missed>>
        /\ \A i \in DOMAIN rows : rows'[i].key = rows[i].key /\ rows'[i].at = rows[i].at
        /\ ~Unlinked(d, child) => rows' = rows
        /\ (child \in Kept /\ Unlinked(d, child)) => rows'[child].parent = correlator[d].parent
        /\ correlator'[d].step = "link" /\ correlator'[d].child = correlator[d].child
        /\ correlator'[d].children = correlator[d].children \ {child}
        /\ \A e \in CorrelatorNames \ {d} : correlator'[e] = correlator[e]
        /\ linkFailed' = linkFailed \ {child}
    BY <1>8, LinkRows
  <2>2. \A i \in DOMAIN rows : OfSnapshot(rows'[i]) <=> OfSnapshot(rows[i])
    BY <2>1, SnapshotIsOfTheKey
  <2>3. Runs' = Runs /\ \A n : IsNewest(n)' <=> IsNewest(n)
    BY <2>1, <2>2 DEF Runs, Kept, IsNewest
  <2>4. ASSUME NEW i \in Kept, Parented(i)
        PROVE  Parented(i)'
    <3>1. rows[i].parent # NoRow => rows'[i].parent # NoRow
      <4>1. Grown
        BY FeedMoves, StoreStepKeeps, <1>0
      <4> QED  BY <4>1 DEF Grown, Kept
    <3>2. CASE i = child /\ Unlinked(d, child)
      BY <1>a, <2>1, <2>4, <3>2 DEF Parented
    <3>3. CASE i = child /\ ~Unlinked(d, child)
      BY <3>1, <3>3 DEF Unlinked, Parented
    <3>4. CASE i # child
      BY <2>1, <2>4, <3>1, <3>4 DEF Parented
    <3> QED  BY <3>2, <3>3, <3>4
  <2>5. k1.child = k.child /\ k1.step = k.step /\ k1.children \subseteq k.children
    BY <1>0, <2>1
  <2>6. ASSUME NEW i \in Kept, i \in k.children, i \notin k1.children
        PROVE  Parented(i)'
    <3>1. d = c /\ i = child
      BY <1>0, <2>1, <2>6
    <3>2. CASE Unlinked(c, child)
      BY <1>a, <2>1, <2>6, <3>1, <3>2 DEF Parented
    <3>3. CASE ~Unlinked(c, child)
      BY <2>1, <3>1, <3>3 DEF Unlinked, Parented
    <3> QED  BY <3>2, <3>3
  <2>7. ASSUME NEW n \in Runs, IsNewest(n)
        PROVE  Whole(n)'
    <3>1. Whole(n) /\ n \in DOMAIN rows
      BY <2>7 DEF NewestIsWhole, Runs, Kept
    <3>2. Recent(rows[n].at)' = Recent(rows[n].at)
      BY <2>1, <2>2, <3>1, LinksLeaveRecent
    <3>3. \A i \in Recent(rows[n].at) : i \in Kept /\ i \in DOMAIN rows
      BY DEF Recent, JobsSince, Kept
    <3>4. Waits(c, n)' <=> Waits(c, n)
      BY <2>1 DEF Waits
    <3> QED  BY <2>4, <2>5, <2>6, <3>1, <3>2, <3>3, <3>4 DEF Whole
  <2>8. NewestIsWhole'
    BY <2>3, <2>7 DEF NewestIsWhole
  <2>9. RollupsChildren'
    <3>1. \A i \in k.children : k.step # "idle" => i \in DOMAIN rows
      BY <1>0 DEF FeedInv, CorrelatorsOK
    <3> QED  BY <2>2, <2>5, <3>1 DEF RollupsChildren
  <2>10. RunsInOrder'
    BY <2>1, <2>2 DEF RunsInOrder
  <2> QED  BY <2>8, <2>9, <2>10
<1>9. ASSUME NEW child \in k.children, LinkFails(c, child)
      PROVE  RollupInv'
  <2>1. /\ UNCHANGED storeVars /\ linkFailed' = linkFailed \cup {child}
        /\ correlator' = [correlator EXCEPT ![c].children = @ \ {child}]
    BY <1>9 DEF LinkFails
  <2>2. k1.child = k.child /\ k1.step = k.step /\ k1.children = k.children \ {child}
    BY <1>0, <2>1 DEF FeedInv, CorrelatorsOK
  <2>3. Runs' = Runs /\ (\A n : IsNewest(n)' <=> IsNewest(n)) /\ (\A n : Waits(c, n)' <=> Waits(c, n))
        /\ \A at : Recent(at)' = Recent(at)
    BY <2>1 DEF storeVars, Runs, Kept, IsNewest, Waits, Recent, JobsSince
  <2>4. \A i : Parented(i) \/ i = child => Parented(i)'
    BY <2>1 DEF Parented, storeVars
  <2>5. ASSUME NEW n \in Runs, IsNewest(n)
        PROVE  Whole(n)'
    <3>1. Whole(n) /\ Recent(rows[n].at)' = Recent(rows[n].at)
      BY <2>1, <2>3, <2>5 DEF NewestIsWhole, storeVars
    <3> QED  BY <2>2, <2>3, <2>4, <3>1 DEF Whole
  <2>6. NewestIsWhole'
    BY <2>3, <2>5 DEF NewestIsWhole
  <2> QED  BY <2>1, <2>2, <2>6 DEF RollupsChildren, RunsInOrder, storeVars
<1>10. ASSUME ListFails
       PROVE  RollupInv'
  <2>1. /\ k = Idle /\ k1 = k /\ Receives(c) /\ missed' = [missed EXCEPT ![c] = @ \cup {Received(c)}]
        /\ UNCHANGED <<rows, correlator, linkFailed>>
    BY <1>10 DEF ListFails, Free, Loses
  <2>2. inbox' = [inbox EXCEPT ![c] = Tail(@)] /\ inbox[c] # <<>> /\ inbox[c] \in Seq(Ids) /\ c \in DOMAIN missed
        /\ inbox'[c] = Tail(inbox[c])
    BY <1>0, <2>1 DEF Receives, StoreOK, InboxOK
  <2>3. missed'[c] = missed[c] \cup {Received(c)}
    BY <2>1, <2>2
  <2>4. ASSUME NEW n \in DOMAIN inbox[c], inbox[c][n] # Head(inbox[c])
        PROVE  n - 1 \in DOMAIN inbox'[c] /\ inbox'[c][n - 1] = inbox[c][n]
    <3>1. inbox[c] \in Seq(Ids) /\ inbox[c] # <<>> /\ inbox'[c] = Tail(inbox[c])
      BY <2>2
    <3> QED  BY <2>4, <3>1
  <2>5. \A i : Waits(c, i) => i \in missed'[c] \/ \E n \in DOMAIN inbox'[c] : inbox'[c][n] = i
    BY <2>3, <2>4 DEF Waits, Received
  <2>6. Sends(c)
    BY <2>1, <2>5 DEF Sends, Waits
  <2> QED  BY <1>2, <2>1, <2>6
<1> QED  BY <1>0, <1>2, <1>3, <1>4, <1>5, <1>6, <1>7, <1>8, <1>9, <1>10, CorrelatorSees DEF CorrelatorIsIn, Links
-----------------------------------------------------------------------------
LinkInv == (\A c \in Single : Settled(c) /\ KnowsItsParent(c)) /\ RollupInv

LEMMA LinkInit == Init => LinkInv
<1> SUFFICES ASSUME Init PROVE LinkInv
  OBVIOUS
<1>1. rows = <<>> /\ \A c \in CorrelatorNames : correlator[c] = Idle
  BY DEF Init, StoreInit, CorrelatorsInit
<1>2. Kept = {} /\ Runs = {}
  BY <1>1 DEF Kept, Runs
<1>3. Idle.step = "idle"
  BY DEF Idle
<1>4. Single \subseteq CorrelatorNames /\ "rollup" \in CorrelatorNames
  BY DEF Single, CorrelatorNames
<1> QED  BY <1>1, <1>2, <1>3, <1>4 DEF LinkInv, Settled, KnowsItsParent, RollupInv, RollupsChildren, RunsInOrder,
                                       NewestIsWhole

LEMMA LinkHolds == Spec => [](FeedInv /\ LinkInv)
<1>1. FeedInv /\ LinkInv /\ [Next]_vars => FeedInv' /\ LinkInv'
  <2> SUFFICES ASSUME FeedInv, LinkInv, [Next]_vars
               PROVE  FeedInv' /\ LinkInv'
    OBVIOUS
  <2>1. FeedInv'
    BY FeedMoves
  <2>2. RollupInv'
    BY <2>1, RollupMoves DEF LinkInv
  <2>3. \A c \in Single : Settled(c)' /\ KnowsItsParent(c)'
    BY ChildMoves DEF LinkInv, RollupInv
  <2> QED  BY <2>1, <2>2, <2>3 DEF LinkInv
<1> QED  BY FeedInit, LinkInit, <1>1, PTL DEF Spec

LEMMA ThereIsANewest ==
    ASSUME StoreOK, Runs # {}
    PROVE  IsNewest(CHOOSE i \in Runs : \A j \in Runs : j =< i)
<1> DEFINE T == {Len(rows) - i : i \in Runs}
<1>1. Len(rows) \in Nat /\ Runs \subseteq 1..Len(rows)
  BY DEF StoreOK, TableOK, Runs, Kept
<1>2. T \in SUBSET Nat /\ T # {}
  <2>1. \A i \in Runs : Len(rows) - i \in Nat
    BY <1>1
  <2> QED  BY <2>1
<1> HIDE DEF T
<1>3. PICK x \in T : \A y \in T : x =< y
  BY <1>2, LeastOfNats
<1>4. PICK i \in Runs : x = Len(rows) - i
  BY DEF T
<1>5. \A j \in Runs : Len(rows) - i =< Len(rows) - j
  BY <1>3, <1>4 DEF T
<1>6. \A j \in Runs : j =< i
  BY <1>1, <1>5
<1>7. \E n \in Runs : \A j \in Runs : j =< n
  BY <1>6
<1> QED  BY <1>7 DEF IsNewest

\* A correlator that is through with an event has given it the parent its
\* own words make, and the roll-up's has given one to every recent run once
\* there are enough, but for a link that was not written, in whatever order
\* the three, the store, a cut list, the pruning and a restart come between
\* (disk.go, scrub.go and snapshot.go).
THEOREM ParentsAreLinkedHolds == Spec => []ParentsAreLinked
<1>1. FeedInv /\ LinkInv => ChildrenAreLinked
  <2> SUFFICES ASSUME FeedInv, LinkInv, NEW c \in {"disk", "scrub"}, NEW i \in Kept,
                      Concerns(c, rows[i]), DealtWith(c, i)
               PROVE  \/ i \in linkFailed
                      \/ rows[i].parent # NoRow /\ rows[rows[i].parent].key = ParentFor(c, rows[i]).key
    BY DEF ChildrenAreLinked
  <2>1. LinkedTo(c, i)
    BY DEF LinkInv, Single, Settled, DealtWith, Waits
  <2> QED  BY <2>1, RowFields DEF LinkedTo, FeedInv, StoreOK
<1>2. FeedInv /\ LinkInv => RollupIsWhole
  <2> SUFFICES ASSUME FeedInv, LinkInv  PROVE RollupIsWhole
    OBVIOUS
  <2> DEFINE newest == CHOOSE i \in Runs : \A j \in Runs : j =< i
  <2>1. ASSUME Runs # {}, correlator["rollup"] = Idle, DealtWith("rollup", newest),
               Cardinality(Recent(rows[newest].at)) >= Threshold, NEW i \in Recent(rows[newest].at)
        PROVE  i \in linkFailed \/ rows[i].parent # NoRow
    <3>1. IsNewest(newest) /\ newest \in Runs
      BY <2>1, ThereIsANewest DEF FeedInv, IsNewest
    <3> HIDE DEF newest
    <3>2. Whole(newest)
      BY <3>1 DEF LinkInv, RollupInv, NewestIsWhole
    <3>3. ~Waits("rollup", newest) /\ correlator["rollup"].child # newest
      BY <2>1 DEF DealtWith, Waits
    <3> QED  BY <2>1, <3>2, <3>3 DEF Whole, Parented
  <2> QED  BY <2>1 DEF RollupIsWhole, Runs
<1>3. FeedInv /\ LinkInv => ParentsAreLinked
  BY <1>1, <1>2 DEF ParentsAreLinked
<1> QED  BY <1>3, LinkHolds, PTL
=============================================================================
