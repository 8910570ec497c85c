------------------------------- MODULE Digest -------------------------------
(***************************************************************************)
(* The weekly digest (internal/digest): a runner that looks every minute   *)
(* whether a digest is due, puts one together from what the feed holds of  *)
(* the week, keeps it and announces it in the feed, while the app changes  *)
(* the settings, quiet hours come and go, the NAS's time zone changes and  *)
(* the helper restarts.  Time passes in half days.                         *)
(***************************************************************************)
EXTENDS Integers, Sequences, FiniteSets

CONSTANTS
    Week, MinGap, LateBy, \* 7 days, 6 days and 1 day
    Reach,   \* how old the last digest may be for the next to start at its end
    Zones,   \* how far a time zone's Sunday 9 am is from another's
    Keep,    \* how many digests are kept
    MaxTime, \* bound on the clock
    Budgets  \* bounds on what the surroundings do, one chosen per behaviour

ASSUME DigestConstants ==
    /\ Week \in Nat \ {0} /\ MinGap \in Nat \ {0} /\ LateBy \in Nat /\ Reach \in Nat
    /\ Reach >= Week /\ Zones \subseteq Int /\ Keep \in Nat \ {0} /\ MaxTime \in Nat
    /\ Budgets \subseteq [{"settings", "held", "nights", "zone", "faults", "restart", "events"} -> Nat]

VARIABLES
    now,
    settings, \* on or off, and since when
    held,     \* Zephyr Pro has lapsed
    quiet,    \* quiet hours
    zone,     \* the time zone last read
    happened, \* what happened on the NAS, by its time
    fed,      \* what of it is in the feed
    digests,  \* the file, newest first
    unsaved,  \* put together and not kept, if any: lost in a restart
    runner,   \* what the runner is doing, with which digest, since when
    left      \* what the surroundings may still do

vars == <<now, settings, held, quiet, zone, happened, fed, digests, unsaved, runner, left>>

Never == -1
Unknown == [known |-> FALSE]
In(z) == [known |-> TRUE, offset |-> z]
Off == [on |-> FALSE, since |-> Never]
NoDigest == [end |-> Never]
Idle == [at |-> "idle", d |-> NoDigest, began |-> Never]

Init ==
    /\ now = 0 /\ settings = Off /\ held = FALSE /\ quiet = FALSE /\ zone = Unknown
    /\ happened = {} /\ fed = {} /\ digests = <<>> /\ unsaved = NoDigest
    /\ runner = Idle /\ left \in Budgets

surroundings == <<settings, held, quiet, zone, happened, fed>>
Spend(what) == left[what] > 0 /\ left' = [left EXCEPT ![what] = @ - 1]
Latest == digests[1]
Goes(to, d) == runner' = [at |-> to, d |-> d, began |-> now]
-----------------------------------------------------------------------------
(* check *)

LastDue == now - ((now - zone.offset) % Week)

Waiting == digests # <<>> /\ ~Latest.announced /\ now - Latest.end < LateBy
OnlyAtOnce == FALSE
GoesFirst == Waiting

SinceDue == digests # <<>> => Latest.end < LastDue
LongSince == digests # <<>> => Latest.end < LastDue /\ now - Latest.end >= MinGap

On == settings.on /\ ~held
Due ==
    /\ zone.known /\ now - LastDue =< LateBy
    /\ settings.since =< LastDue
    /\ LongSince

\* Announces what is kept and waited, or keeps again what could not be kept,
\* or begins to put one together, unless quiet hours hold it up.
Checks ==
    /\ runner.at = "idle" /\ On /\ ~quiet
    /\ \/ GoesFirst /\ Goes("announcing", Latest)
       \/ /\ ~GoesFirst /\ Due
          /\ IF unsaved # NoDigest /\ unsaved.end >= LastDue
             THEN Goes("keeping", unsaved)
             ELSE Goes("assembling", NoDigest)
    /\ UNCHANGED <<now, surroundings, digests, unsaved, left>>

\* Assemble: from the last digest kept, or the last seven days.
AWeekAgo == now - Week
StartOf ==
    IF digests # <<>> /\ Latest.end < now /\ now - Latest.end =< Reach
    THEN Latest.end ELSE AWeekAgo
\* Between, and the runner's own clock when it began.
Reads ==
    /\ runner.at = "assembling" /\ runner.began = now
    /\ Goes("keeping", [start |-> StartOf, end |-> now, announced |-> FALSE,
                        events |-> {e \in fed : StartOf < e /\ e =< now}])
    /\ UNCHANGED <<now, surroundings, digests, unsaved, left>>

\* TrueNAS or the feed doesn't answer.
ReadFails ==
    /\ runner.at = "assembling"
    /\ IF runner.began < now THEN UNCHANGED left ELSE Spend("faults")
    /\ runner' = Idle
    /\ UNCHANGED <<now, surroundings, digests, unsaved>>

\* Store.Add, once a model has written its summary, and quiet hours again,
\* which may have begun meanwhile.
QuietBegan == quiet
Newest(ds) == IF Len(ds) > Keep THEN SubSeq(ds, 1, Keep) ELSE ds
Keeps ==
    /\ runner.at = "keeping"
    /\ digests' = Newest(<<runner.d>> \o digests)
    /\ unsaved' = NoDigest
    /\ IF QuietBegan THEN runner' = Idle ELSE Goes("announcing", runner.d)
    /\ UNCHANGED <<now, surroundings, left>>
KeepFails ==
    /\ runner.at = "keeping" /\ Spend("faults")
    /\ unsaved' = runner.d /\ runner' = Idle
    /\ UNCHANGED <<now, surroundings, digests>>

\* announce: Ingest, then MarkAnnounced.
Announces ==
    /\ runner.at = "announcing"
    /\ Goes("marking", runner.d)
    /\ UNCHANGED <<now, surroundings, digests, unsaved, left>>
Marks ==
    /\ runner.at = "marking"
    /\ digests' = [k \in DOMAIN digests |->
            IF digests[k].end = runner.d.end THEN [digests[k] EXCEPT !.announced = TRUE] ELSE digests[k]]
    /\ runner' = Idle
    /\ UNCHANGED <<now, surroundings, unsaved, left>>
AnnounceFails ==
    /\ runner.at \in {"announcing", "marking"} /\ Spend("faults")
    /\ runner' = Idle
    /\ UNCHANGED <<now, surroundings, digests, unsaved>>

Restarts ==
    /\ Spend("restart")
    /\ runner' = Idle /\ unsaved' = NoDigest /\ zone' = Unknown
    /\ UNCHANGED <<now, settings, held, quiet, happened, fed, digests>>
-----------------------------------------------------------------------------
(* The app, and the surroundings. *)

\* SettingsStore.Set: on again keeps the time it was first switched on.
Sets(on) ==
    /\ Spend("settings")
    /\ settings' = IF ~on THEN Off
                   ELSE IF settings.on THEN settings
                   ELSE [on |-> TRUE, since |-> now]
    /\ UNCHANGED <<now, held, quiet, zone, happened, fed, digests, unsaved, runner>>

Lapses ==
    /\ Spend("held") /\ held' = ~held
    /\ UNCHANGED <<now, settings, quiet, zone, happened, fed, digests, unsaved, runner>>

NightFalls ==
    /\ ~quiet /\ Spend("nights") /\ quiet' = TRUE
    /\ UNCHANGED <<now, settings, held, zone, happened, fed, digests, unsaved, runner>>
NightEnds ==
    /\ quiet /\ quiet' = FALSE
    /\ UNCHANGED <<now, settings, held, zone, happened, fed, digests, unsaved, runner, left>>

\* NASZone: the last one read stays while TrueNAS doesn't answer.
ZoneIsRead ==
    /\ ~zone.known
    /\ \E z \in Zones : zone' = In(z)
    /\ UNCHANGED <<now, settings, held, quiet, happened, fed, digests, unsaved, runner, left>>
ZoneChanges ==
    /\ zone.known /\ Spend("zone")
    /\ \E z \in Zones \ {zone.offset} : zone' = In(z)
    /\ UNCHANGED <<now, settings, held, quiet, happened, fed, digests, unsaved, runner>>

\* Something happens on the NAS, and a poller puts it in the feed once it
\* sees it.
Happens ==
    /\ now \notin happened /\ Spend("events")
    /\ happened' = happened \cup {now}
    /\ UNCHANGED <<now, settings, held, quiet, zone, fed, digests, unsaved, runner>>
IsFed == \E e \in happened \ fed :
    /\ fed' = fed \cup {e}
    /\ UNCHANGED <<now, settings, held, quiet, zone, happened, digests, unsaved, runner, left>>

\* The runner is done within half a day.
Tick ==
    /\ now < MaxTime /\ now' = now + 1
    /\ runner.at = "idle" \/ runner.began = now
    /\ UNCHANGED <<surroundings, digests, unsaved, runner, left>>
-----------------------------------------------------------------------------
Runs == Checks \/ Reads \/ ReadFails \/ Keeps \/ KeepFails \/ Announces \/ Marks \/ AnnounceFails

Next ==
    \/ Runs \/ Restarts
    \/ (\E on \in BOOLEAN : Sets(on)) \/ Lapses \/ NightFalls \/ NightEnds
    \/ ZoneIsRead \/ ZoneChanges \/ Happens \/ IsFed \/ Tick

\* The ticker ticks, and a night ends.
Fairness == WF_vars(Runs) /\ WF_vars(NightEnds)

Spec == Init /\ [][Next]_vars /\ Fairness
-----------------------------------------------------------------------------
TypeOK ==
    /\ now \in 0..MaxTime /\ fed \subseteq happened /\ happened \subseteq 0..now
    /\ Len(digests) =< Keep
    /\ \A k \in DOMAIN digests : digests[k].start < digests[k].end /\ digests[k].end =< now
    /\ settings.on <=> settings.since # Never

\* "One a week, even if the time zone changes under it" (runner.go:100),
\* whatever is kept late, kept again or lost in a restart.
OneAWeek == \A k \in 2..Len(digests) : digests[k - 1].end - digests[k].end >= MinGap

\* "so a late or early one leaves no gap and counts nothing twice"
\* (digest.go:165-166): each digest starts where the one before ended, when
\* that is near enough, and what happened is in one of them at most.
NothingTwice == \A k \in 2..Len(digests) :
    LET d == digests[k - 1]
        before == digests[k]
    IN  /\ d.events \cap before.events = {}
        /\ d.end - before.end =< Reach => d.start = before.end

\* A digest that is kept is announced, unless its day passes, the digest is
\* switched off or held: the restart, the failed call or the night that
\* stopped the announcement is made up for.
KeptIsAnnounced == Waiting ~> (~Waiting \/ ~On)
=============================================================================
