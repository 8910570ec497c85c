--------------------------- MODULE Digest_proofs ---------------------------
(***************************************************************************)
(* Proofs about the weekly digest, for any lengths of time and any         *)
(* number of digests kept: no two of one week, and nothing counted twice.  *)
(***************************************************************************)
EXTENDS Digest, TLAPS

DigestType == [start : Int, end : Nat, announced : BOOLEAN, events : SUBSET Nat]
Stages == {"idle", "assembling", "keeping", "announcing", "marking"}
Wheres == {Unknown} \cup [known : {TRUE}, offset : Int]
RunnerType == [at : Stages, d : DigestType \cup {NoDigest}, began : Int]

Shape ==
    /\ now \in Nat /\ fed \subseteq Nat /\ happened \subseteq Nat
    /\ zone \in Wheres
    /\ digests \in Seq(DigestType)
    /\ unsaved \in DigestType \cup {NoDigest}
    /\ runner \in RunnerType
    /\ runner.at = "keeping" => runner.d \in DigestType
    /\ runner.at = "assembling" => runner.began \in Nat

\* What Assemble and due make of a digest that comes after another.
Within(d) == d.events \subseteq {e \in Nat : d.start < e /\ e =< d.end}
Follows(d, before) ==
    /\ d.end - before.end >= MinGap
    /\ IF d.end - before.end =< Reach THEN d.start = before.end ELSE d.start >= before.end

\* The digests kept follow one another, and one that is being kept, or could
\* not be kept yet, follows the last of them.
InOrder ==
    /\ \A k \in DOMAIN digests : Within(digests[k])
    /\ \A k \in 2..Len(digests) : Follows(digests[k - 1], digests[k])
FollowsOn(d) == Within(d) /\ (digests # <<>> => Follows(d, Latest))
Coming ==
    /\ runner.at = "keeping" => FollowsOn(runner.d)
    /\ unsaved # NoDigest => FollowsOn(unsaved)
    /\ runner.at = "assembling" /\ digests # <<>> => runner.began - Latest.end >= MinGap

DigestInv == Shape /\ InOrder /\ Coming

USE DigestConstants

\* It holds of a helper that has kept no digest.
LEMMA InitInv == Init => DigestInv
<1> SUFFICES ASSUME Init PROVE DigestInv
    OBVIOUS
<1>1. Shape BY DEF Init, Shape, Idle, RunnerType, Stages, NoDigest, Never, Unknown, Wheres
<1>2. InOrder BY DEF Init, InOrder
<1>3. Coming BY DEF Init, Coming, Idle
<1> QED BY <1>1, <1>2, <1>3 DEF DigestInv

\* What is kept of a list of digests is its first ones.
LEMMA NewestIsPrefix ==
    ASSUME NEW s \in Seq(DigestType), Len(s) >= 1
    PROVE  /\ Newest(s) \in Seq(DigestType)
           /\ Len(Newest(s)) \in 1..Len(s)
           /\ Len(Newest(s)) =< Keep
           /\ \A k \in 1..Len(Newest(s)) : Newest(s)[k] = s[k]
<1>1. CASE Len(s) > Keep
  <2> DEFINE some == SubSeq(s, 1, Keep)
  <2>1. some \in Seq(DigestType) /\ Len(some) = Keep BY <1>1
  <2>2. \A k \in 1..Keep : some[k] = s[k] BY <1>1
  <2>3. Newest(s) = some BY <1>1 DEF Newest
  <2> HIDE DEF some
  <2> QED BY <1>1, <2>1, <2>2, <2>3
<1>2. CASE Len(s) =< Keep BY <1>2 DEF Newest
<1> QED BY <1>1, <1>2

\* A digest put before those kept, which it follows.
LEMMA KeepsOrder ==
    ASSUME Shape, InOrder, NEW d \in DigestType, FollowsOn(d)
    PROVE  LET ds == Newest(<<d>> \o digests)
           IN  /\ ds \in Seq(DigestType) /\ ds # <<>>
               /\ \A k \in DOMAIN ds : Within(ds[k])
               /\ \A k \in 2..Len(ds) : Follows(ds[k - 1], ds[k])
<1> DEFINE all == <<d>> \o digests
           ds == Newest(all)
<1>1. all \in Seq(DigestType) /\ Len(all) = Len(digests) + 1 BY DEF Shape
<1>2. all[1] = d /\ \A k \in 2..Len(all) : k - 1 \in DOMAIN digests /\ all[k] = digests[k - 1]
  BY DEF Shape
<1> HIDE DEF all
<1>3. /\ ds \in Seq(DigestType)
      /\ Len(ds) \in 1..Len(all)
      /\ \A k \in 1..Len(ds) : ds[k] = all[k]
  BY <1>1, NewestIsPrefix
<1> HIDE DEF ds
<1>4. ASSUME NEW k \in 1..Len(all) PROVE Within(all[k])
  <2>1. CASE k = 1 BY <2>1, <1>2 DEF FollowsOn
  <2>2. CASE k # 1 BY <1>1, <1>2, <2>2 DEF InOrder
  <2> QED BY <2>1, <2>2
<1>5. ASSUME NEW k \in 2..Len(all) PROVE Follows(all[k - 1], all[k])
  <2>1. CASE k = 2
    <3>1. digests # <<>> /\ all[k] = Latest BY <1>1, <1>2, <2>1 DEF Latest
    <3> QED BY <1>2, <2>1, <3>1 DEF FollowsOn
  <2>2. CASE k # 2
    <3>1. k - 1 \in 2..Len(digests) BY <1>1, <2>2 DEF Shape
    <3>2. all[k - 1] = digests[k - 2] /\ all[k] = digests[k - 1] BY <1>1, <1>2, <2>2 DEF Shape
    <3>3. Follows(digests[(k - 1) - 1], digests[k - 1]) BY <3>1 DEF InOrder
    <3>4. (k - 1) - 1 = k - 2 OBVIOUS
    <3> QED BY <3>2, <3>3, <3>4
  <2> QED BY <2>1, <2>2
<1>6. ds # <<>> BY <1>3
<1>7. \A k \in DOMAIN ds : Within(ds[k]) BY <1>1, <1>3, <1>4
<1>8. ASSUME NEW k \in 2..Len(ds) PROVE Follows(ds[k - 1], ds[k])
  <2>1. k \in 2..Len(all) /\ ds[k] = all[k] /\ ds[k - 1] = all[k - 1] BY <1>1, <1>3
  <2> QED BY <1>5, <2>1
<1> QED BY <1>3, <1>6, <1>7, <1>8 DEF ds, all

\* What a step that leaves the digests and the runner's copies alone keeps.
LEMMA Frame ==
    ASSUME InOrder, Coming, UNCHANGED <<digests, unsaved>>,
           runner' = runner \/ runner'.at \notin {"keeping", "assembling"}
    PROVE  InOrder' /\ Coming'
<1>1. InOrder' BY DEF InOrder
<1>2. Latest' = Latest BY DEF Latest
<1>3. Coming' BY <1>2 DEF Coming, FollowsOn
<1> QED BY <1>1, <1>3

\* A digest is only begun the least gap after the last one.
LEMMA ChecksInv == ASSUME DigestInv, Checks PROVE DigestInv'
<1> USE DEF DigestInv
<1>1. digests \in Seq(DigestType) /\ (digests # <<>> => Latest \in DigestType) BY DEF Shape, Latest
<1>2. runner' \in RunnerType /\ (runner'.at = "keeping" => runner'.d \in DigestType)
      /\ (runner'.at = "assembling" => runner'.began = now)
  <2>1. CASE GoesFirst /\ Goes("announcing", Latest)
    BY <1>1, <2>1 DEF GoesFirst, Waiting, Goes, RunnerType, Stages, Shape
  <2>2. CASE Goes("keeping", unsaved) /\ unsaved # NoDigest
    BY <2>2 DEF Goes, RunnerType, Stages, Shape
  <2>3. CASE Goes("assembling", NoDigest)
    BY <2>3 DEF Goes, RunnerType, Stages, Shape
  <2> QED BY <2>1, <2>2, <2>3 DEF Checks
<1>3. Shape' BY <1>2 DEF Shape, Checks, surroundings
<1>4. InOrder' BY DEF InOrder, Checks
<1>5. Latest' = Latest /\ digests' = digests /\ unsaved' = unsaved BY DEF Checks, Latest
<1>6. runner'.at = "keeping" => FollowsOn(runner'.d)
  BY DEF Checks, Goes, Coming
<1>7. runner'.at = "assembling" /\ digests # <<>> => runner'.began - Latest.end >= MinGap
  BY DEF Checks, Goes, Due, LongSince
<1> QED BY <1>3, <1>4, <1>5, <1>6, <1>7 DEF Coming, FollowsOn

\* Assemble starts from the last digest, or from a week ago when that is far.
LEMMA ReadsInv == ASSUME DigestInv, Reads PROVE DigestInv'
<1> USE DEF DigestInv
<1> DEFINE d == [start |-> StartOf, end |-> now, announced |-> FALSE,
                 events |-> {e \in fed : StartOf < e /\ e =< now}]
<1>1. digests # <<>> => Latest \in DigestType BY DEF Shape, Latest
<1>2. StartOf \in Int BY <1>1 DEF StartOf, AWeekAgo, Shape, DigestType
<1>3. d \in DigestType BY <1>2 DEF DigestType, Shape
<1>4. runner' = [at |-> "keeping", d |-> d, began |-> now] BY DEF Reads, Goes
<1>5. Shape' BY <1>3, <1>4 DEF Shape, RunnerType, Stages, Reads, surroundings
<1>6. InOrder' BY DEF InOrder, Reads
<1>7. Within(d) BY DEF Within, Shape
<1>8. digests # <<>> => Follows(d, Latest)
  BY <1>1 DEF Follows, StartOf, AWeekAgo, Coming, Reads, Shape, DigestType
<1> HIDE DEF d
<1>9. Latest' = Latest /\ digests' = digests /\ unsaved' = unsaved BY DEF Reads, Latest
<1> QED BY <1>4, <1>5, <1>6, <1>7, <1>8, <1>9 DEF Coming, FollowsOn

\* The digest kept becomes the latest; nothing else waits to be kept.
LEMMA KeepsInv == ASSUME DigestInv, Keeps PROVE DigestInv'
<1> USE DEF DigestInv
<1> DEFINE ds == Newest(<<runner.d>> \o digests)
<1>1. runner.d \in DigestType /\ FollowsOn(runner.d) BY DEF Keeps, Shape, Coming
<1>2. /\ ds \in Seq(DigestType) /\ ds # <<>>
      /\ \A k \in DOMAIN ds : Within(ds[k])
      /\ \A k \in 2..Len(ds) : Follows(ds[k - 1], ds[k])
  BY <1>1, KeepsOrder
<1>3. digests' = ds /\ unsaved' = NoDigest BY DEF Keeps
<1> HIDE DEF ds
<1>4. runner' \in RunnerType /\ runner'.at \in {"idle", "announcing"}
  BY <1>1 DEF Keeps, Goes, Idle, NoDigest, Never, RunnerType, Stages, Shape
<1>5. Shape' BY <1>2, <1>3, <1>4 DEF Shape, Keeps, surroundings
<1>6. InOrder' BY <1>2, <1>3 DEF InOrder
<1> QED BY <1>3, <1>4, <1>5, <1>6 DEF Coming

\* What could not be kept follows the latest for as long as nothing is kept.
LEMMA KeepFailsInv == ASSUME DigestInv, KeepFails PROVE DigestInv'
<1> USE DEF DigestInv
<1>1. runner' = Idle /\ unsaved' = runner.d BY DEF KeepFails
<1>2. runner.d \in DigestType BY DEF KeepFails, Shape
<1>3. Shape' BY <1>1, <1>2 DEF Shape, Idle, NoDigest, Never, RunnerType, Stages, KeepFails, surroundings
<1>4. InOrder' BY DEF InOrder, KeepFails
<1>5. FollowsOn(unsaved)' BY <1>1 DEF KeepFails, Coming, FollowsOn, Latest
<1> QED BY <1>1, <1>3, <1>4, <1>5 DEF Coming, Idle

\* Marking a digest announced changes nothing else of it.
LEMMA MarksInv == ASSUME DigestInv, Marks PROVE DigestInv'
<1> USE DEF DigestInv
<1>1. DOMAIN digests' = DOMAIN digests /\ Len(digests') = Len(digests) /\ digests' \in Seq(DigestType)
  <2> DEFINE marked(k) == IF digests[k].end = runner.d.end
                          THEN [digests[k] EXCEPT !.announced = TRUE] ELSE digests[k]
  <2>1. digests' = [k \in 1..Len(digests) |-> marked(k)] /\ Len(digests) \in Nat BY DEF Marks, Shape
  <2>2. ASSUME NEW k \in 1..Len(digests) PROVE marked(k) \in DigestType
    <3>1. digests[k] \in DigestType BY DEF Shape
    <3>2. [digests[k] EXCEPT !.announced = TRUE] \in DigestType BY <3>1 DEF DigestType
    <3> QED BY <3>1, <3>2
  <2> HIDE DEF marked
  <2>3. digests' \in Seq(DigestType) /\ Len(digests') = Len(digests) BY <2>1, <2>2
  <2> QED BY <2>3 DEF Shape
<1>2. \A k \in DOMAIN digests : /\ digests'[k].start = digests[k].start
                                /\ digests'[k].end = digests[k].end
                                /\ digests'[k].events = digests[k].events
  BY DEF Marks, Shape, DigestType
<1>3. runner' = Idle /\ unsaved' = unsaved BY DEF Marks
<1>4. Shape' BY <1>1, <1>3 DEF Shape, Idle, NoDigest, Never, RunnerType, Stages, Marks, surroundings
<1>5. InOrder'
  <2>1. \A k \in DOMAIN digests : Within(digests'[k]) BY <1>2 DEF InOrder, Within
  <2>2. ASSUME NEW k \in 2..Len(digests) PROVE Follows(digests'[k - 1], digests'[k])
    <3>1. k - 1 \in DOMAIN digests /\ k \in DOMAIN digests BY DEF Shape
    <3> QED BY <1>2, <3>1 DEF InOrder, Follows
  <2> QED BY <1>1, <2>1, <2>2 DEF InOrder
<1>6. digests' # <<>> => digests # <<>> /\ Latest'.end = Latest.end
  BY <1>1, <1>2 DEF Latest, Shape
<1>7. Coming' BY <1>3, <1>6 DEF Coming, FollowsOn, Follows, Within, Idle
<1> QED BY <1>4, <1>5, <1>7

\* The other steps of the runner end what it was doing, or announce.
LEMMA RunnerInv ==
    ASSUME DigestInv, ReadFails \/ Announces \/ AnnounceFails \/ Restarts
    PROVE  DigestInv'
<1> USE DEF DigestInv
<1>1. CASE ReadFails \/ AnnounceFails
  <2>1. runner' = Idle /\ UNCHANGED <<now, surroundings, digests, unsaved>>
    BY <1>1 DEF ReadFails, AnnounceFails
  <2>2. Shape' BY <2>1 DEF Shape, Idle, NoDigest, Never, RunnerType, Stages, surroundings
  <2> QED BY <2>1, <2>2, Frame DEF Idle
<1>2. CASE Announces
  <2>1. Shape' BY <1>2 DEF Announces, Goes, Shape, RunnerType, Stages, surroundings
  <2> QED BY <1>2, <2>1, Frame DEF Announces, Goes
<1>3. CASE Restarts
  <2>1. Shape' BY <1>3 DEF Restarts, Shape, Idle, NoDigest, Never, RunnerType, Stages, Wheres
  <2>2. InOrder' BY <1>3 DEF Restarts, InOrder
  <2>3. Coming' BY <1>3 DEF Restarts, Coming, Idle
  <2> QED BY <2>1, <2>2, <2>3
<1> QED BY <1>1, <1>2, <1>3

\* The app, the feed and the clock leave the digests alone.
LEMMA SurroundingsInv ==
    ASSUME DigestInv,
           \/ \E on \in BOOLEAN : Sets(on)
           \/ Lapses \/ NightFalls \/ NightEnds
           \/ ZoneIsRead \/ ZoneChanges \/ Happens \/ IsFed \/ Tick
    PROVE  DigestInv'
<1> USE DEF DigestInv
<1>1. UNCHANGED <<digests, unsaved, runner>>
  BY DEF Sets, Lapses, NightFalls, NightEnds, ZoneIsRead, ZoneChanges, Happens, IsFed, Tick
<1>2. InOrder' /\ Coming' BY <1>1, Frame
<1>3. now' \in Nat /\ fed' \subseteq Nat /\ happened' \subseteq Nat /\ zone' \in Wheres
  <2>1. CASE \/ \E on \in BOOLEAN : Sets(on)
             \/ Lapses \/ NightFalls \/ NightEnds
    BY <2>1 DEF Sets, Lapses, NightFalls, NightEnds, Shape
  <2>2. CASE ZoneIsRead BY <2>2 DEF ZoneIsRead, Shape, Wheres, In
  <2>3. CASE ZoneChanges BY <2>3 DEF ZoneChanges, Shape, Wheres, In
  <2>4. CASE Happens BY <2>4 DEF Happens, Shape
  <2>5. CASE IsFed BY <2>5 DEF IsFed, Shape
  <2>6. CASE Tick BY <2>6 DEF Tick, surroundings, Shape
  <2> QED BY <2>1, <2>2, <2>3, <2>4, <2>5, <2>6
<1> QED BY <1>1, <1>2, <1>3 DEF Shape

\* Every step keeps it.
LEMMA StepInv == DigestInv /\ [Next]_vars => DigestInv'
<1> SUFFICES ASSUME DigestInv, [Next]_vars PROVE DigestInv'
    OBVIOUS
<1>1. CASE UNCHANGED vars
  <2>1. Shape' BY <1>1 DEF DigestInv, vars, Shape
  <2> QED BY <1>1, <2>1, Frame DEF DigestInv, vars
<1> QED
  BY <1>1, ChecksInv, ReadsInv, KeepsInv, KeepFailsInv, MarksInv, RunnerInv, SurroundingsInv
  DEF Next, Runs

\* The invariant holds throughout.
LEMMA Invariant == Spec => []DigestInv
BY InitInv, StepInv, PTL DEF Spec

\* "One a week, even if the time zone changes under it" (runner.go:100).
THEOREM OneAWeekHolds == Spec => []OneAWeek
<1>1. DigestInv => OneAWeek BY DEF DigestInv, InOrder, Follows, OneAWeek
<1> QED BY <1>1, Invariant, PTL

\* Each digest starts where the one before ended, when that is near enough,
\* and counts nothing that one counted (digest.go:165-166).
THEOREM NothingTwiceHolds == Spec => []NothingTwice
<1>1. DigestInv => NothingTwice
  <2> SUFFICES ASSUME DigestInv, NEW k \in 2..Len(digests)
               PROVE  /\ digests[k - 1].events \cap digests[k].events = {}
                      /\ digests[k - 1].end - digests[k].end =< Reach
                            => digests[k - 1].start = digests[k].end
      BY DEF NothingTwice
  <2>1. k - 1 \in DOMAIN digests /\ k \in DOMAIN digests
        /\ digests[k - 1] \in DigestType /\ digests[k] \in DigestType
    BY DEF DigestInv, Shape
  <2>2. Follows(digests[k - 1], digests[k]) /\ Within(digests[k - 1]) /\ Within(digests[k])
    BY <2>1 DEF DigestInv, InOrder
  <2> QED BY <2>1, <2>2 DEF Follows, Within, DigestType
<1> QED BY <1>1, Invariant, PTL
=============================================================================
