---------------------------- MODULE StatsProofs -----------------------------
(***************************************************************************)
(* Proofs about the reports of the front-end, for any number of segments,  *)
(* levels, milliseconds and requests, whether or not requests fail.        *)
(*                                                                         *)
(* The newest time of a tick is that of the newest report, so the filter   *)
(* of advance keeps no report at all; what remains to be shown is that     *)
(* everything it discards was sent or is superseded by what was sent.      *)
(***************************************************************************)
EXTENDS Stats, TLAPS, FiniteSetTheorems, WellFoundedInduction

\* The progress of a download is listed in the order of its levels and of the clock.
Ordered(reports) ==
  \A j, k \in DOMAIN reports :
    /\ j < k /\ reports[j].index = reports[k].index
    /\ reports[j].state = "progress" /\ reports[k].state = "progress"
    => /\ reports[j].timestamp <= reports[k].timestamp
       /\ reports[j].level < reports[k].level

\* Reports are about what has happened.
OrderInv ==
  /\ Ordered(segments)
  /\ \A k \in DOMAIN segments :
       /\ segments[k].timestamp <= now
       /\ segments[k].state = "progress" => segments[k].level <= downloads[segments[k].index]

\* What is left of a tick is its buffer level.
FreshInv ==
  /\ \A v \in values : v.name = "bufferLevel" /\ v.tick = measured /\ v.timestamp <= now
  /\ \A v, w \in values : v = w

StatsInv == TypeOK /\ DownloadsOnce /\ OrderInv /\ FreshInv
-----------------------------------------------------------------------------
(* The operators.                                                          *)

\* A nonempty set of natural numbers has a least element.
LEMMA Least ==
  ASSUME NEW T, T \subseteq Nat, T # {}
  PROVE  \E x \in T : \A y \in T : x <= y
<1> DEFINE R == {ss \in Nat \X Nat : ss[1] < ss[2]}
<1>1. IsWellFoundedOn(R, Nat)
  BY NatLessThanWellFounded DEF OpToRel
<1>2. \A x, y \in Nat : x < y => <<x, y>> \in R
  OBVIOUS
<1> HIDE DEF R
<1>3. PICK x \in T : \A y \in T : ~ (<<y, x>> \in R)
  BY <1>1, WFMin
<1>4. \A y \in T : ~ (y < x)
  BY <1>2, <1>3
<1> QED
  BY <1>4

\* A nonempty set of bounded natural numbers has a greatest element.
LEMMA Greatest ==
  ASSUME NEW n \in Nat, NEW T, T \subseteq 0 .. n, T # {}
  PROVE  \E x \in T : \A y \in T : y <= x
<1> DEFINE D == {n - x : x \in T}
<1>1. D \subseteq Nat /\ D # {}
  <2>1. \A x \in T : n - x \in Nat
    OBVIOUS
  <2>2. PICK x : x \in T
    OBVIOUS
  <2>3. n - x \in D
    BY <2>2
  <2> QED
    BY <2>1, <2>3
<1>2. PICK d \in D : \A e \in D : d <= e
  BY <1>1, Least
<1>3. PICK x \in T : d = n - x
  OBVIOUS
<1>4. ASSUME NEW y \in T PROVE y <= x
  <2>1. n - y \in D
    OBVIOUS
  <2> QED
    BY <1>2, <1>3, <2>1
<1> QED
  BY <1>4

\* What is in a list of reports.
LEMMA Listed ==
  ASSUME NEW reports \in Seq(Report)
  PROVE  /\ DOMAIN reports = 1 .. Len(reports) /\ Len(reports) \in Nat
         /\ \A k \in DOMAIN reports : /\ reports[k] \in Report
                                     /\ reports[k].timestamp \in 0 .. MaxTime
         /\ Elements(reports) \subseteq Report
<1>1. DOMAIN reports = 1 .. Len(reports) /\ Len(reports) \in Nat
  OBVIOUS
<1>2. \A k \in 1 .. Len(reports) : reports[k] \in Report
  OBVIOUS
<1>3. \A r \in Report : r.timestamp \in 0 .. MaxTime
  BY DEF Report
<1> QED
  BY <1>1, <1>2, <1>3 DEF Elements

\* The newest time of a tick is not before any report or player time of it.
LEMMA NewestIsNewest ==
  ASSUME NEW reports \in Seq(Report), NEW measures, measures \subseteq Value
  PROVE  /\ Newest(reports, measures) \in 0 .. MaxTime
         /\ \A k \in DOMAIN reports : reports[k].timestamp <= Newest(reports, measures)
         /\ \A v \in measures :
              v.name = "playerTime" => v.timestamp <= Newest(reports, measures)
<1> DEFINE T == {0} \cup {r.timestamp : r \in Elements(reports)}
                    \cup {v.timestamp : v \in {v \in measures : v.name = "playerTime"}}
<1>1. T \subseteq 0 .. MaxTime /\ T # {}
  <2>1. \A r \in Elements(reports) : r.timestamp \in 0 .. MaxTime
    BY Listed DEF Report
  <2>2. \A v \in measures : v.timestamp \in 0 .. MaxTime
    BY DEF Value
  <2> QED
    BY <2>1, <2>2, StatsAssumption
<1>2. \E t \in T : \A u \in T : u <= t
  BY <1>1, StatsAssumption, Greatest
<1>3. Newest(reports, measures) = MaxOf(T)
  BY DEF Newest
<1>4. \A k \in DOMAIN reports : reports[k].timestamp \in T
  BY DEF Elements
<1>5. \A v \in measures : v.name = "playerTime" => v.timestamp \in T
  OBVIOUS
<1> HIDE DEF T
<1>6. MaxOf(T) \in T /\ \A u \in T : u <= MaxOf(T)
  BY <1>2 DEF MaxOf
<1> QED
  BY <1>1, <1>3, <1>4, <1>5, <1>6

\* The filter keeps nothing of what is not later.
LEMMA NothingLater ==
  ASSUME NEW reports \in Seq(Report), NEW time \in 0 .. MaxTime,
         \A k \in DOMAIN reports : reports[k].timestamp <= time
  PROVE  LaterReports(reports, time) = <<>>
<1> DEFINE kept == {k \in DOMAIN reports : IsLater(reports[k], time)}
           nth(n) == CHOOSE k \in kept : Cardinality({j \in kept : j <= k}) = n
<1>1. kept = {}
  <2>1. ASSUME NEW k \in DOMAIN reports PROVE ~ IsLater(reports[k], time)
    <3>1. reports[k].timestamp \in Int
      BY Listed, StatsAssumption
    <3> QED
      BY <3>1, StatsAssumption DEF IsLater
  <2> QED
    BY <2>1
<1>2. Cardinality(kept) = 0
  BY <1>1, FS_EmptySet
<1>3. LaterReports(reports, time) = [n \in 1 .. Cardinality(kept) |-> reports[nth(n)]]
  BY DEF LaterReports
<1> HIDE DEF kept, nth
<1> QED
  BY <1>2, <1>3

\* A tick empties the list of reports.
LEMMA TickEmpties ==
  ASSUME NEW reports \in Seq(Report), NEW measures, measures \subseteq Value,
         callback(reports, measures)
  PROVE  /\ segments' = <<>>
         /\ values' = {v \in measures : v.timestamp > Newest(reports, measures)}
<1>1. LaterReports(reports, Newest(reports, measures)) = <<>>
  BY NewestIsNewest, NothingLater
<1> QED
  BY <1>1 DEF callback, advance, IsLater

\* What a tick sends is what is listed, but for superseded progress.
LEMMA SentIsListed ==
  ASSUME NEW reports \in Seq(Report), Ordered(reports)
  PROVE  /\ serialize(reports) \subseteq Elements(reports)
         /\ \A r \in Elements(reports) \ serialize(reports) :
              \E s \in serialize(reports) : Newer(s, r)
         /\ \A i : Ended(i, serialize(reports)) <=> Ended(i, Elements(reports))
<1> DEFINE progress(i) == {k \in DOMAIN reports :
                             reports[k].state = "progress" /\ reports[k].index = i}
           After(j, k) == \/ reports[j].timestamp < reports[k].timestamp
                          \/ reports[j].timestamp = reports[k].timestamp /\ j <= k
           latest(i) == CHOOSE k \in progress(i) : \A j \in progress(i) : After(j, k)
<1>1. prepareLoading(reports) = {reports[latest(i)] : i \in {i \in Segments : progress(i) # {}}}
  BY DEF prepareLoading
<1>2. ASSUME NEW i \in Segments, progress(i) # {}
      PROVE  /\ latest(i) \in progress(i)
             /\ \A j \in progress(i) : j <= latest(i)
  <2>1. progress(i) \subseteq 0 .. Len(reports)
    BY Listed
  <2>2. PICK g \in progress(i) : \A j \in progress(i) : j <= g
    BY <1>2, <2>1, Listed, Greatest
  <2>3. \A j \in progress(i) : j # g => reports[j].timestamp <= reports[g].timestamp
    BY <2>1, <2>2 DEF Ordered
  <2>4. \A j \in progress(i) : reports[j].timestamp \in Int /\ j \in Int
    BY <2>1, Listed
  <2>5. \A j \in progress(i) : After(j, g)
    BY <2>2, <2>3, <2>4
  <2> HIDE DEF progress
  <2>6. latest(i) \in progress(i) /\ \A j \in progress(i) : After(j, latest(i))
    BY <2>2, <2>5
  <2> HIDE DEF latest
  <2> QED
    BY <2>2, <2>3, <2>4, <2>6
<1> HIDE DEF latest
<1>3. serialize(reports) \subseteq Elements(reports)
  BY <1>1, <1>2 DEF serialize, Elements
<1>4. ASSUME NEW r \in Elements(reports) \ serialize(reports)
      PROVE  \E s \in serialize(reports) : Newer(s, r)
  <2>1. PICK k \in DOMAIN reports : r = reports[k]
    BY DEF Elements
  <2> DEFINE i == r.index
  <2>2. r.state = "progress" /\ i \in Segments /\ k \in progress(i)
    BY <2>1, Listed DEF serialize, Report
  <2>3. reports[latest(i)] \in serialize(reports)
    BY <1>1, <2>2 DEF serialize
  <2>4. latest(i) \in progress(i) /\ k <= latest(i) /\ k # latest(i)
    BY <1>2, <2>1, <2>2, <2>3
  <2>5. k < latest(i)
    BY <2>4, Listed
  <2>6. r.level < reports[latest(i)].level
    BY <2>1, <2>2, <2>4, <2>5 DEF Ordered
  <2>7. Newer(reports[latest(i)], r)
    <3>1. reports[latest(i)] \in Report /\ r \in Report
      BY <2>1, <2>4, Listed
    <3>2. reports[latest(i)].level \in Int /\ r.level \in Int
      BY <3>1, StatsAssumption DEF Report
    <3> QED
      BY <2>2, <2>4, <2>6, <3>2 DEF Newer
  <2> QED
    BY <2>3, <2>7
<1>5. \A i : Ended(i, serialize(reports)) <=> Ended(i, Elements(reports))
  BY <1>3 DEF Ended, serialize
<1> QED
  BY <1>3, <1>4, <1>5
-----------------------------------------------------------------------------
(* The induction.                                                          *)

\* A list with one more report.
LEMMA Added ==
  ASSUME NEW reports \in Seq(Report), NEW r \in Report
  PROVE  LET more == Append(reports, r) IN
         /\ more \in Seq(Report)
         /\ DOMAIN more = DOMAIN reports \cup {Len(reports) + 1}
         /\ \A k \in DOMAIN reports : more[k] = reports[k] /\ k < Len(reports) + 1
         /\ more[Len(reports) + 1] = r
         /\ Elements(more) = Elements(reports) \cup {r}
<1> DEFINE more == Append(reports, r)
<1>1. more \in Seq(Report) /\ Len(more) = Len(reports) + 1 /\ Len(reports) \in Nat
  OBVIOUS
<1>2. DOMAIN more = 1 .. Len(reports) + 1 /\ DOMAIN reports = 1 .. Len(reports)
  BY <1>1
<1>3. DOMAIN more = DOMAIN reports \cup {Len(reports) + 1}
  BY <1>1, <1>2
<1>4. \A k \in DOMAIN reports : more[k] = reports[k] /\ k < Len(reports) + 1
  BY <1>2
<1>5. more[Len(reports) + 1] = r
  OBVIOUS
<1> HIDE DEF more
<1>6. Elements(more) = Elements(reports) \cup {r}
  BY <1>3, <1>4, <1>5 DEF Elements
<1> QED
  BY <1>1, <1>3, <1>4, <1>5, <1>6 DEF more

\* The player loads a segment.
LEMMA LoadingIsSegment ==
  ASSUME TypeOK
  PROVE  Loading \in Segments
<1> DEFINE missing == {j \in Segments : downloads[j] <= MaxLevel}
<1>1. \E i \in Segments :
        \A j \in Segments : downloads[j] <= MaxLevel => i <= j /\ downloads[i] <= MaxLevel
  <2>1. CASE missing = {}
    BY <2>1, StatsAssumption
  <2>2. CASE missing # {}
    <3>1. missing \subseteq Nat
      BY StatsAssumption
    <3>2. PICK i \in missing : \A j \in missing : i <= j
      BY <2>2, <3>1, Least
    <3> QED
      BY <3>2
  <2> QED
    BY <2>1, <2>2
<1> QED
  BY <1>1 DEF Loading

\* A tick keeps the invariant, but for the values it leaves.
LEMMA TickInv ==
  ASSUME StatsInv, NEW reports \in Seq(Report), NEW measures, measures \subseteq Value,
         callback(reports, measures), Ordered(reports),
         \A i : Ended(i, Elements(reports)) <=> Ended(i, Elements(segments))
  PROVE  /\ segments' = <<>>
         /\ ticks' = ticks + 1 /\ ticks' \in 0 .. MaxRequests
         /\ open' \subseteq [tick : 1 .. ticks', segments : SUBSET Report]
         /\ reported' \in [Segments -> 0 .. MaxRequests]
         /\ DownloadsOnce' /\ OrderInv'
<1> DEFINE sent == serialize(reports)
<1>1. segments' = <<>>
  BY TickEmpties
<1>2. ticks' = ticks + 1 /\ ticks < MaxRequests /\ ticks' \in 0 .. MaxRequests
  BY StatsAssumption DEF callback, StatsInv, TypeOK
<1>3. open' \subseteq [tick : 1 .. ticks', segments : SUBSET Report]
  <2>1. sent \in SUBSET Report
    BY SentIsListed, Listed
  <2>2. open' = open \cup {[tick |-> ticks + 1, segments |-> sent]}
    BY DEF callback
  <2> HIDE DEF sent
  <2>3. 1 .. ticks \subseteq 1 .. ticks' /\ ticks + 1 \in 1 .. ticks'
    BY <1>2, StatsAssumption DEF StatsInv, TypeOK
  <2> QED
    BY <2>1, <2>2, <2>3 DEF StatsInv, TypeOK
<1>4. Elements(<<>>) = {}
  BY DEF Elements
<1>5. ASSUME NEW i \in Segments
      PROVE  /\ reported'[i] = reported[i] + (IF Ended(i, Elements(segments)) THEN 1 ELSE 0)
             /\ reported'[i] \in 0 .. MaxRequests
             /\ reported'[i] + (IF Ended(i, Elements(segments')) THEN 1 ELSE 0)
                  = IF downloads[i] = MaxLevel + 1 THEN 1 ELSE 0
  <2>1. reported'[i] = reported[i] + (IF Ended(i, sent) THEN 1 ELSE 0)
    BY DEF callback
  <2>2. Ended(i, sent) <=> Ended(i, Elements(segments))
    BY SentIsListed
  <2>3. ~ Ended(i, Elements(segments'))
    BY <1>1, <1>4 DEF Ended
  <2>4. /\ reported[i] + (IF Ended(i, Elements(segments)) THEN 1 ELSE 0)
             = IF downloads[i] = MaxLevel + 1 THEN 1 ELSE 0
        /\ reported[i] \in 0 .. MaxRequests
    BY DEF StatsInv, TypeOK, DownloadsOnce
  <2> HIDE DEF sent
  <2> QED
    BY <1>2, <2>1, <2>2, <2>3, <2>4, StatsAssumption DEF StatsInv, TypeOK
<1>6. reported' \in [Segments -> 0 .. MaxRequests]
  <2>1. reported' = [i \in Segments |-> reported[i] + (IF Ended(i, sent) THEN 1 ELSE 0)]
    BY DEF callback
  <2>2. reported' = [i \in Segments |-> reported'[i]]
    BY <2>1
  <2> HIDE DEF sent
  <2> QED
    BY <1>5, <2>2
<1>7. DownloadsOnce'
  <2>1. downloads' = downloads
    BY DEF callback
  <2> QED
    BY <1>5, <2>1 DEF DownloadsOnce, Ended, Elements
<1>8. OrderInv'
  BY <1>1 DEF OrderInv, Ordered
<1> QED
  BY <1>1, <1>2, <1>3, <1>6, <1>7, <1>8

\* A callback registers a report of now about a download that goes on.
LEMMA RegisterInv ==
  ASSUME StatsInv, NEW i \in Segments, NEW r \in Report,
         r.index = i, r.timestamp = now, downloads[i] <= MaxLevel,
         addSegment(r), downloads' = [downloads EXCEPT ![i] = IF r.state = "progress" THEN r.level
                                                              ELSE MaxLevel + 1],
         \/ r.state = "progress" /\ r.level = downloads[i] + 1
         \/ r.state = "downloaded",
         UNCHANGED <<now, values, sendVars>>
  PROVE  StatsInv'
<1> USE DEF StatsInv
<1> DEFINE last == Len(segments) + 1
<1>0. segments \in Seq(Report)
  BY DEF TypeOK
<1>1. segments' = Append(segments, r)
  BY DEF addSegment
<1>2. /\ segments' \in Seq(Report)
      /\ DOMAIN segments' = DOMAIN segments \cup {last}
      /\ \A k \in DOMAIN segments : segments'[k] = segments[k] /\ k < last
      /\ segments'[last] = r
      /\ Elements(segments') = Elements(segments) \cup {r}
  BY <1>0, <1>1, Added
<1>3. /\ r.level \in 0 .. MaxLevel /\ now \in 0 .. MaxTime /\ last \in Int
      /\ \A k \in DOMAIN segments : /\ segments[k] \in Report /\ k \in Int
                                    /\ segments[k].level \in 0 .. MaxLevel
                                    /\ segments[k].timestamp \in 0 .. MaxTime
  <2>1. \A x \in Report : x.level \in 0 .. MaxLevel /\ x.timestamp \in 0 .. MaxTime
    BY DEF Report
  <2> QED
    BY <1>0, <2>1, Listed DEF TypeOK
<1>4. /\ downloads' \in [Segments -> 0 .. MaxLevel + 1]
      /\ downloads[i] \in 0 .. MaxLevel + 1
      /\ r.state = "progress" => downloads'[i] = downloads[i] + 1 /\ downloads'[i] = r.level
      /\ r.state = "downloaded" => downloads'[i] = MaxLevel + 1
      /\ \A j \in Segments : j # i => downloads'[j] = downloads[j]
  BY <1>3, StatsAssumption DEF TypeOK
<1> HIDE DEF last
<1>5. TypeOK'
  BY <1>2, <1>4 DEF TypeOK, sendVars
<1>6. DownloadsOnce'
  <2>1. ASSUME NEW j \in Segments
        PROVE  reported[j] + (IF Ended(j, Elements(segments')) THEN 1 ELSE 0)
                 = IF downloads'[j] = MaxLevel + 1 THEN 1 ELSE 0
    <3>1. /\ reported[j] + (IF Ended(j, Elements(segments)) THEN 1 ELSE 0)
               = IF downloads[j] = MaxLevel + 1 THEN 1 ELSE 0
          /\ reported[j] \in 0 .. MaxRequests
      BY DEF DownloadsOnce, TypeOK
    <3>2. Ended(j, Elements(segments'))
            <=> Ended(j, Elements(segments)) \/ (j = i /\ r.state = "downloaded")
      BY <1>2 DEF Ended
    <3>3. CASE j # i
      BY <1>4, <3>1, <3>2, <3>3
    <3>4. CASE j = i /\ r.state = "downloaded"
      BY <1>4, <3>1, <3>2, <3>4, StatsAssumption
    <3>5. CASE j = i /\ r.state = "progress"
      BY <1>3, <1>4, <3>1, <3>2, <3>5, StatsAssumption
    <3> QED
      BY <3>3, <3>4, <3>5
  <2>2. reported' = reported
    BY DEF sendVars
  <2> QED
    BY <2>1, <2>2 DEF DownloadsOnce, Ended, Elements
<1>7. OrderInv'
  <2>1. ASSUME NEW j \in DOMAIN segments, segments[j].index = i, segments[j].state = "progress",
               r.state = "progress"
        PROVE  segments[j].timestamp <= r.timestamp /\ segments[j].level < r.level
    <3>1. segments[j].timestamp <= now /\ segments[j].level <= downloads[i]
      BY <2>1 DEF OrderInv
    <3> QED
      BY <1>3, <1>4, <2>1, <3>1, StatsAssumption
  <2>2. Ordered(segments')
    <3> SUFFICES ASSUME NEW j \in DOMAIN segments', NEW k \in DOMAIN segments',
                        j < k, segments'[j].index = segments'[k].index,
                        segments'[j].state = "progress", segments'[k].state = "progress"
                 PROVE  /\ segments'[j].timestamp <= segments'[k].timestamp
                        /\ segments'[j].level < segments'[k].level
      BY DEF Ordered
    <3>1. CASE k \in DOMAIN segments
      <4>1. j \in DOMAIN segments
        BY <1>2, <1>3, <3>1
      <4> QED
        BY <1>2, <3>1, <4>1 DEF OrderInv, Ordered
    <3>2. CASE k = last
      <4>1. j \in DOMAIN segments
        BY <1>2, <1>3, <3>2
      <4> QED
        BY <1>2, <2>1, <3>2, <4>1
    <3> QED
      BY <1>2, <3>1, <3>2
  <2>3. ASSUME NEW k \in DOMAIN segments'
        PROVE  /\ segments'[k].timestamp <= now
               /\ segments'[k].state = "progress"
                    => segments'[k].level <= downloads'[segments'[k].index]
    <3>1. CASE k = last
      BY <1>2, <1>3, <1>4, <3>1
    <3>2. CASE k \in DOMAIN segments
      <4>1. segments[k].index \in Segments
        BY <1>3, <3>2 DEF Report
      <4>2. downloads[segments[k].index] <= downloads'[segments[k].index]
        <5>1. downloads[i] <= downloads'[i]
          <6>1. CASE r.state = "progress"
            BY <1>4, <6>1, StatsAssumption
          <6>2. CASE r.state = "downloaded"
            BY <1>4, <6>2, StatsAssumption
          <6> QED
            BY <6>1, <6>2
        <5>2. \A j \in Segments : downloads[j] \in Int
          BY StatsAssumption DEF TypeOK
        <5> QED
          BY <1>4, <4>1, <5>1, <5>2
      <4>3. /\ downloads[segments[k].index] \in Int /\ downloads'[segments[k].index] \in Int
            /\ segments[k].level \in Int
        <5>1. \A j \in Segments : downloads[j] \in Int /\ downloads'[j] \in Int
          BY <1>4, StatsAssumption DEF TypeOK
        <5>2. segments[k].level \in Int
          BY <1>3, <3>2, StatsAssumption
        <5> QED
          BY <4>1, <5>1, <5>2
      <4>4. /\ segments[k].timestamp <= now
            /\ segments[k].state = "progress" => segments[k].level <= downloads[segments[k].index]
        BY <3>2 DEF OrderInv
      <4> QED
        BY <1>2, <3>2, <4>2, <4>3, <4>4
    <3> QED
      BY <1>2, <3>1, <3>2
  <2>4. now' = now
    OBVIOUS
  <2> QED
    BY <2>2, <2>3, <2>4 DEF OrderInv, Ordered
<1>8. FreshInv'
  BY DEF FreshInv, sendVars
<1> QED
  BY <1>5, <1>6, <1>7, <1>8

\* What the controller holds when the player has measures.
Measure(name, time) == [name |-> name, tick |-> ticks + 1, timestamp |-> time]

Measures(player, buffer) ==
  values \cup {Measure("droppedFrames", now), Measure("playerTime", player),
               Measure("bufferLevel", buffer)}

\* The tick of a player that has measures: one more report, which ends nothing.
LEMMA MetricsTick ==
  ASSUME StatsInv, getMetrics
  PROVE  \E player \in now .. MaxTime, buffer \in now .. MaxTime, reports \in Seq(Report) :
           /\ player <= buffer /\ now' = buffer /\ measured' = ticks + 1
           /\ Measures(player, buffer) \subseteq Value
           /\ callback(reports, Measures(player, buffer))
           /\ Ordered(reports) /\ Elements(segments) \subseteq Elements(reports)
           /\ \A i : Ended(i, Elements(reports)) <=> Ended(i, Elements(segments))
<1> DEFINE loading(since) == [index |-> Loading, state |-> "loading", level |-> 0,
                              timestamp |-> since]
<1>1. PICK since \in 0 .. now, player \in now .. MaxTime, buffer \in now .. MaxTime :
        /\ player <= buffer /\ buffer <= now + 1
        /\ now' = buffer
        /\ measured' = ticks + 1
        /\ callback(Append(segments, loading(since)), Measures(player, buffer))
  BY Zenon DEF getMetrics, Measures, Measure
<1> DEFINE reports == Append(segments, loading(since))
<1>2. segments \in Seq(Report) /\ now \in 0 .. MaxTime /\ ticks \in 0 .. MaxRequests
  BY DEF StatsInv, TypeOK
<1>3. loading(since) \in Report
  BY <1>2, LoadingIsSegment, StatsAssumption DEF Report, StatsInv
<1>4. /\ reports \in Seq(Report)
      /\ DOMAIN reports = DOMAIN segments \cup {Len(segments) + 1}
      /\ \A k \in DOMAIN segments : reports[k] = segments[k] /\ k < Len(segments) + 1
      /\ reports[Len(segments) + 1].state = "loading"
      /\ Elements(reports) = Elements(segments) \cup {loading(since)}
  BY <1>2, <1>3, Added
<1>5. ticks < MaxRequests /\ ticks + 1 \in 1 .. MaxRequests
  BY <1>1, <1>2, StatsAssumption DEF callback
<1>6. Measures(player, buffer) \subseteq Value
  <2>1. values \subseteq Value
    BY DEF StatsInv, TypeOK
  <2>2. \A name \in {"droppedFrames", "playerTime", "bufferLevel"}, time \in 0 .. MaxTime :
          Measure(name, time) \in Value
    BY <1>5 DEF Value, Measure
  <2>3. player \in 0 .. MaxTime /\ buffer \in 0 .. MaxTime
    BY <1>2, StatsAssumption
  <2> QED
    BY <1>2, <2>1, <2>2, <2>3 DEF Measures
<1>7. Ordered(reports)
  BY <1>4 DEF Ordered, StatsInv, OrderInv
<1>8. \A i : Ended(i, Elements(reports)) <=> Ended(i, Elements(segments))
  BY <1>4 DEF Ended
<1> HIDE DEF reports
<1>9. callback(reports, Measures(player, buffer))
  BY <1>1 DEF reports
<1> QED
  BY <1>1, <1>4, <1>6, <1>7, <1>8, <1>9

\* ... and it leaves at most its buffer level.
LEMMA MetricsInv == StatsInv /\ getMetrics => StatsInv'
<1> SUFFICES ASSUME StatsInv, getMetrics PROVE StatsInv'
  OBVIOUS
<1>1. PICK player \in now .. MaxTime, buffer \in now .. MaxTime, reports \in Seq(Report) :
        /\ player <= buffer /\ now' = buffer /\ measured' = ticks + 1
        /\ Measures(player, buffer) \subseteq Value
        /\ callback(reports, Measures(player, buffer))
        /\ Ordered(reports) /\ Elements(segments) \subseteq Elements(reports)
        /\ \A i : Ended(i, Elements(reports)) <=> Ended(i, Elements(segments))
  BY MetricsTick
<1> DEFINE measures == Measures(player, buffer)
           left     == Measure("bufferLevel", buffer)
<1>2. now \in 0 .. MaxTime /\ ticks \in 0 .. MaxRequests
  BY DEF StatsInv, TypeOK
<1>3. /\ segments' = <<>>
      /\ ticks' = ticks + 1 /\ ticks' \in 0 .. MaxRequests
      /\ open' \subseteq [tick : 1 .. ticks', segments : SUBSET Report]
      /\ reported' \in [Segments -> 0 .. MaxRequests]
      /\ DownloadsOnce' /\ OrderInv'
  BY <1>1, TickInv
<1>4. values' = {v \in measures : v.timestamp > Newest(reports, measures)}
  BY <1>1, TickEmpties
<1>5. values' \subseteq {left}
  <2>1. player <= Newest(reports, measures) /\ Newest(reports, measures) \in 0 .. MaxTime
    <3>1. /\ Measure("playerTime", player) \in measures
          /\ Measure("playerTime", player).name = "playerTime"
          /\ Measure("playerTime", player).timestamp = player
      BY DEF Measures, Measure
    <3> HIDE DEF measures
    <3> QED
      BY <1>1, <3>1, NewestIsNewest DEF measures
  <2>2. ASSUME NEW v \in measures, v # left
        PROVE  v.timestamp \in Int /\ v.timestamp <= player
    <3>1. CASE v \in values
      <4>1. v.timestamp <= now /\ v.timestamp \in 0 .. MaxTime
        BY <3>1 DEF StatsInv, FreshInv, TypeOK, Value
      <4> QED
        BY <1>2, <4>1, StatsAssumption
    <3>2. CASE v = Measure("droppedFrames", now)
      BY <1>2, <3>2, StatsAssumption DEF Measure
    <3>3. CASE v = Measure("playerTime", player)
      BY <1>2, <3>3, StatsAssumption DEF Measure
    <3> QED
      BY <2>2, <3>1, <3>2, <3>3 DEF Measures
  <2> HIDE DEF measures, left
  <2> QED
    BY <1>2, <1>4, <2>1, <2>2, StatsAssumption
<1>6. FreshInv'
  BY <1>1, <1>5 DEF FreshInv, Measure
<1>7. TypeOK'
  <2>1. UNCHANGED <<downloads, arrived>> /\ segments' \in Seq(Report)
    BY <1>1, <1>3 DEF callback
  <2>2. now' \in 0 .. MaxTime /\ measured' \in 0 .. ticks'
    BY <1>1, <1>2, <1>3, StatsAssumption
  <2>3. values' \subseteq Value
    BY <1>1, <1>4
  <2> QED
    BY <1>3, <2>1, <2>2, <2>3 DEF TypeOK, StatsInv
<1> QED
  BY <1>3, <1>6, <1>7 DEF StatsInv

\* Every step keeps the invariant.
LEMMA NextInv == StatsInv /\ [Next]_vars => StatsInv'
<1> SUFFICES ASSUME StatsInv, [Next]_vars PROVE StatsInv'
  OBVIOUS
<1>1. ASSUME NEW i \in Segments, onResourceProgress(i) PROVE StatsInv'
  <2> DEFINE r == [index |-> i, state |-> "progress", level |-> downloads[i] + 1,
                   timestamp |-> now]
  <2>1. downloads[i] \in 0 .. MaxLevel + 1 /\ downloads[i] < MaxLevel /\ now \in 0 .. MaxTime
    BY <1>1 DEF onResourceProgress, StatsInv, TypeOK
  <2>2. r \in Report /\ downloads[i] <= MaxLevel
    BY <2>1, StatsAssumption DEF Report
  <2>3. addSegment(r) /\ UNCHANGED <<now, values, sendVars>>
    BY <1>1 DEF onResourceProgress
  <2>4. downloads' = [downloads EXCEPT ![i] = IF r.state = "progress" THEN r.level ELSE MaxLevel + 1]
    BY <1>1 DEF onResourceProgress
  <2>5. /\ r.index = i /\ r.timestamp = now
        /\ r.state = "progress" /\ r.level = downloads[i] + 1
    OBVIOUS
  <2> HIDE DEF r
  <2> QED
    BY <2>2, <2>3, <2>4, <2>5, RegisterInv
<1>2. ASSUME NEW i \in Segments, onResourceSuccess(i) PROVE StatsInv'
  <2> DEFINE r == [index |-> i, state |-> "downloaded", level |-> 0, timestamp |-> now]
  <2>1. r \in Report /\ downloads[i] <= MaxLevel
    BY <1>2, StatsAssumption DEF onResourceSuccess, StatsInv, TypeOK, Report
  <2>2. addSegment(r) /\ UNCHANGED <<now, values, sendVars>>
    BY <1>2 DEF onResourceSuccess
  <2>3. downloads' = [downloads EXCEPT ![i] = IF r.state = "progress" THEN r.level ELSE MaxLevel + 1]
    BY <1>2 DEF onResourceSuccess
  <2>4. r.index = i /\ r.timestamp = now /\ r.state = "downloaded"
    OBVIOUS
  <2> HIDE DEF r
  <2> QED
    BY <2>1, <2>2, <2>3, <2>4, RegisterInv
<1>3. CASE getMetrics
  BY <1>3, MetricsInv
<1>4. CASE getMetricsThrows
  <2>1. segments \in Seq(Report) /\ values \subseteq Value /\ Ordered(segments)
    BY DEF StatsInv, TypeOK, OrderInv
  <2>2. callback(segments, values) /\ UNCHANGED <<now, measured>>
    BY <1>4 DEF getMetricsThrows
  <2>3. /\ segments' = <<>>
        /\ ticks' = ticks + 1 /\ ticks' \in 0 .. MaxRequests
        /\ open' \subseteq [tick : 1 .. ticks', segments : SUBSET Report]
        /\ reported' \in [Segments -> 0 .. MaxRequests]
        /\ DownloadsOnce' /\ OrderInv'
    BY <2>1, <2>2, TickInv
  <2>4. values' \subseteq values
    BY <2>1, <2>2, TickEmpties
  <2>5. FreshInv'
    BY <2>2, <2>4 DEF FreshInv, StatsInv
  <2>6. measured' \in 0 .. ticks'
    BY <2>2, <2>3 DEF StatsInv, TypeOK
  <2>7. TypeOK'
    <3>1. UNCHANGED <<downloads, arrived>> /\ segments' \in Seq(Report)
      BY <2>2, <2>3 DEF callback
    <3> QED
      BY <2>2, <2>3, <2>4, <2>6, <3>1 DEF TypeOK, StatsInv
  <2> QED
    BY <2>3, <2>5, <2>7 DEF StatsInv
<1>5. CASE TimePasses
  <2>1. /\ now' = now + 1 /\ now \in 0 .. MaxTime /\ now' \in 0 .. MaxTime
        /\ UNCHANGED <<segments, values, downloads, sendVars>>
    BY <1>5, StatsAssumption DEF TimePasses, StatsInv, TypeOK
  <2>2. TypeOK' /\ DownloadsOnce'
    BY <2>1 DEF StatsInv, TypeOK, DownloadsOnce, Ended, Elements, sendVars
  <2>3. \A k \in DOMAIN segments : segments[k].timestamp \in 0 .. MaxTime
    BY Listed DEF StatsInv, TypeOK
  <2>4. OrderInv'
    BY <2>1, <2>3, StatsAssumption DEF StatsInv, OrderInv, Ordered
  <2>5. \A v \in values : v.timestamp \in 0 .. MaxTime
    BY DEF StatsInv, TypeOK, Value
  <2>6. FreshInv'
    BY <2>1, <2>5, StatsAssumption DEF StatsInv, FreshInv, sendVars
  <2> QED
    BY <2>2, <2>4, <2>6 DEF StatsInv
<1>6. ASSUME NEW request \in open, RequestArrives(request) \/ RequestFails(request)
      PROVE  StatsInv'
  <2>1. request.segments \subseteq Report
    BY DEF StatsInv, TypeOK
  <2>2. /\ open' \subseteq open /\ arrived' \subseteq arrived \cup request.segments
        /\ UNCHANGED <<now, segments, values, downloads, ticks, reported, measured>>
    BY <1>6 DEF RequestArrives, RequestFails
  <2>3. TypeOK'
    BY <2>1, <2>2 DEF StatsInv, TypeOK
  <2> QED
    BY <2>2, <2>3 DEF StatsInv, DownloadsOnce, Ended, Elements, OrderInv, Ordered, FreshInv
<1>7. CASE UNCHANGED vars
  BY <1>7 DEF vars, StatsInv, TypeOK, DownloadsOnce, Ended, Elements, OrderInv, Ordered, FreshInv
<1> QED
  BY <1>1, <1>2, <1>3, <1>4, <1>5, <1>6, <1>7 DEF Next

\* Nothing is registered at the start.
LEMMA InitInv == Init => StatsInv
<1> SUFFICES ASSUME Init PROVE StatsInv
  OBVIOUS
<1>1. TypeOK
  BY StatsAssumption DEF Init, TypeOK
<1>2. DownloadsOnce
  <2>1. Elements(segments) = {}
    BY DEF Init, Elements
  <2>2. \A i \in Segments : reported[i] = 0 /\ downloads[i] = 0
    BY DEF Init
  <2> QED
    BY <2>1, <2>2, StatsAssumption DEF DownloadsOnce, Ended
<1>3. OrderInv /\ FreshInv
  BY DEF Init, OrderInv, Ordered, FreshInv
<1> QED
  BY <1>1, <1>2, <1>3 DEF StatsInv

\* The inductive invariant holds in every behaviour.
LEMMA StatsInvariant == Spec => []StatsInv
BY InitInv, NextInv, PTL DEF Spec
-----------------------------------------------------------------------------
(* The properties.                                                         *)

\* The controller, its ticks and its requests keep their types.
THEOREM StatsTypeCorrect == Spec => []TypeOK
<1>1. StatsInv => TypeOK
  BY DEF StatsInv
<1> QED
  BY <1>1, StatsInvariant, PTL

\* The end of every download is sent in one and only one request, whichever
\* events share a millisecond (serialize, advance).
THEOREM DownloadsSentOnce == Spec => []DownloadsOnce
<1>1. StatsInv => DownloadsOnce
  BY DEF StatsInv
<1> QED
  BY <1>1, StatsInvariant, PTL

\* Between two ticks at most one measure is kept, the buffer level of the last
\* tick that had measures (advance).
THEOREM MeasuresStayFresh == Spec => []MeasuresFresh
<1>1. StatsInv => MeasuresFresh
  <2> SUFFICES ASSUME StatsInv PROVE MeasuresFresh
    OBVIOUS
  <2>1. CASE values = {}
    BY <2>1, FS_EmptySet DEF MeasuresFresh
  <2>2. CASE values # {}
    <3>1. PICK v : values = {v}
      BY <2>2 DEF StatsInv, FreshInv
    <3>2. Cardinality(values) = 1
      BY <3>1, FS_Singleton
    <3> QED
      BY <3>2 DEF StatsInv, FreshInv, MeasuresFresh
  <2> QED
    BY <2>1, <2>2
<1> QED
  BY <1>1, StatsInvariant, PTL

\* A tick leaves nothing held: what was on its way, and what it sends, are now on
\* their way.
LEMMA TickRegisters ==
  ASSUME StatsInv, NEW reports \in Seq(Report), NEW measures, measures \subseteq Value,
         callback(reports, measures), Ordered(reports),
         Elements(segments) \subseteq Elements(reports)
  PROVE  Channel!Register
<1> DEFINE sent == serialize(reports)
<1>1. Elements(segments') = {}
  BY TickEmpties DEF Elements
<1>2. open' = open \cup {[tick |-> ticks + 1, segments |-> sent]} /\ arrived' = arrived
  BY DEF callback
<1>3. OnTheirWay' = OnTheirWay \cup sent
  <2> DEFINE new == [tick |-> ticks + 1, segments |-> sent]
  <2>1. new.segments = sent /\ open' = open \cup {new}
    BY <1>2
  <2> HIDE DEF sent, new
  <2>2. ASSUME NEW r PROVE r \in OnTheirWay' <=> \E request \in open' : r \in request.segments
    BY DEF OnTheirWay
  <2>3. ASSUME NEW r PROVE r \in OnTheirWay <=> \E request \in open : r \in request.segments
    BY DEF OnTheirWay
  <2> QED
    BY <2>1, <2>2, <2>3
<1>4. sent \subseteq Report /\ OnTheirWay \subseteq Report
  BY SentIsListed, Listed DEF StatsInv, TypeOK, OnTheirWay
<1>5. ASSUME NEW s \in Elements(segments)
      PROVE  s \in OnTheirWay' \/ \E r \in OnTheirWay' : Newer(r, s)
  BY <1>3, SentIsListed
<1> HIDE DEF sent
<1> QED
  BY <1>1, <1>2, <1>3, <1>4, <1>5 DEF Channel!Register

\* A callback adds its report to what is held.
LEMMA AddRegisters ==
  ASSUME StatsInv, NEW r \in Report, addSegment(r), UNCHANGED <<open, arrived>>
  PROVE  Channel!Register
<1>1. segments \in Seq(Report) /\ segments' = Append(segments, r)
  BY DEF addSegment, StatsInv, TypeOK
<1>2. Elements(segments') = Elements(segments) \cup {r}
  BY <1>1, Added
<1>3. Elements(segments) \subseteq Report /\ OnTheirWay \subseteq Report
  BY <1>1, Listed DEF OnTheirWay, StatsInv, TypeOK
<1>4. OnTheirWay' = OnTheirWay
  BY DEF OnTheirWay
<1> QED
  BY <1>2, <1>3, <1>4 DEF Channel!Register

\* Every step of the front-end is a step of the channel, or none.
LEMMA StepRefines ==
  StatsInv /\ [Next]_vars => [Channel!Next]_<<Elements(segments), OnTheirWay, arrived>>
<1> SUFFICES ASSUME StatsInv, [Next]_vars
             PROVE  Channel!Next \/ UNCHANGED <<Elements(segments), OnTheirWay, arrived>>
  OBVIOUS
<1>1. ASSUME NEW i \in Segments, onResourceProgress(i) \/ onResourceSuccess(i)
      PROVE  Channel!Register
  <2>1. downloads[i] \in 0 .. MaxLevel + 1 /\ now \in 0 .. MaxTime
    BY DEF StatsInv, TypeOK
  <2>2. PICK r \in Report : addSegment(r)
    <3>1. CASE onResourceProgress(i)
      <4>1. [index |-> i, state |-> "progress", level |-> downloads[i] + 1, timestamp |-> now]
              \in Report
        BY <2>1, <3>1, StatsAssumption DEF onResourceProgress, Report
      <4> QED
        BY <3>1, <4>1 DEF onResourceProgress
    <3>2. CASE onResourceSuccess(i)
      <4>1. [index |-> i, state |-> "downloaded", level |-> 0, timestamp |-> now] \in Report
        BY <2>1, StatsAssumption DEF Report
      <4> QED
        BY <3>2, <4>1 DEF onResourceSuccess
    <3> QED
      BY <1>1, <3>1, <3>2
  <2>3. UNCHANGED <<open, arrived>>
    BY <1>1 DEF onResourceProgress, onResourceSuccess, sendVars
  <2> QED
    BY <2>2, <2>3, AddRegisters
<1>2. CASE getMetricsThrows
  <2>1. segments \in Seq(Report) /\ values \subseteq Value /\ Ordered(segments)
    BY DEF StatsInv, TypeOK, OrderInv
  <2> QED
    BY <1>2, <2>1, TickRegisters DEF getMetricsThrows, Channel!Next
<1>3. CASE getMetrics
  <2>1. PICK reports \in Seq(Report), measures \in SUBSET Value :
          /\ callback(reports, measures) /\ Ordered(reports)
          /\ Elements(segments) \subseteq Elements(reports)
    <3>1. PICK player \in now .. MaxTime, buffer \in now .. MaxTime, reports \in Seq(Report) :
            /\ Measures(player, buffer) \subseteq Value
            /\ callback(reports, Measures(player, buffer))
            /\ Ordered(reports) /\ Elements(segments) \subseteq Elements(reports)
      BY <1>3, MetricsTick
    <3> QED
      BY <3>1
  <2> QED
    BY <2>1, TickRegisters DEF Channel!Next
<1>4. CASE TimePasses
  BY <1>4 DEF TimePasses, sendVars, OnTheirWay, Elements
<1>5. ASSUME NEW request \in open, RequestArrives(request) PROVE Channel!Deliver
  <2>1. /\ OnTheirWay' \subseteq OnTheirWay
        /\ OnTheirWay \ OnTheirWay' \subseteq request.segments
    BY <1>5 DEF RequestArrives, OnTheirWay
  <2>2. arrived' = arrived \cup request.segments /\ request.segments \subseteq OnTheirWay
    BY <1>5 DEF RequestArrives, OnTheirWay
  <2>3. Elements(segments') = Elements(segments)
    BY <1>5 DEF RequestArrives, Elements
  <2> QED
    BY <2>1, <2>2, <2>3 DEF Channel!Deliver
<1>6. ASSUME NEW request \in open, RequestFails(request) PROVE Channel!Lose
  <2>1. OnTheirWay' \subseteq OnTheirWay /\ arrived' = arrived /\ Failures
    BY <1>6 DEF RequestFails, OnTheirWay
  <2>2. Elements(segments') = Elements(segments)
    BY <1>6 DEF RequestFails, Elements
  <2> QED
    BY <2>1, <2>2 DEF Channel!Lose
<1>7. CASE UNCHANGED vars
  BY <1>7 DEF vars, OnTheirWay, Elements
<1> QED
  BY <1>1, <1>2, <1>3, <1>4, <1>5, <1>6, <1>7 DEF Next, Channel!Next

\* Controller, ticks and requests implement the channel: a report on a segment is
\* dropped only for a newer one on the same download or with a failed request.
THEOREM StatsImplementsChannel == Spec => ImplementsChannel
<1>1. Init => Channel!Init
  BY DEF Init, Channel!Init, OnTheirWay, Elements
<1> QED
  BY <1>1, StepRefines, StatsInvariant, PTL DEF Spec, ImplementsChannel, Channel!Spec
=============================================================================
