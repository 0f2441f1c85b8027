------------------------------- MODULE Stats --------------------------------
(***************************************************************************)
(* The reports of the front-end: StatsController (dash/src/controller/     *)
(* stats.ts), Metrics and StatsTracker (dash/src/component/stats.ts) and   *)
(* the callback of ServerSideApp that sends them (apps/server_side.ts).    *)
(*                                                                         *)
(* Callbacks register reports as downloads go on.  A tick of the tracker   *)
(* adds what the player measures, sends everything the controller holds,   *)
(* and discards what is not newer than the newest time it has seen.  Times *)
(* are milliseconds: two events may share one.  The requests for the       *)
(* reports run side by side; a failed one is not repeated.                 *)
(***************************************************************************)
EXTENDS Integers, Sequences, FiniteSets

CONSTANTS
  Segments,     \* indices of the segments
  MaxLevel,     \* bound on the progress events of a download
  MaxTime,      \* bound on the clock
  MaxRequests,  \* bound on the requests
  Failures      \* may requests fail?

ASSUME StatsAssumption ==
  /\ Segments \subseteq Nat /\ Segments # {}
  /\ MaxLevel \in Nat /\ MaxTime \in Nat /\ MaxRequests \in Nat
  /\ Failures \in BOOLEAN

\* level orders the progress of a download; it is 0 for the other states.
Report == [index : Segments, state : {"progress", "downloaded", "loading"},
           level : 0 .. MaxLevel, timestamp : 0 .. MaxTime]

Value == [name : {"droppedFrames", "playerTime", "bufferLevel"},
          tick : 1 .. MaxRequests, timestamp : 0 .. MaxTime]

VARIABLES
  now,        \* the clock
  segments,   \* StatsController: the reports on segments, as they were added
  values,     \* StatsController: the values measured by the player
  downloads,  \* progress of the downloads; MaxLevel + 1 when over
  ticks,      \* ticks of the tracker
  open,       \* requests on their way: the tick and the reports on segments
  arrived,    \* reports the server has received
  reported,   \* history: the requests that carried the end of a download
  measured    \* history: the last tick at which the player had measures

vars == <<now, segments, values, downloads, ticks, open, arrived, reported, measured>>

\* The type invariant.
TypeOK ==
  /\ now \in 0 .. MaxTime
  /\ segments \in Seq(Report)
  /\ values \subseteq Value
  /\ downloads \in [Segments -> 0 .. MaxLevel + 1]
  /\ ticks \in 0 .. MaxRequests
  /\ open \subseteq [tick : 1 .. ticks, segments : SUBSET Report]
  /\ arrived \subseteq Report
  /\ reported \in [Segments -> 0 .. MaxRequests]
  /\ measured \in 0 .. ticks

Init ==
  /\ now = 0
  /\ segments = <<>> /\ values = {}
  /\ downloads = [i \in Segments |-> 0]
  /\ ticks = 0 /\ open = {} /\ arrived = {}
  /\ reported = [i \in Segments |-> 0] /\ measured = 0

sendVars == <<ticks, open, arrived, reported, measured>>

Elements(seq) == {seq[k] : k \in DOMAIN seq}

-----------------------------------------------------------------------------
(* Callbacks of the requests for segments.                                 *)

addSegment(report) == segments' = Append(segments, report)

onResourceProgress(i) ==
  /\ downloads[i] < MaxLevel
  /\ downloads' = [downloads EXCEPT ![i] = @ + 1]
  /\ addSegment([index |-> i, state |-> "progress",
                 level |-> downloads[i] + 1, timestamp |-> now])
  /\ UNCHANGED <<now, values, sendVars>>

onResourceSuccess(i) ==
  /\ downloads[i] <= MaxLevel
  /\ downloads' = [downloads EXCEPT ![i] = MaxLevel + 1]
  /\ addSegment([index |-> i, state |-> "downloaded", level |-> 0, timestamp |-> now])
  /\ UNCHANGED <<now, values, sendVars>>

-----------------------------------------------------------------------------
(* The tick of the tracker.                                                *)

\* Mutant: the oldest report on the progress of a segment.
prepareLoadingOldest(reports) ==
  {r \in Elements(reports) : r.state = "progress" /\
     \A s \in Elements(reports) :
       s.state = "progress" /\ s.index = r.index => s.level >= r.level}

\* The last report on the progress of every segment, in a stable sort by time.
prepareLoading(reports) ==
  LET progress(i) == {k \in DOMAIN reports :
                        reports[k].state = "progress" /\ reports[k].index = i}
      After(j, k) == \/ reports[j].timestamp < reports[k].timestamp
                     \/ reports[j].timestamp = reports[k].timestamp /\ j <= k
      latest(i) == CHOOSE k \in progress(i) : \A j \in progress(i) : After(j, k)
  IN {reports[latest(i)] : i \in {i \in Segments : progress(i) # {}}}

serialize(reports) ==
  {r \in Elements(reports) : r.state # "progress"} \cup prepareLoading(reports)

IsLater(x, time) == x.timestamp > time

\* The reports that are later, in their order (as SelectSeq, without its recursion).
LaterReports(reports, time) ==
  LET kept == {k \in DOMAIN reports : IsLater(reports[k], time)}
      nth(n) == CHOOSE k \in kept : Cardinality({j \in kept : j <= k}) = n
  IN [n \in 1 .. Cardinality(kept) |-> reports[nth(n)]]

\* Mutant: discards the segments only.
advanceSegments(reports, measures, time) ==
  /\ segments' = LaterReports(reports, time)
  /\ values' = measures

advance(reports, measures, time) ==
  /\ segments' = LaterReports(reports, time)
  /\ values' = {v \in measures : IsLater(v, time)}

MaxOf(times) == CHOOSE t \in times : \A u \in times : u <= t

\* Mutant: forgets the segments.
NewestPlayerTime(reports, measures) ==
  MaxOf({0} \cup {v.timestamp : v \in {v \in measures : v.name = "playerTime"}})

\* The newest time among the last player time and the segments.
Newest(reports, measures) ==
  MaxOf({0} \cup {r.timestamp : r \in Elements(reports)}
            \cup {v.timestamp : v \in {v \in measures : v.name = "playerTime"}})

Ended(i, sent) == \E r \in sent : r.index = i /\ r.state = "downloaded"

callback(reports, measures) ==
  LET sent == serialize(reports) IN
  /\ ticks < MaxRequests
  /\ ticks' = ticks + 1
  /\ open' = open \cup {[tick |-> ticks + 1, segments |-> sent]}
  /\ advance(reports, measures, Newest(reports, measures))
  /\ reported' = [i \in Segments |-> reported[i] + (IF Ended(i, sent) THEN 1 ELSE 0)]
  /\ UNCHANGED <<downloads, arrived>>

\* The player (external) loads the first segment that is not there yet.
Loading == CHOOSE i \in Segments :
             \A j \in Segments : downloads[j] <= MaxLevel => i <= j /\ downloads[i] <= MaxLevel

\* The player has measures: what it loads, since when, and three values, each
\* with the time at which it was created.
getMetrics ==
  \E since \in 0 .. now, player, buffer \in now .. MaxTime :
    LET loading == [index |-> Loading, state |-> "loading", level |-> 0, timestamp |-> since]
        measure(name, time) == [name |-> name, tick |-> ticks + 1, timestamp |-> time]
    IN /\ player <= buffer /\ buffer <= now + 1
       /\ now' = buffer
       /\ measured' = ticks + 1
       /\ callback(Append(segments, loading),
                   values \cup {measure("droppedFrames", now), measure("playerTime", player),
                                measure("bufferLevel", buffer)})

\* The player is not ready and getDashMetrics throws.
getMetricsThrows ==
  /\ callback(segments, values)
  /\ UNCHANGED <<now, measured>>

-----------------------------------------------------------------------------
(* The requests and the clock.                                             *)

RequestArrives(request) ==
  /\ open' = open \ {request}
  /\ arrived' = arrived \cup request.segments
  /\ UNCHANGED <<now, segments, values, downloads, ticks, reported, measured>>

\* onFail does nothing.
RequestFails(request) ==
  /\ Failures
  /\ open' = open \ {request}
  /\ UNCHANGED <<now, segments, values, downloads, ticks, arrived, reported, measured>>

TimePasses ==
  /\ now < MaxTime
  /\ now' = now + 1
  /\ UNCHANGED <<segments, values, downloads, sendVars>>

Next ==
  \/ \E i \in Segments : onResourceProgress(i) \/ onResourceSuccess(i)
  \/ getMetrics \/ getMetricsThrows \/ TimePasses
  \/ \E request \in open : RequestArrives(request) \/ RequestFails(request)

Spec == Init /\ [][Next]_vars

-----------------------------------------------------------------------------
(* What should hold.                                                       *)

\* The end of every download is reported once and only once: when it is
\* discarded from the controller it has been sent, and what was sent is
\* discarded, even if it happened in the millisecond of the tick.
DownloadsOnce ==
  \A i \in Segments :
    reported[i] + (IF Ended(i, Elements(segments)) THEN 1 ELSE 0)
      = IF downloads[i] = MaxLevel + 1 THEN 1 ELSE 0

\* Between two ticks the controller holds at most a buffer level, that of the
\* last tick with measures: nothing piles up while the player measures.  (The
\* comment at server_side.ts:382 says "only send fresh information": a buffer
\* level that is younger than the player time of its tick is sent again.)
MeasuresFresh ==
  /\ Cardinality(values) <= 1
  /\ \A v \in values : v.name = "bufferLevel" /\ v.tick = measured

Newer(r, s) == /\ r.state = "progress" /\ s.state = "progress"
               /\ r.index = s.index /\ r.level > s.level

\* The reports on segments, whatever the order of requests, ticks and events,
\* go through the channel the rest of the front-end relies on: nothing is
\* dropped but progress that was superseded and what failed with its request.
OnTheirWay == UNION {request.segments : request \in open}
Channel == INSTANCE ReportChannel WITH
  Reports <- Report, MayFail <- Failures,
  held <- Elements(segments), sent <- OnTheirWay
ImplementsChannel == Channel!Spec
=============================================================================
