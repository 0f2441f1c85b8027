------------------------------- MODULE Monitor ------------------------------
(***************************************************************************)
(* The experiment's monitor (exp/components/monitor.py): it turns the      *)
(* player's reports that it is loading a segment into one sample per       *)
(* segment, with quality, vmaf and rebuffering time.                       *)
(*                                                                         *)
(* The player reports on every tick the request it made last, and once     *)
(* more when a segment is aborted.  Every report is a request of its own,  *)
(* repeated if it fails: reports are delayed, repeated, lost and overtake  *)
(* each other.  A request carries one such report, so the handler of the   *)
(* monitor handles it without an await in between.                         *)
(***************************************************************************)
EXTENDS Integers, Sequences, SequencesExt

CONSTANTS
  N,          \* number of segments
  Qualities,  \* quality tracks
  MaxTime     \* bound on the clock, which the player's requests and aborts move on

ASSUME MonitorAssumption ==
  /\ N \in Nat /\ N >= 1
  /\ Qualities \subseteq Nat /\ 0 \in Qualities
  /\ MaxTime \in Nat

\* A segment in state LOADING.
Segment == [index : 1 .. N, quality : Qualities, timestamp : 0 .. MaxTime]

VARIABLES
  now,            \* the clock
  scheduling,     \* player: its last request
  reports,        \* reports on their way
  index,          \* MetricsProcessor
  segments,       \* MetricsProcessor
  vmaf_previous,  \* MetricsProcessor: index and quality the vmaf was looked up for
  arrivals        \* history: segments after the first, by their first report

playerVars    == <<now, scheduling, reports>>
processorVars == <<index, segments, vmaf_previous>>
vars == <<playerVars, processorVars, arrivals>>

\* The type invariant.
TypeOK ==
  /\ now \in 0 .. MaxTime
  /\ scheduling \in Segment
  /\ reports \subseteq Segment
  /\ index \in 1 .. N
  /\ segments \in Seq(Segment)
  /\ vmaf_previous \in (0 .. N) \X Qualities
  /\ arrivals \in Seq(2 .. N)

Init ==
  /\ now = 0
  /\ scheduling = [index |-> 1, quality |-> 0, timestamp |-> 0]
  /\ reports = {}
  /\ index = 1 /\ segments = <<>> /\ vmaf_previous = <<0, 0>>
  /\ arrivals = <<>>

-----------------------------------------------------------------------------
(* The player.                                                             *)

TimePasses == now < MaxTime /\ now' = now + 1

Requests(i, q) ==
  /\ TimePasses
  /\ scheduling' = [index |-> i, quality |-> q, timestamp |-> now']
  /\ UNCHANGED <<reports, processorVars, arrivals>>

NextSegment(q) == scheduling.index < N /\ Requests(scheduling.index + 1, q)

\* The request is repeated, after an abort in the lowest quality.
SameSegment(q) == q \in {0, scheduling.quality} /\ Requests(scheduling.index, q)

Tick ==
  /\ reports' = reports \cup {scheduling}
  /\ UNCHANGED <<now, scheduling, processorVars, arrivals>>

onResourceAbort ==
  /\ TimePasses
  /\ reports' = reports \cup {[index |-> scheduling.index, quality |-> 0, timestamp |-> now']}
  /\ UNCHANGED <<scheduling, processorVars, arrivals>>

-----------------------------------------------------------------------------
(* MetricsProcessor.                                                       *)

\* Mutant: off by one.
NewSegmentFromIndex(segment) == segment.index >= index

\* Mutant: off by one, the other way.
NewSegmentAfterNext(segment) == segment.index > index + 1

\* Segments are counted: the index is not the segment's.
NewSegment(segment) == segment.index >= index + 1

\* What a sample leaves to the next one.
Keep(segment) ==
  /\ vmaf_previous' = <<index', segment.quality>>
  /\ segments' = Append(segments, segment)

\* The sample is published under index'.
advance(segment) == index' = index + 1 /\ Keep(segment)

Corrects(segment) ==
  LET last == Last(segments) IN
  /\ segment.quality # last.quality
  /\ segment.index = last.index /\ segment.timestamp > last.timestamp

\* Mutant: the vmaf stays that of the old quality.
check_qualityOnly(segment) ==
  /\ segments' = IF Corrects(segment)
                 THEN [segments EXCEPT ![Len(segments)].quality = segment.quality]
                 ELSE segments
  /\ UNCHANGED <<index, vmaf_previous>>

\* A segment that was loaded again in another quality.  The time of the segment is
\* not changed, and the correction is logged, not published.
check_quality(segment) ==
  /\ IF Corrects(segment)
     THEN /\ segments' = [segments EXCEPT ![Len(segments)].quality = segment.quality]
          /\ vmaf_previous' = <<index, segment.quality>>
     ELSE UNCHANGED <<segments, vmaf_previous>>
  /\ UNCHANGED index

\* Before the first sample check_quality raises, which ends the handling of the
\* report.
compute_qoe(segment) ==
  \/ NewSegment(segment) /\ advance(segment)
  \/ ~ NewSegment(segment) /\ segments # <<>> /\ check_quality(segment)
  \/ ~ NewSegment(segment) /\ segments = <<>> /\ UNCHANGED processorVars

\* A report stays on its way: it may be repeated.
process(segment) ==
  /\ segment \in reports
  /\ compute_qoe(segment)
  /\ arrivals' = IF segment.index = 1 \/ Contains(arrivals, segment.index) THEN arrivals
                 ELSE Append(arrivals, segment.index)
  /\ UNCHANGED playerVars

-----------------------------------------------------------------------------

Next ==
  \/ \E q \in Qualities : NextSegment(q) \/ SameSegment(q)
  \/ Tick
  \/ onResourceAbort
  \/ \E segment \in reports : process(segment)

Spec == Init /\ [][Next]_vars
-----------------------------------------------------------------------------

\* A sample is never published under an index beyond its segment, and no segment
\* is skipped ahead of the player, whatever is lost, repeated or overtaken
\* (compute_qoe).
IndexNeverAhead ==
  /\ index = Len(segments) + 1
  /\ \A k \in DOMAIN segments : k + 1 <= segments[k].index
  /\ index <= scheduling.index

\* The first reports came in the order of the segments, none of them missing.
InOrder == \A k \in DOMAIN arrivals : arrivals[k] = k + 1

\* If the first report of every segment comes in order then every sample is about
\* the segment it is published for and the intervals between samples do not
\* overlap, whatever is repeated or comes late (advance).
SamplesExact ==
  InOrder =>
    /\ Len(segments) = Len(arrivals)
    /\ \A k \in DOMAIN segments : segments[k].index = k + 1
    /\ \A j, k \in DOMAIN segments : j < k => segments[j].timestamp <= segments[k].timestamp

\* The vmaf the next sample is compared with is that of the last sample in the
\* quality known of it, corrections included (advance, check_quality).
PreviousIsLast ==
  segments # <<>> => vmaf_previous = <<index, Last(segments).quality>>
=============================================================================
