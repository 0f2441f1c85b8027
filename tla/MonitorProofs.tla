---------------------------- MODULE MonitorProofs ---------------------------
(***************************************************************************)
(* Proofs about the monitor, for any number of segments and reports.       *)
(***************************************************************************)
EXTENDS Monitor, TLAPS

\* Reports lag behind the player, and those of earlier segments are older.
ReportsInv ==
  /\ scheduling.timestamp <= now
  /\ \A r \in reports : r.index <= scheduling.index /\ r.timestamp <= now
  /\ \A r \in reports : r.index < scheduling.index => r.timestamp <= scheduling.timestamp
  /\ \A r, s \in reports : r.index < s.index => r.timestamp <= s.timestamp

\* A sample has the index and the time of a report.
Source(segment) == [index |-> segment.index, timestamp |-> segment.timestamp]
SamplesInv ==
  \A k \in DOMAIN segments : \E r \in reports : Source(r) = Source(segments[k])

MonitorInv ==
  TypeOK /\ ReportsInv /\ SamplesInv /\ IndexNeverAhead /\ SamplesExact /\ PreviousIsLast
-----------------------------------------------------------------------------

\* A step of the player leaves the processor alone.
LEMMA PlayerStep ==
  ASSUME MonitorInv,
         (\E q \in Qualities : NextSegment(q) \/ SameSegment(q)) \/ Tick \/ onResourceAbort
  PROVE  MonitorInv'
<1> USE MonitorAssumption
<1>1. UNCHANGED <<processorVars, arrivals>> /\ reports \subseteq reports'
  BY DEF NextSegment, SameSegment, Requests, Tick, onResourceAbort
<1>2. /\ TypeOK' /\ ReportsInv' /\ scheduling'.index >= scheduling.index
  <2> USE DEF MonitorInv, TypeOK, ReportsInv, Segment
  <2>1. ASSUME NEW q \in Qualities, NextSegment(q)
        PROVE  TypeOK' /\ ReportsInv' /\ scheduling'.index >= scheduling.index
    BY <1>1, <2>1 DEF NextSegment, Requests, TimePasses, processorVars
  <2>2. ASSUME NEW q \in Qualities, SameSegment(q)
        PROVE  TypeOK' /\ ReportsInv' /\ scheduling'.index >= scheduling.index
    BY <1>1, <2>2 DEF SameSegment, Requests, TimePasses, processorVars
  <2>3. CASE Tick
    BY <1>1, <2>3 DEF Tick, processorVars
  <2>4. CASE onResourceAbort
    BY <1>1, <2>4 DEF onResourceAbort, TimePasses, processorVars
  <2> QED
    BY <2>1, <2>2, <2>3, <2>4
<1>3. SamplesInv'
  BY <1>1 DEF MonitorInv, SamplesInv, processorVars
<1>4. IndexNeverAhead'
  BY <1>1, <1>2 DEF MonitorInv, TypeOK, IndexNeverAhead, processorVars, Segment
<1>5. SamplesExact' /\ PreviousIsLast'
  BY <1>1 DEF MonitorInv, SamplesExact, InOrder, PreviousIsLast, processorVars
<1> QED
  BY <1>2, <1>3, <1>4, <1>5 DEF MonitorInv

\* What a report does to the processor, in the three cases of compute_qoe.
LEMMA ProcessCases ==
  ASSUME MonitorInv, NEW segment \in reports, process(segment)
  PROVE  /\ UNCHANGED playerVars
         /\ \/ NewSegment(segment) /\ advance(segment)
            \/ /\ ~ NewSegment(segment)
               /\ segments # <<>> /\ Corrects(segment)
               /\ segments' = [segments EXCEPT ![Len(segments)].quality = segment.quality]
               /\ vmaf_previous' = <<index, segment.quality>>
               /\ index' = index
            \/ ~ NewSegment(segment) /\ UNCHANGED processorVars
BY DEF process, compute_qoe, check_quality, processorVars

\* A correction keeps index and time of every sample.
LEMMA CorrectionKeeps ==
  ASSUME TypeOK, NEW segment \in Segment, segments # <<>>,
         segments' = [segments EXCEPT ![Len(segments)].quality = segment.quality]
  PROVE  /\ segments' \in Seq(Segment) /\ Len(segments') = Len(segments)
         /\ DOMAIN segments' = DOMAIN segments
         /\ \A k \in DOMAIN segments : Source(segments'[k]) = Source(segments[k])
         /\ Last(segments').quality = segment.quality
<1>1. Len(segments) \in Nat \ {0} /\ segments \in Seq(Segment)
  BY DEF TypeOK
<1>2. \A k \in DOMAIN segments : segments[k] \in Segment
  BY <1>1
<1>3. \A k \in DOMAIN segments :
        segments'[k] = IF k = Len(segments)
                       THEN [segments[k] EXCEPT !.quality = segment.quality] ELSE segments[k]
  BY <1>1
<1>4. \A k \in DOMAIN segments : segments'[k] \in Segment /\ Source(segments'[k]) = Source(segments[k])
  BY <1>2, <1>3 DEF Segment, Source
<1>5. DOMAIN segments' = 1 .. Len(segments) /\ DOMAIN segments = 1 .. Len(segments)
  BY <1>1
<1>6. segments' \in Seq(Segment) /\ Len(segments') = Len(segments)
  BY <1>1, <1>4, <1>5
<1>7. Last(segments').quality = segment.quality
  BY <1>1, <1>2, <1>3, <1>5, <1>6 DEF Last, Segment
<1> QED
  BY <1>4, <1>5, <1>6, <1>7

\* What a new sample does.
LEMMA AdvanceAppends ==
  ASSUME TypeOK, NEW segment \in Segment, advance(segment)
  PROVE  /\ segments' \in Seq(Segment) /\ Len(segments') = Len(segments) + 1
         /\ DOMAIN segments' = 1 .. Len(segments) + 1
         /\ \A k \in DOMAIN segments : segments'[k] = segments[k]
         /\ segments'[Len(segments) + 1] = segment /\ Last(segments') = segment
BY DEF TypeOK, advance, Keep, Last

\* A report keeps everything but the exactness of samples.
LEMMA ProcessIndex ==
  ASSUME MonitorInv, NEW segment \in reports, process(segment)
  PROVE  TypeOK' /\ ReportsInv' /\ SamplesInv' /\ IndexNeverAhead' /\ PreviousIsLast'
<1> USE MonitorAssumption
<1>0. segment \in Segment /\ TypeOK /\ segment.index \in 1 .. N /\ segment.quality \in Qualities
  BY DEF MonitorInv, TypeOK, Segment
<1>1. UNCHANGED <<now, scheduling, reports>>
  BY DEF process, playerVars
<1>2. ReportsInv'
  BY <1>1 DEF MonitorInv, ReportsInv
<1>3. arrivals' \in Seq(2 .. N)
  <2>1. arrivals \in Seq(2 .. N)
    BY <1>0 DEF TypeOK
  <2>2. CASE segment.index = 1 \/ Contains(arrivals, segment.index)
    BY <2>1, <2>2 DEF process
  <2>3. CASE ~ (segment.index = 1 \/ Contains(arrivals, segment.index))
    <3>1. arrivals' = Append(arrivals, segment.index) /\ segment.index \in 2 .. N
      BY <1>0, <2>3 DEF process
    <3> QED
      BY <2>1, <3>1
  <2> QED
    BY <2>2, <2>3
<1>4. segment.index <= scheduling.index /\ scheduling.index \in 1 .. N
  BY DEF MonitorInv, ReportsInv, TypeOK, Segment
<1>5. CASE NewSegment(segment) /\ advance(segment)
  <2>1. index' = index + 1 /\ index' <= segment.index
        /\ vmaf_previous' = <<index', segment.quality>>
    BY <1>0, <1>5 DEF NewSegment, advance, Keep, TypeOK
  <2>2. TypeOK'
    BY <1>0, <1>1, <1>3, <1>4, <1>5, <2>1, AdvanceAppends DEF TypeOK
  <2>3. SamplesInv'
    BY <1>0, <1>1, <1>5, AdvanceAppends DEF SamplesInv, MonitorInv, TypeOK
  <2>4. IndexNeverAhead'
    <3>1. /\ Len(segments') = Len(segments) + 1 /\ Len(segments) \in Nat
          /\ DOMAIN segments' = 1 .. Len(segments) + 1
          /\ DOMAIN segments = 1 .. Len(segments)
          /\ \A k \in DOMAIN segments : segments'[k] = segments[k]
          /\ segments'[Len(segments) + 1] = segment
      BY <1>0, <1>5, AdvanceAppends DEF TypeOK
    <3>2. index = Len(segments) + 1 /\ \A k \in DOMAIN segments : k + 1 <= segments[k].index
      BY DEF MonitorInv, IndexNeverAhead
    <3>3. \A k \in DOMAIN segments' : k + 1 <= segments'[k].index
      <4> TAKE k \in DOMAIN segments'
      <4>1. CASE k = Len(segments) + 1
        BY <2>1, <3>1, <3>2, <4>1
      <4>2. CASE k # Len(segments) + 1
        BY <3>1, <3>2, <4>2
      <4> QED
        BY <4>1, <4>2
    <3> QED
      BY <1>0, <1>1, <1>4, <2>1, <3>1, <3>2, <3>3 DEF IndexNeverAhead
  <2>5. PreviousIsLast'
    BY <1>0, <1>5, <2>1, AdvanceAppends DEF PreviousIsLast
  <2> QED
    BY <1>2, <2>2, <2>3, <2>4, <2>5
<1>6. CASE /\ segments # <<>>
           /\ segments' = [segments EXCEPT ![Len(segments)].quality = segment.quality]
           /\ vmaf_previous' = <<index, segment.quality>> /\ index' = index
  <2>1. segments' \in Seq(Segment)
    BY <1>0, <1>6, CorrectionKeeps
  <2>0. vmaf_previous' \in (0 .. N) \X Qualities
    BY <1>0, <1>6 DEF TypeOK
  <2>2. TypeOK'
    BY <1>0, <1>1, <1>3, <1>6, <2>0, <2>1 DEF TypeOK
  <2>3. SamplesInv'
    BY <1>0, <1>1, <1>6, CorrectionKeeps DEF SamplesInv, MonitorInv
  <2>4. IndexNeverAhead'
    BY <1>0, <1>1, <1>6, CorrectionKeeps DEF IndexNeverAhead, MonitorInv, Source
  <2>5. PreviousIsLast'
    BY <1>0, <1>6, CorrectionKeeps DEF PreviousIsLast
  <2> QED
    BY <1>2, <2>2, <2>3, <2>4, <2>5
<1>7. CASE UNCHANGED processorVars
  BY <1>0, <1>1, <1>2, <1>3, <1>7
  DEF MonitorInv, TypeOK, SamplesInv, IndexNeverAhead, PreviousIsLast, processorVars
<1> QED
  BY <1>5, <1>6, <1>7, ProcessCases

\* As long as first reports come in order, a report makes a sample exactly when
\* it is the first of its segment.
LEMMA ProcessExact ==
  ASSUME MonitorInv, NEW segment \in reports, process(segment)
  PROVE  SamplesExact'
<1> USE MonitorAssumption
<1>0. segment \in Segment /\ TypeOK /\ segment.index \in 1 .. N
  BY DEF MonitorInv, TypeOK, Segment
<1>1. SUFFICES ASSUME InOrder'
      PROVE  /\ Len(segments') = Len(arrivals')
             /\ \A k \in DOMAIN segments' : segments'[k].index = k + 1
             /\ \A j, k \in DOMAIN segments' :
                  j < k => segments'[j].timestamp <= segments'[k].timestamp
  BY DEF SamplesExact
<1> DEFINE known == segment.index = 1 \/ Contains(arrivals, segment.index)
<1>2. /\ known => arrivals' = arrivals
      /\ ~ known => arrivals' = Append(arrivals, segment.index)
      /\ arrivals \in Seq(2 .. N)
  BY DEF process, MonitorInv, TypeOK
<1>3. InOrder
  <2>1. \A k \in DOMAIN arrivals : k \in DOMAIN arrivals' /\ arrivals'[k] = arrivals[k]
    BY <1>0, <1>2
  <2> QED
    BY <1>1, <2>1 DEF InOrder
<1>4. /\ Len(segments) = Len(arrivals) /\ index = Len(segments) + 1
      /\ \A k \in DOMAIN segments : segments[k].index = k + 1
      /\ \A j, k \in DOMAIN segments : j < k => segments[j].timestamp <= segments[k].timestamp
  BY <1>3 DEF MonitorInv, SamplesExact, IndexNeverAhead
<1>5. CASE known
  <2>1. segment.index <= index
    <3>1. CASE segment.index = 1
      BY <1>0, <3>1 DEF TypeOK
    <3>2. CASE Contains(arrivals, segment.index)
      <4>1. PICK k \in 1 .. Len(arrivals) : arrivals[k] = segment.index
        BY <3>2 DEF Contains
      <4>2. segment.index = k + 1
        BY <1>2, <1>3, <4>1 DEF InOrder
      <4> QED
        BY <1>2, <1>4, <4>2
    <3> QED
      BY <1>5, <3>1, <3>2
  <2>2. ~ NewSegment(segment)
    BY <1>0, <2>1 DEF NewSegment, TypeOK
  <2>3. CASE /\ segments # <<>>
             /\ segments' = [segments EXCEPT ![Len(segments)].quality = segment.quality]
    BY <1>0, <1>2, <1>4, <1>5, <2>3, CorrectionKeeps DEF Source
  <2>4. CASE UNCHANGED processorVars
    BY <1>2, <1>4, <1>5, <2>4 DEF processorVars
  <2> QED
    BY <2>2, <2>3, <2>4, ProcessCases
<1>6. CASE ~ known
  <2>1. Len(arrivals') = Len(arrivals) + 1 /\ segment.index = Len(arrivals) + 2
    <3>1. Len(arrivals') = Len(arrivals) + 1 /\ Len(arrivals) + 1 \in DOMAIN arrivals'
          /\ arrivals'[Len(arrivals) + 1] = segment.index
      BY <1>0, <1>2, <1>6
    <3> QED
      BY <1>1, <1>2, <3>1 DEF InOrder
  <2>2. NewSegment(segment) /\ advance(segment)
    <3>1. NewSegment(segment)
      BY <1>0, <1>2, <1>4, <2>1 DEF NewSegment
    <3> QED
      BY <3>1, ProcessCases
  <2>a. /\ DOMAIN segments' = 1 .. Len(segments) + 1 /\ DOMAIN segments = 1 .. Len(segments)
        /\ Len(segments) \in Nat
        /\ \A k \in 1 .. Len(segments) : segments'[k] = segments[k]
        /\ segments'[Len(segments) + 1] = segment
    BY <1>0, <2>2, AdvanceAppends DEF TypeOK
  <2>3. \A k \in DOMAIN segments' : segments'[k].index = k + 1
    <3> TAKE k \in DOMAIN segments'
    <3>1. CASE k = Len(segments) + 1
      BY <1>4, <2>1, <2>a, <3>1
    <3>2. CASE k \in 1 .. Len(segments)
      BY <1>4, <2>a, <3>2
    <3> QED
      BY <2>a, <3>1, <3>2
  <2>4. ASSUME NEW k \in DOMAIN segments PROVE segments[k].timestamp <= segment.timestamp
    <3>1. PICK r \in reports : Source(r) = Source(segments[k])
      BY DEF MonitorInv, SamplesInv
    <3>2. r.index = segments[k].index /\ r.timestamp = segments[k].timestamp
      BY <3>1 DEF Source
    <3>3. k \in 1 .. Len(segments)
      BY <1>0 DEF TypeOK
    <3>4. r.index < segment.index
      BY <1>2, <1>4, <2>1, <3>2, <3>3
    <3> QED
      BY <3>2, <3>4 DEF MonitorInv, ReportsInv
  <2>5. \A j, k \in DOMAIN segments' :
          j < k => segments'[j].timestamp <= segments'[k].timestamp
    <3> TAKE j, k \in DOMAIN segments'
    <3> HAVE j < k
    <3>1. j \in 1 .. Len(segments) /\ segments'[j] = segments[j]
      BY <2>a
    <3>2. CASE k = Len(segments) + 1
      BY <2>4, <2>a, <3>1, <3>2
    <3>3. CASE k \in 1 .. Len(segments)
      BY <1>4, <2>a, <3>1, <3>3
    <3> QED
      BY <2>a, <3>2, <3>3
  <2> QED
    BY <1>0, <1>4, <2>1, <2>2, <2>3, <2>5, AdvanceAppends
<1> QED
  BY <1>5, <1>6

\* The inductive invariant holds in every reachable state.
LEMMA MonitorInvariant == Spec => []MonitorInv
<1>1. Init => MonitorInv
  BY MonitorAssumption DEF Init, MonitorInv, TypeOK, ReportsInv, SamplesInv,
     IndexNeverAhead, SamplesExact, InOrder, PreviousIsLast, Segment
<1>2. MonitorInv /\ [Next]_vars => MonitorInv'
  <2>1. ASSUME MonitorInv, Next PROVE MonitorInv'
    <3>1. ASSUME NEW segment \in reports, process(segment) PROVE MonitorInv'
      BY <2>1, <3>1, ProcessIndex, ProcessExact DEF MonitorInv
    <3> QED
      BY <2>1, <3>1, PlayerStep DEF Next
  <2>2. ASSUME MonitorInv, UNCHANGED vars PROVE MonitorInv'
    BY <2>2 DEF MonitorInv, vars, playerVars, processorVars, TypeOK, ReportsInv, SamplesInv,
       IndexNeverAhead, SamplesExact, InOrder, PreviousIsLast
  <2> QED
    BY <2>1, <2>2
<1> QED
  BY <1>1, <1>2, PTL DEF Spec

\* Whatever is lost, repeated or overtaken, no sample runs ahead of its segment
\* (compute_qoe).
THEOREM SamplesNeverAhead == Spec => []IndexNeverAhead
BY MonitorInvariant, PTL DEF MonitorInv

\* Samples are exact as long as the first reports of the segments come in order
\* (compute_qoe, advance).
THEOREM SamplesAreExact == Spec => []SamplesExact
BY MonitorInvariant, PTL DEF MonitorInv

\* The vmaf of the previous sample follows its corrections (check_quality).
THEOREM PreviousFollowsLast == Spec => []PreviousIsLast
BY MonitorInvariant, PTL DEF MonitorInv
=============================================================================
