---------------------------- MODULE ReportProofs ----------------------------
(***************************************************************************)
(* Proofs about the way of a report through the server: from the mailbox   *)
(* through the worker into what the ABR knows, and from there to the       *)
(* decisions it releases.                                                  *)
(***************************************************************************)
EXTENDS DashServerProofs, SequenceTheorems

\* The mutex is held exactly between the two steps of its methods, and the worker
\* has emptied its copy when it comes back for more.
MailboxPhases ==
  /\ mutex_ = "GetMetrics" <=> phase = "resetMetrics"
  /\ phase = "resetMetrics" => out_metrics = metrics
  /\ phase \notin {"resetMetrics", "registerMetrics"} => out_metrics = <<>>

MailInv == MailboxPhases /\ NoReportLost

\* What is known of a segment is a report that was registered for it.
KnownInv ==
  \A i \in Index : last_segment[i] # None =>
    /\ last_segment[i].index = i
    /\ last_segment[i].state \in {"PROGRESS", "DOWNLOADED"}
    /\ \E k \in DOMAIN registered : registered[k] = last_segment[i]

EvidenceInv == KnownInv /\ DecisionJustified
-----------------------------------------------------------------------------
(* Sequences.                                                              *)

\* Appending to a concatenation appends to its second part.
LEMMA AppendConcat ==
  ASSUME NEW s \in Seq(Segment), NEW t \in Seq(Segment), NEW x \in Segment
  PROVE  Append(s \o t, x) = s \o Append(t, x)
<1>1. s \o t \in Seq(Segment) /\ <<x>> \in Seq(Segment)
  BY ConcatProperties
<1>2. Append(s \o t, x) = (s \o t) \o <<x>> /\ Append(t, x) = t \o <<x>>
  BY <1>1, AppendIsConcat
<1> QED
  BY <1>1, <1>2, ConcatAssociative

\* Moving the head of the second part to the end of the first.
LEMMA MoveHead ==
  ASSUME NEW S, NEW s \in Seq(S), NEW t \in Seq(S), t # <<>>
  PROVE  Append(s, Head(t)) \o Tail(t) = s \o t
<1>1. Head(t) \in S /\ Tail(t) \in Seq(S) /\ <<Head(t)>> \in Seq(S)
  BY HeadTailProperties
<1>2. <<Head(t)>> \o Tail(t) = t
  BY <1>1
<1>3. Append(s, Head(t)) = s \o <<Head(t)>>
  BY <1>1, AppendIsConcat
<1>4. (s \o <<Head(t)>>) \o Tail(t) = s \o (<<Head(t)>> \o Tail(t))
  BY <1>1, ConcatAssociative
<1> QED
  BY <1>2, <1>3, <1>4

-----------------------------------------------------------------------------
(* Which steps touch what.                                                 *)

mailVars == <<metrics, out_metrics, received, registered>>

\* All other steps leave the reports in the mailbox alone.
LEMMA MailFrame ==
  ASSUME [Next]_vars, ~ MoveMetrics, ~ ResetMetrics, ~ RegisterReport,
         ~ (\E r \in Report : PostMetrics(r)), ~ MoveAborts, ~ ResetAborts
  PROVE  /\ UNCHANGED <<mailVars, mutex_>>
         /\ \/ phase' = phase
            \/ /\ phase \in {"registerAborts", "request", "piece"}
               /\ phase' \in {"getMetrics", "request", "piece"}
<1> USE DEF mailVars, metricsVars
<1>1. CASE Client
  BY <1>1 DEF Client, Poll, PostAbort, AddAbort, CloseStream, workerVars
<1>2. CASE RunTask
  BY <1>2 DEF RunTask
<1>3. CASE RegisterAbort
  BY <1>3 DEF RegisterAbort, LoopUnchanged
<1>4. CASE DecideNew \/ DecideAgain
  BY <1>4 DEF DecideNew, DecideAgain, Decided, AbortsRegistered
<1>5. ASSUME NEW kind \in Kinds, SkipAnswer(kind) \/ PostAnswer(kind) \/ AnswerDone(kind)
      PROVE  /\ UNCHANGED <<mailVars, mutex_>>
             /\ phase \in {"request", "piece"} /\ phase' \in {"getMetrics", "request", "piece"}
  BY <1>5 DEF SkipAnswer, PostAnswer, AnswerDone, AnswerUnchanged, After, GoTo, Kinds
<1>6. CASE UNCHANGED vars
  BY <1>6 DEF vars, workerVars
<1> QED
  BY <1>1, <1>2, <1>3, <1>4, <1>5, <1>6, Zenon DEF Next, Worker

LEMMA MailPreserved ==
  ASSUME DeliveryInv, MailInv, [Next]_vars
  PROVE  MailInv'
<1> USE DEF MailInv, MailboxPhases
<1>0. /\ metrics \in Seq(Segment) /\ out_metrics \in Seq(Segment)
      /\ received \in Seq(Segment) /\ registered \in Seq(Segment)
      /\ registered \o out_metrics \in Seq(Segment)
  BY DEF DeliveryInv, TypeOK, MetricsTypeOK
<1>1. CASE MoveMetrics
  <2>1. /\ phase = "getMetrics" /\ phase' = "resetMetrics"
        /\ mutex_ = "free" /\ mutex_' = "GetMetrics"
        /\ out_metrics' = metrics /\ UNCHANGED <<metrics, registered, received>>
    BY <1>1 DEF MoveMetrics, GoTo, GetMetricsMove, MutexFree, LoopUnchanged
  <2>2. received = (registered \o <<>>) \o metrics
    BY <2>1 DEF NoReportLost
  <2>3. received = (registered \o metrics) \o <<>>
    BY <1>0, <2>2
  <2> QED
    BY <2>1, <2>3 DEF NoReportLost
<1>2. CASE ResetMetrics
  <2>1. /\ phase = "resetMetrics" /\ phase' = "registerMetrics"
        /\ mutex_ = "GetMetrics" /\ mutex_' = "free"
        /\ metrics' = <<>> /\ UNCHANGED <<out_metrics, registered, received>>
    BY <1>2 DEF ResetMetrics, GoTo, GetMetricsReset, LoopUnchanged
  <2> QED
    BY <2>1 DEF NoReportLost
<1>3. CASE RegisterReport
  <2>1. /\ phase = "registerMetrics" /\ out_metrics # <<>>
        /\ registered' = Append(registered, Head(out_metrics)) /\ out_metrics' = Tail(out_metrics)
        /\ UNCHANGED <<phase, metrics, mutex_, received>>
    BY <1>3 DEF RegisterReport, LoopUnchanged
  <2>2. registered' \o out_metrics' = registered \o out_metrics
    BY <1>0, <2>1, MoveHead
  <2> QED
    BY <2>1, <2>2 DEF NoReportLost
<1>4. ASSUME NEW r \in Report, PostMetrics(r) PROVE MailInv'
  <2>0. r \in Segment
    BY ReportInSegment
  <2>1. /\ mutex_ = "free" /\ metrics' = Append(metrics, r) /\ received' = Append(received, r)
        /\ UNCHANGED <<phase, mutex_, out_metrics, registered>>
    BY <1>4 DEF PostMetrics, AddMetrics, MutexFree, workerVars
  <2>2. received = (registered \o out_metrics) \o metrics
    BY <2>1 DEF NoReportLost
  <2>3. received' = (registered \o out_metrics) \o Append(metrics, r)
    <3> DEFINE before == registered \o out_metrics
    <3>1. before \in Seq(Segment)
      BY <1>0
    <3> HIDE DEF before
    <3>2. Append(before \o metrics, r) = before \o Append(metrics, r)
      BY <1>0, <2>0, <3>1, AppendConcat, Zenon
    <3> QED
      BY <2>1, <2>2, <3>2 DEF before
  <2> QED
    BY <2>1, <2>3 DEF NoReportLost
<1>5. CASE MoveAborts \/ ResetAborts
  <2>1. /\ mutex_ # "GetMetrics" /\ mutex_' # "GetMetrics" /\ out_metrics = <<>>
        /\ phase # "resetMetrics" /\ phase' \in {"resetAborts", "registerAborts"}
        /\ UNCHANGED <<metrics, out_metrics, registered, received>>
    BY <1>5 DEF MoveAborts, ResetAborts, GoTo, GetAbortsMove, GetAbortsReset, MutexFree, LoopUnchanged
  <2> QED
    BY <2>1 DEF NoReportLost
<1>6. CASE /\ UNCHANGED <<mailVars, mutex_>>
           /\ \/ phase' = phase
              \/ /\ phase \in {"registerAborts", "request", "piece"}
                 /\ phase' \in {"getMetrics", "request", "piece"}
  BY <1>6 DEF mailVars, NoReportLost
<1> QED
  BY <1>1, <1>2, <1>3, <1>4, <1>5, <1>6, MailFrame

\* The mailbox neither loses, duplicates nor reorders a report, although GetMetrics
\* takes two steps (MetricsService).
THEOREM ReportsKept == Spec => []NoReportLost
<1>1. Init => MailInv
  BY DEF Init, MetricsInit, MailInv, MailboxPhases, NoReportLost
<1>2. DeliveryInv /\ MailInv /\ [Next]_vars => MailInv'
  BY MailPreserved
<1>3. MailInv => NoReportLost
  BY DEF MailInv
<1> QED
  BY <1>1, <1>2, <1>3, DeliveryInvariant, PTL DEF Spec

-----------------------------------------------------------------------------

\* Only the registration of a report changes what is known of a segment.
LEMMA KnownFrame ==
  ASSUME [Next]_vars, ~ RegisterReport
  PROVE  UNCHANGED <<last_segment, last_timestamp, registered>>
<1> USE DEF abrVars
<1>1. CASE Client
  BY <1>1 DEF Client, Poll, PostMetrics, PostAbort, CloseStream
<1>2. CASE RunTask
  BY <1>2 DEF RunTask
<1>3. CASE MoveMetrics \/ ResetMetrics \/ MoveAborts \/ ResetAborts \/ RegisterAbort
  BY <1>3 DEF MoveMetrics, ResetMetrics, MoveAborts, ResetAborts, RegisterAbort, registerAbort
<1>4. CASE DecideNew \/ DecideAgain
  BY <1>4 DEF DecideNew, DecideAgain, decideNew, decideAgain, Decided
<1>5. ASSUME NEW kind \in Kinds, SkipAnswer(kind) \/ PostAnswer(kind) \/ AnswerDone(kind)
      PROVE  UNCHANGED <<last_segment, last_timestamp, registered>>
  BY <1>5 DEF SkipAnswer, PostAnswer, AnswerDone, AnswerUnchanged
<1>6. CASE UNCHANGED vars
  BY <1>6 DEF vars
<1> QED
  BY <1>1, <1>2, <1>3, <1>4, <1>5, <1>6, Zenon DEF Next, Worker

\* What a report does to what is known.
LEMMA RegisterEffect ==
  ASSUME DeliveryInv, RegisterReport
  PROVE  \E r \in Segment :
           /\ registered' = Append(registered, r)
           /\ last_segment' = IF Supersedes(r) THEN [last_segment EXCEPT ![r.index] = r]
                              ELSE last_segment
           /\ last_timestamp' = Later(last_timestamp, r.timestamp)
           /\ r.index \in Index
           /\ UNCHANGED <<decisions, aborted>>
<1>1. Head(out_metrics) \in Segment
  BY DEF DeliveryInv, TypeOK, MetricsTypeOK, RegisterReport
<1>2. Head(out_metrics).index \in Index
  BY <1>1, NAssumption DEF Segment, Segments, Index
<1> WITNESS Head(out_metrics) \in Segment
<1> QED
  BY <1>2 DEF RegisterReport, registerMetrics

\* What a report adds to what was heard of the segments.
LEMMA HeardGrows ==
  ASSUME registered \in Seq(Segment), NEW r \in Segment, registered' = Append(registered, r)
  PROVE  /\ \A i \in Index : Heard(i)' = IF r.index = i /\ r.state # "LOADING"
                                        THEN Heard(i) \cup {r} ELSE Heard(i)
         /\ \A k \in DOMAIN registered : k \in DOMAIN registered' /\ registered'[k] = registered[k]
         /\ Len(registered) + 1 \in DOMAIN registered' /\ registered'[Len(registered) + 1] = r
         /\ DOMAIN registered' = DOMAIN registered \cup {Len(registered) + 1}
<1>1. /\ \A k \in DOMAIN registered : k \in DOMAIN registered' /\ registered'[k] = registered[k]
      /\ Len(registered) + 1 \in DOMAIN registered' /\ registered'[Len(registered) + 1] = r
      /\ DOMAIN registered' = DOMAIN registered \cup {Len(registered) + 1}
  OBVIOUS
<1>2. \A i : Registered(i)' = IF r.index = i THEN Registered(i) \cup {r} ELSE Registered(i)
  BY <1>1 DEF Registered
<1> QED
  BY <1>1, <1>2 DEF Heard

LEMMA NewestPreserved ==
  ASSUME DeliveryInv, NewestKnown, [Next]_vars
  PROVE  NewestKnown'
<1>1. CASE RegisterReport
  <2>1. PICK r \in Segment :
          /\ registered' = Append(registered, r)
          /\ last_segment' = IF Supersedes(r) THEN [last_segment EXCEPT ![r.index] = r]
                             ELSE last_segment
          /\ last_timestamp' = Later(last_timestamp, r.timestamp)
          /\ r.index \in Index
    BY <1>1, RegisterEffect
  <2>2. /\ registered \in Seq(Segment) /\ last_segment \in [Index -> Segment \cup {None}]
        /\ last_timestamp \in Int /\ r.timestamp \in Int
        /\ \A k \in DOMAIN registered : registered[k] \in Segment
        /\ \A s \in Segment : s.timestamp \in Int /\ s.state \in SegmentState
    <3>1. registered \in Seq(Segment) /\ last_segment \in [Index -> Segment \cup {None}]
      BY DEF DeliveryInv, TypeOK, AbrTypeOK
    <3>2. last_timestamp \in Int
      BY MaxTimeAssumption DEF DeliveryInv, TypeOK, AbrTypeOK
    <3>3. \A s \in Segment : s.timestamp \in Int /\ s.state \in SegmentState
      BY MaxTimeAssumption DEF Segment
    <3>4. \A k \in DOMAIN registered : registered[k] \in Segment
      BY <3>1
    <3> QED
      BY <3>1, <3>2, <3>3, <3>4
  <2>3. /\ \A i \in Index : Heard(i)' = IF r.index = i /\ r.state # "LOADING"
                                       THEN Heard(i) \cup {r} ELSE Heard(i)
        /\ \A k \in DOMAIN registered : k \in DOMAIN registered' /\ registered'[k] = registered[k]
        /\ Len(registered) + 1 \in DOMAIN registered' /\ registered'[Len(registered) + 1] = r
        /\ DOMAIN registered' = DOMAIN registered \cup {Len(registered) + 1}
    BY <2>1, <2>2, HeardGrows
  <2>4. /\ \A k \in DOMAIN registered' : registered'[k].timestamp <= last_timestamp'
        /\ last_timestamp' = 0 \/ \E k \in DOMAIN registered' : registered'[k].timestamp = last_timestamp'
    BY <2>1, <2>2, <2>3 DEF NewestKnown, Later
  <2>5. ASSUME NEW i \in Index
        PROVE  /\ last_segment'[i] = None <=> Heard(i)' = {}
               /\ last_segment'[i] # None => last_segment'[i] \in Heard(i)'
               /\ \A s \in Heard(i)' :
                    \/ last_segment'[i].state = "DOWNLOADED"
                    \/ s.state = "PROGRESS" /\ s.timestamp <= last_segment'[i].timestamp
    <3>1. /\ last_segment[i] = None <=> Heard(i) = {}
          /\ last_segment[i] # None => last_segment[i] \in Heard(i)
          /\ \A s \in Heard(i) :
               \/ last_segment[i].state = "DOWNLOADED"
               \/ s.state = "PROGRESS" /\ s.timestamp <= last_segment[i].timestamp
      BY DEF NewestKnown
    <3>2. /\ r # None /\ r.state \in SegmentState
          /\ \A s \in Heard(i) : s.timestamp \in Int /\ s.state \in {"PROGRESS", "DOWNLOADED"}
      <4>1. r # None
        BY NoneAssumption
      <4>2. \A s \in Heard(i) : s \in Segment /\ s.state # "LOADING"
        BY <2>2 DEF Heard, Registered
      <4> QED
        BY <2>2, <4>1, <4>2 DEF SegmentState
    <3>3. CASE r.index # i \/ r.state = "LOADING"
      <4>1. last_segment'[i] = last_segment[i] /\ Heard(i)' = Heard(i)
        BY <2>1, <2>2, <2>3, <3>3 DEF Supersedes
      <4> QED
        BY <3>1, <4>1
    <3>4. CASE r.index = i /\ r.state # "LOADING"
      <4>1. Heard(i)' = Heard(i) \cup {r}
        BY <2>3, <3>4
      <4>2. CASE Supersedes(r)
        <5>1. last_segment'[i] = r
          BY <2>1, <2>2, <3>4, <4>2
        <5>2. CASE r.state = "DOWNLOADED"
          BY <3>2, <4>1, <5>1, <5>2
        <5>3. CASE r.state = "PROGRESS"
          <6>1. \A s \in Heard(i) : s.state = "PROGRESS" /\ s.timestamp <= r.timestamp
            <7>1. CASE last_segment[i] = None
              BY <3>1, <7>1
            <7>2. CASE last_segment[i] # None
              <8>1. last_segment[i].state = "PROGRESS" /\ last_segment[i].timestamp < r.timestamp
                BY <3>4, <4>2, <5>3, <7>2 DEF Supersedes
              <8>2. last_segment[i].timestamp \in Int
                BY <3>1, <3>2, <7>2
              <8> QED
                BY <2>2, <3>1, <3>2, <8>1, <8>2
            <7> QED
              BY <7>1, <7>2
          <6>2. r.timestamp <= r.timestamp
            BY <2>2
          <6> QED
            BY <3>2, <4>1, <5>1, <5>3, <6>1, <6>2
        <5> QED
          BY <3>2, <3>4, <5>2, <5>3 DEF SegmentState
      <4>3. CASE ~ Supersedes(r)
        <5>1. last_segment'[i] = last_segment[i]
          BY <2>1, <4>3
        <5>2. last_segment[i] # None
          BY <3>2, <3>4, <4>3 DEF Supersedes, SegmentState
        <5>3. last_segment[i].state \in {"PROGRESS", "DOWNLOADED"} /\ last_segment[i].timestamp \in Int
          BY <3>1, <3>2, <5>2
        <5>4. \/ last_segment[i].state = "DOWNLOADED"
              \/ r.state = "PROGRESS" /\ r.timestamp <= last_segment[i].timestamp
          BY <2>2, <3>2, <3>4, <4>3, <5>2, <5>3 DEF Supersedes, SegmentState
        <5> QED
          BY <3>1, <4>1, <5>1, <5>2, <5>4
      <4> QED
        BY <4>2, <4>3
    <3> QED
      BY <3>3, <3>4
  <2> QED
    BY <2>4, <2>5 DEF NewestKnown
<1>2. CASE ~ RegisterReport
  BY <1>2, KnownFrame DEF NewestKnown, Heard, Registered
<1> QED
  BY <1>1, <1>2

\* What the ABR knows is what the newest report of every segment says, in whatever
\* order the reports arrive (SegmentProgressAbr::registerMetrics).
THEOREM KnowledgeIsNewest == Spec => []NewestKnown
<1>1. Init => NewestKnown
  BY DEF Init, AbrInit, NewestKnown, Heard, Registered
<1> QED
  BY <1>1, NewestPreserved, DeliveryInvariant, PTL DEF Spec

-----------------------------------------------------------------------------

LEMMA KnownPreserved ==
  ASSUME DeliveryInv, KnownInv, [Next]_vars
  PROVE  KnownInv'
<1>1. CASE RegisterReport
  <2>1. PICK r \in Segment :
          /\ registered' = Append(registered, r)
          /\ last_segment' = IF Supersedes(r) THEN [last_segment EXCEPT ![r.index] = r]
                             ELSE last_segment
          /\ r.index \in Index
    BY <1>1, RegisterEffect
  <2>2. registered \in Seq(Segment) /\ last_segment \in [Index -> Segment \cup {None}]
    BY DEF DeliveryInv, TypeOK, AbrTypeOK
  <2>3. /\ \A k \in DOMAIN registered : k \in DOMAIN registered' /\ registered'[k] = registered[k]
        /\ Len(registered) + 1 \in DOMAIN registered' /\ registered'[Len(registered) + 1] = r
    BY <2>1, <2>2
  <2> SUFFICES ASSUME NEW i \in Index, last_segment'[i] # None
               PROVE  /\ last_segment'[i].index = i
                      /\ last_segment'[i].state \in {"PROGRESS", "DOWNLOADED"}
                      /\ \E k \in DOMAIN registered' : registered'[k] = last_segment'[i]
    BY DEF KnownInv
  <2>4. CASE last_segment'[i] = last_segment[i]
    BY <2>3, <2>4 DEF KnownInv
  <2>5. CASE Supersedes(r) /\ r.index = i /\ last_segment'[i] = r
    BY <2>3, <2>5 DEF Supersedes
  <2> QED
    BY <2>1, <2>2, <2>4, <2>5
<1>2. CASE ~ RegisterReport
  BY <1>2, KnownFrame DEF KnownInv
<1> QED
  BY <1>1, <1>2

\* The evidence for segment i.
Evidence(i) ==
  \E r \in Registered(i) :
    \/ r.state = "DOWNLOADED"
    \/ r.state = "PROGRESS" /\ (5 * r.loaded >= 4 * Total \/ i \in aborted)

\* Evidence stays: reports and aborts are only added.
LEMMA EvidenceStays ==
  ASSUME DeliveryInv, [Next]_vars, NEW i \in Segments, Evidence(i)
  PROVE  Evidence(i)'
<1>1. Registered(i) \subseteq Registered(i)'
  <2>1. CASE RegisterReport
    <3>1. PICK r \in Segment : registered' = Append(registered, r)
      BY <2>1, RegisterEffect
    <3>2. registered \in Seq(Segment)
      BY DEF DeliveryInv, TypeOK
    <3>3. \A k \in DOMAIN registered : k \in DOMAIN registered' /\ registered'[k] = registered[k]
      BY <3>1, <3>2
    <3> QED
      BY <3>3 DEF Registered
  <2>2. CASE ~ RegisterReport
    BY <2>2, KnownFrame DEF Registered
  <2> QED
    BY <2>1, <2>2
<1>2. aborted \subseteq aborted'
  BY DEF Next, Worker, RunTask, Client, Poll, PostMetrics, PostAbort, CloseStream, MoveMetrics,
         ResetMetrics, RegisterReport, registerMetrics, MoveAborts, ResetAborts, RegisterAbort,
         registerAbort, DecideNew, decideNew, DecideAgain, decideAgain, SkipAnswer, PostAnswer,
         AnswerDone, AnswerUnchanged, abrVars, vars
<1> QED
  BY <1>1, <1>2 DEF Evidence

\* should_send finds evidence.
LEMMA ShouldSend ==
  ASSUME DeliveryInv, KnownInv, NEW i \in Segments, should_send(i + 1)
  PROVE  Evidence(i)
<1> DEFINE r == last_segment[i]
<1>1. i \in Index /\ i + 1 # 1 /\ (i + 1) - 1 = i
  BY NAssumption DEF Segments, Index
<1>2. r # None /\ (r.state # "PROGRESS" \/ EightyPercent(r) \/ i \in aborted)
  BY <1>1 DEF should_send
<1>3. r \in Registered(i) /\ r.state \in {"PROGRESS", "DOWNLOADED"}
  BY <1>1, <1>2 DEF KnownInv, Registered
<1> QED
  BY <1>2, <1>3 DEF Evidence, EightyPercent

LEMMA JustifiedPreserved ==
  ASSUME DeliveryInv, EvidenceInv, [Next]_vars
  PROVE  DecisionJustified'
<1> SUFFICES ASSUME NEW i \in Segments, decisions'[i + 1] # None
             PROVE  Evidence(i)'
  BY DEF DecisionJustified, Evidence
<1>1. i + 1 \in Index
  BY NAssumption DEF Segments, Index
<1>2. Evidence(i)
  <2>1. CASE decisions[i + 1] # None
    BY <2>1 DEF EvidenceInv, DecisionJustified, Evidence
  <2>2. CASE decisions[i + 1] = None
    <3>1. DecideNew
      BY <2>2 DEF Next, Worker, RunTask, Client, Poll, PostMetrics, PostAbort, CloseStream,
                  MoveMetrics, ResetMetrics, RegisterReport, registerMetrics, MoveAborts,
                  ResetAborts, RegisterAbort, registerAbort, DecideAgain, decideAgain, SkipAnswer,
                  PostAnswer, AnswerDone, AnswerUnchanged, abrVars, vars
    <3>2. i + 1 = decision_index
      BY <1>1, <2>2, <3>1 DEF DecideNew, decideNew, DeliveryInv, TypeOK, AbrTypeOK
    <3>3. should_send(i + 1)
      BY <3>1, <3>2 DEF DecideNew, decideNew
    <3> QED
      BY <3>3, ShouldSend DEF EvidenceInv
  <2> QED
    BY <2>1, <2>2
<1> QED
  BY <1>2, EvidenceStays

\* A decision is released only on evidence about the segment before (should_send,
\* decide).
THEOREM DecisionsAreJustified == Spec => []DecisionJustified
<1>1. Init => EvidenceInv
  BY NAssumption DEF Init, AbrInit, EvidenceInv, KnownInv, DecisionJustified, Segments, Index
<1>2. DeliveryInv /\ EvidenceInv /\ [Next]_vars => EvidenceInv'
  BY KnownPreserved, JustifiedPreserved DEF EvidenceInv
<1>3. EvidenceInv => DecisionJustified
  BY DEF EvidenceInv
<1> QED
  BY <1>1, <1>2, <1>3, DeliveryInvariant, PTL DEF Spec
=============================================================================
