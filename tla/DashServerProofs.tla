-------------------------- MODULE DashServerProofs --------------------------
(***************************************************************************)
(* Proofs about DashServer, for every number of segments, every set of     *)
(* streams and every client the module allows.                             *)
(*                                                                         *)
(* AnswersInOrder is not inductive: that the next decision is only taken   *)
(* when both paths of the current one are in `sent' is a fact about the    *)
(* worker's program counter and the flags it shares with the posted task.  *)
(* DeliveryInv spells that out.                                            *)
(***************************************************************************)
EXTENDS DashServer, TLAPS

\* Decisions are taken for 1, 2, ..., decision_index - 1, and the worker holds
\* the last one.
DecisionInv ==
  /\ \A i \in Index : decisions[i] # None <=> i < decision_index
  /\ \A i \in Index : decisions[i] # None => decisions[i].index = i
  /\ decision_index = 1 => decision = None
  /\ decision_index > 1 => decision = decisions[decision_index - 1]

\* Where the worker is, as seen from the flags it shares with the posted task.
SpinInv ==
  /\ phase \notin Kinds => spin = "check"
  /\ phase \in Kinds => decision_index > 1
  /\ spin # "wait" => tasks = <<>>
  /\ spin = "wait" /\ task_done => tasks = <<>>
  /\ spin = "wait" /\ ~ task_done => ~ task_sent
  /\ spin = "retry" => ~ task_sent
  /\ TaskInFrame

\* The paths answered so far, as seen from the worker's program counter.
SentInv ==
  /\ \A i \in Index : i + 1 < decision_index => {<<"request", i>>, <<"piece", i>>} \subseteq sent
  /\ \A i \in Index : i >= decision_index => <<"request", i>> \notin sent /\ <<"piece", i>> \notin sent
  /\ decision_index > 1 =>
       LET r == <<"request", decision_index - 1>> \in sent
           p == <<"piece", decision_index - 1>> \in sent
       IN  /\ phase \notin Kinds => r /\ p
           /\ phase = "request" /\ spin = "check" => (r <=> p)
           /\ phase = "request" /\ spin # "check" => (r <=> task_sent) /\ ~ p
           /\ phase = "piece" => r
           /\ phase = "piece" /\ spin # "check" => (p <=> task_sent)

\* Nobody polls segment N + 1.
EndInv ==
  \A kind \in Kinds : stream_cache[<<kind, N + 1>>] = None /\ <<kind, N + 1>> \notin sent

DeliveryInv == TypeOK /\ DecisionInv /\ SpinInv /\ SentInv /\ EndInv

-----------------------------------------------------------------------------

LEMMA InitDeliveryInv == Init => DeliveryInv
<1> SUFFICES ASSUME Init PROVE DeliveryInv
  OBVIOUS
<1> USE NAssumption, MaxTimeAssumption DEF Init, AbrInit, PollInit, MetricsInit
<1>1. TypeOK
  <2>1. AbrTypeOK
    BY DEF AbrTypeOK
  <2>2. PollTypeOK
    BY DEF PollTypeOK, StreamStatus
  <2>3. MetricsTypeOK
    BY DEF MetricsTypeOK
  <2>4. phase \in Phases /\ spin \in {"check", "retry", "wait"}
    BY DEF Phases
  <2>5. tasks \in Seq(Task) /\ received \in Seq(Segment) /\ registered \in Seq(Segment)
    OBVIOUS
  <2> QED
    BY <2>1, <2>2, <2>3, <2>4, <2>5, Zenon DEF TypeOK
<1>2. DecisionInv
  BY DEF DecisionInv, Index
<1>3. SpinInv
  BY DEF SpinInv, TaskInFrame, Kinds
<1>4. SentInv
  BY DEF SentInv, Index
<1>5. EndInv
  BY DEF EndInv, Kinds, Path, Index
<1> QED
  BY <1>1, <1>2, <1>3, <1>4, <1>5 DEF DeliveryInv

-----------------------------------------------------------------------------
\* Steps that leave the delivery alone: all but the program counter is
\* unchanged, and that stays outside the two answering parts of the loop.

LEMMA DeliveryFrame ==
  ASSUME DeliveryInv, TypeOK',
         UNCHANGED <<decisions, decision_index, decision, spin, task_sent, task_done, sent, tasks, stream_cache>>,
         phase' = phase \/ (phase \notin Kinds /\ phase' \notin Kinds)
  PROVE  DeliveryInv'
<1>1. DecisionInv'
  BY DEF DeliveryInv, DecisionInv
<1>2. SpinInv'
  <2>1. (phase \in Kinds)' = (phase \in Kinds) /\ (phase \in Kinds => phase' = phase)
    BY DEF Kinds
  <2>2. TaskInFrame'
    <3>1. CASE phase' = phase
      BY <3>1 DEF DeliveryInv, SpinInv, TaskInFrame
    <3>2. CASE phase \notin Kinds
      BY <3>2 DEF DeliveryInv, SpinInv, TaskInFrame
    <3> QED
      BY <3>1, <3>2
  <2> QED
    BY <2>1, <2>2 DEF DeliveryInv, SpinInv, Kinds
<1>3. SentInv'
  BY DEF DeliveryInv, SentInv, Kinds
<1>4. EndInv'
  BY DEF DeliveryInv, EndInv
<1> QED
  BY <1>1, <1>2, <1>3, <1>4 DEF DeliveryInv

LEMMA MailboxInv ==
  ASSUME DeliveryInv, MoveMetrics \/ ResetMetrics \/ MoveAborts \/ ResetAborts
  PROVE  DeliveryInv'
<1> USE DEF MoveMetrics, ResetMetrics, MoveAborts, ResetAborts, GetMetricsMove, GetMetricsReset,
            GetAbortsMove, GetAbortsReset, GoTo, LoopUnchanged, abrVars, pollVars
<1>1. MetricsTypeOK'
  <2> USE DEF DeliveryInv, TypeOK, MetricsTypeOK
  <2>1. CASE MoveMetrics
    BY <2>1
  <2>2. CASE ResetMetrics
    BY <2>2
  <2>3. CASE MoveAborts
    BY <2>3
  <2>4. CASE ResetAborts
    BY <2>4
  <2> QED
    BY <2>1, <2>2, <2>3, <2>4
<1>2. AbrTypeOK' /\ PollTypeOK'
  BY DEF DeliveryInv, TypeOK, AbrTypeOK, PollTypeOK
<1>3. TypeOK'
  BY <1>1, <1>2 DEF DeliveryInv, TypeOK, Phases
<1>4. phase \notin Kinds /\ phase' \notin Kinds
  BY DEF Kinds
<1> QED
  BY <1>3, <1>4, DeliveryFrame

LEMMA RegisterReportInv == ASSUME DeliveryInv, RegisterReport PROVE DeliveryInv'
<1> USE DEF RegisterReport, registerMetrics, LoopUnchanged, pollVars
<1>1. Head(out_metrics) \in Segment /\ Tail(out_metrics) \in Seq(Segment)
  BY DEF DeliveryInv, TypeOK, MetricsTypeOK
<1>2. MetricsTypeOK'
  BY <1>1 DEF DeliveryInv, TypeOK, MetricsTypeOK
<1>3. AbrTypeOK'
  <2>1. Head(out_metrics).timestamp \in 0 .. MaxTime
    BY <1>1 DEF Segment
  <2>2. last_timestamp' \in 0 .. MaxTime
    BY <2>1 DEF Later, DeliveryInv, TypeOK, AbrTypeOK
  <2>3. last_segment' \in [Index -> Segment \cup {None}]
    BY <1>1 DEF DeliveryInv, TypeOK, AbrTypeOK
  <2> QED
    BY <2>2, <2>3 DEF DeliveryInv, TypeOK, AbrTypeOK
<1>4. TypeOK'
  BY <1>1, <1>2, <1>3 DEF DeliveryInv, TypeOK, PollTypeOK
<1> QED
  BY <1>4, DeliveryFrame

LEMMA RegisterAbortInv == ASSUME DeliveryInv, RegisterAbort PROVE DeliveryInv'
<1> USE DEF RegisterAbort, registerAbort, LoopUnchanged, pollVars
<1>1. Head(out_aborts) \in Segments /\ Tail(out_aborts) \in Seq(Segments)
  BY DEF DeliveryInv, TypeOK, MetricsTypeOK
<1>2. MetricsTypeOK'
  BY <1>1 DEF DeliveryInv, TypeOK, MetricsTypeOK
<1>3. AbrTypeOK'
  BY <1>1 DEF DeliveryInv, TypeOK, AbrTypeOK
<1>4. TypeOK'
  BY <1>2, <1>3 DEF DeliveryInv, TypeOK, PollTypeOK
<1> QED
  BY <1>4, DeliveryFrame

LEMMA ReportInSegment == Report \subseteq Segment
  BY DEF Report

LEMMA ClientInv == ASSUME DeliveryInv, Client PROVE DeliveryInv'
<1>1. ASSUME NEW s \in Streams, NEW p \in Kinds \X Segments, Poll(s, p)
      PROVE  DeliveryInv'
  <2> USE <1>1 DEF Poll, AddRequest, abrVars, metricsVars, workerVars
  <2>1. p \in Path
    BY NAssumption DEF Path, Kinds, Segments, Index
  <2>2. PollTypeOK'
    BY <2>1 DEF DeliveryInv, TypeOK, PollTypeOK, StreamStatus
  <2>3. TypeOK'
    BY <2>2 DEF DeliveryInv, TypeOK, AbrTypeOK, MetricsTypeOK
  <2>4. EndInv'
    <3>1. \A kind \in Kinds : p # <<kind, N + 1>>
      BY NAssumption DEF Segments
    <3> QED
      BY <3>1, <2>1 DEF DeliveryInv, EndInv, TypeOK, PollTypeOK
  <2> QED
    BY <2>3, <2>4 DEF DeliveryInv, DecisionInv, SpinInv, TaskInFrame, SentInv
<1>2. ASSUME NEW r \in Report, PostMetrics(r)
      PROVE  DeliveryInv'
  <2> USE <1>2 DEF PostMetrics, AddMetrics, abrVars, pollVars, workerVars
  <2>1. MetricsTypeOK' /\ received' \in Seq(Segment)
    BY ReportInSegment DEF DeliveryInv, TypeOK, MetricsTypeOK
  <2>2. TypeOK'
    BY <2>1 DEF DeliveryInv, TypeOK, AbrTypeOK, PollTypeOK
  <2> QED
    BY <2>2, DeliveryFrame
<1>3. ASSUME NEW i \in Segments, PostAbort(i)
      PROVE  DeliveryInv'
  <2> USE <1>3 DEF PostAbort, AddAbort, abrVars, pollVars, workerVars
  <2>1. MetricsTypeOK'
    BY DEF DeliveryInv, TypeOK, MetricsTypeOK
  <2>2. TypeOK'
    BY <2>1 DEF DeliveryInv, TypeOK, AbrTypeOK, PollTypeOK
  <2> QED
    BY <2>2, DeliveryFrame
<1>4. ASSUME NEW s \in Streams, CloseStream(s)
      PROVE  DeliveryInv'
  <2> USE <1>4 DEF CloseStream, CloseBackendResponseStream, abrVars, metricsVars, workerVars
  <2>1. PollTypeOK'
    BY DEF DeliveryInv, TypeOK, PollTypeOK, StreamStatus
  <2>2. TypeOK'
    BY <2>1 DEF DeliveryInv, TypeOK, AbrTypeOK, MetricsTypeOK
  <2> QED
    BY <2>2, DeliveryFrame
<1> QED
  BY <1>1, <1>2, <1>3, <1>4 DEF Client

-----------------------------------------------------------------------------
\* Taking a decision.

LEMMA DecideNewInv == DeliveryInv /\ DecideNew => DeliveryInv'
<1> SUFFICES ASSUME DeliveryInv, DecideNew PROVE DeliveryInv'
  OBVIOUS
<1> PICK q \in Qualities : decideNew(q) /\ Decided(NewDecision(q))
  BY DEF DecideNew
<1> USE NAssumption, NoneAssumption DEF DeliveryInv, Decided, decideNew, NewDecision, pollVars, metricsVars
<1>0. AbortsRegistered
  BY DEF DecideNew
<1>1. decision_index \in Index
  <2>1. decision_index \in 1 .. N + 2
    BY DEF TypeOK, AbrTypeOK
  <2>2. decision_index > 1 => <<"request", decision_index - 1>> \in sent
    BY <1>0 DEF AbortsRegistered, SentInv, Kinds
  <2>3. <<"request", N + 1>> \notin sent
    BY DEF EndInv, Kinds
  <2>4. decision_index # N + 2
    BY <2>2, <2>3
  <2> QED
    BY <2>1, <2>4 DEF Index
<1>a. NewDecision(q) \in Decision /\ NewDecision(q) # None
  BY <1>1 DEF TypeOK, AbrTypeOK, Decision
<1>b. phase' = "request" /\ spin' = "check"
  BY <1>a
<1>2. TypeOK'
  BY <1>1, <1>a, <1>b DEF TypeOK, AbrTypeOK, PollTypeOK, MetricsTypeOK, Phases, Index
<1>3. DecisionInv'
  BY <1>1, <1>a DEF DecisionInv, TypeOK, AbrTypeOK, Index
<1>4. SpinInv'
  BY <1>0, <1>b, <1>1 DEF SpinInv, TaskInFrame, Kinds, AbortsRegistered, Index
<1>5. SentInv'
  <2>0. phase \notin Kinds /\ decision_index' = decision_index + 1 /\ sent' = sent
    BY <1>0 DEF AbortsRegistered, Kinds
  <2>1. ASSUME NEW i \in Index, i < decision_index
        PROVE  <<"request", i>> \in sent /\ <<"piece", i>> \in sent
    <3>1. CASE i + 1 < decision_index
      BY <3>1 DEF SentInv
    <3>2. CASE i = decision_index - 1
      <4>1. decision_index > 1
        BY <3>2, <1>1 DEF Index
      <4>2. <<"request", decision_index - 1>> \in sent /\ <<"piece", decision_index - 1>> \in sent
        BY <2>0, <4>1 DEF SentInv
      <4> QED
        BY <3>2, <4>2
    <3> QED
      BY <2>1, <3>1, <3>2, <1>1 DEF Index
  <2>2. ASSUME NEW i \in Index, i >= decision_index
        PROVE  <<"request", i>> \notin sent /\ <<"piece", i>> \notin sent
    BY <2>2 DEF SentInv
  <2>3. decision_index' - 1 = decision_index
    BY <2>0, <1>1 DEF Index
  <2> QED
    BY <2>0, <2>1, <2>2, <2>3, <1>b, <1>1 DEF SentInv, Kinds, Index
<1>6. EndInv'
  BY DEF EndInv
<1> QED
  BY <1>2, <1>3, <1>4, <1>5, <1>6 DEF DeliveryInv

LEMMA DecideAgainInv == ASSUME DeliveryInv, DecideAgain PROVE DeliveryInv'
<1> USE DEF DeliveryInv, DecideAgain, decideAgain, Decided, abrVars, pollVars, metricsVars
<1>1. decision_index \in 1 .. N + 2 /\ phase \notin Kinds
  BY DEF TypeOK, AbrTypeOK, AbortsRegistered, Kinds
<1>2. decision_index > 1
  <2> SUFFICES ASSUME decision_index = 1 PROVE FALSE
    BY <1>1
  <2>1. decisions[1] = None
    BY NAssumption DEF DecisionInv, Index
  <2> QED
    BY <2>1 DEF should_send
<1>3. decision' = decision /\ decision # None
  <2>1. decision_index - 1 \in Index
    BY <1>1, <1>2, NAssumption DEF Index
  <2> QED
    BY <1>1, <1>2, <2>1 DEF DecisionInv
<1>4. phase' = "request" /\ spin' = "check"
  BY <1>3 DEF DecisionInv
<1>5. TypeOK'
  BY <1>3, <1>4 DEF TypeOK, AbrTypeOK, PollTypeOK, MetricsTypeOK, Phases
<1>6. DecisionInv'
  BY <1>3 DEF DecisionInv
<1>7. SpinInv'
  BY <1>1, <1>2, <1>4 DEF SpinInv, TaskInFrame, Kinds
<1>8. SentInv'
  BY <1>1, <1>4 DEF SentInv, Kinds
<1>9. EndInv'
  BY DEF EndInv
<1> QED
  BY <1>5, <1>6, <1>7, <1>8, <1>9

-----------------------------------------------------------------------------
\* Answering: the worker's side.

\* In the answering parts the worker's decision is the last one taken.
LEMMA CurrentDecision ==
  ASSUME DeliveryInv, phase \in Kinds
  PROVE  /\ decision_index \in 2 .. N + 2
         /\ decision \in Decision
         /\ path(decision) = <<"request", decision_index - 1>>
         /\ resourcePath(decision) = <<"piece", decision_index - 1>>
<1>1. decision_index \in 2 .. N + 2
  BY NAssumption DEF DeliveryInv, TypeOK, AbrTypeOK, SpinInv
<1>2. decision_index - 1 \in Index
  BY <1>1, NAssumption DEF Index
<1>3. decisions[decision_index - 1] # None /\ decision = decisions[decision_index - 1]
  BY <1>1, <1>2, NAssumption DEF DeliveryInv, DecisionInv
<1>4. decision.index = decision_index - 1
  BY <1>2, <1>3 DEF DeliveryInv, DecisionInv
<1>5. decision \in Decision
  BY <1>3 DEF DeliveryInv, TypeOK
<1> QED
  BY <1>1, <1>4, <1>5 DEF path, resourcePath

LEMMA AnswerInv ==
  ASSUME DeliveryInv, NEW kind \in Kinds, SkipAnswer(kind) \/ PostAnswer(kind) \/ AnswerDone(kind)
  PROVE  DeliveryInv'
<1> USE DEF AnswerUnchanged, abrVars, pollVars, metricsVars
<1>0. phase = kind
  BY DEF SkipAnswer, PostAnswer, AnswerDone, GoTo
<1>1. /\ decision_index \in 2 .. N + 2
      /\ decision \in Decision
      /\ path(decision) = <<"request", decision_index - 1>>
      /\ resourcePath(decision) = <<"piece", decision_index - 1>>
  BY <1>0, CurrentDecision
<1>2. UNCHANGED <<decisions, decision_index, decision, sent, stream_cache>>
  BY DEF SkipAnswer, PostAnswer, AnswerDone
<1>3. DecisionInv' /\ EndInv'
  BY <1>2 DEF DeliveryInv, DecisionInv, EndInv
<1>4. AbrTypeOK' /\ PollTypeOK' /\ MetricsTypeOK'
  BY DEF DeliveryInv, TypeOK, AbrTypeOK, PollTypeOK, MetricsTypeOK, SkipAnswer, PostAnswer, AnswerDone
<1>5. /\ \A i \in Index : i + 1 < decision_index' => {<<"request", i>>, <<"piece", i>>} \subseteq sent'
      /\ \A i \in Index : i >= decision_index' => <<"request", i>> \notin sent' /\ <<"piece", i>> \notin sent'
  BY <1>2 DEF DeliveryInv, SentInv
<1>6. PathOf(kind) \in sent <=> <<kind, decision_index - 1>> \in sent
  BY <1>1 DEF PathOf, Kinds
<1>7. CASE SkipAnswer(kind)
  <2> USE <1>7 DEF SkipAnswer, GoTo, After
  <2>1. TypeOK'
    BY <1>4 DEF DeliveryInv, TypeOK, Phases, Kinds
  <2>2. SpinInv'
    BY <1>1, <1>2 DEF DeliveryInv, SpinInv, TaskInFrame, Kinds
  <2>3. SentInv'
    BY <1>0, <1>1, <1>2, <1>5, <1>6 DEF DeliveryInv, SentInv, Kinds
  <2> QED
    BY <1>3, <2>1, <2>2, <2>3 DEF DeliveryInv
<1>8. CASE PostAnswer(kind)
  <2> USE <1>8 DEF PostAnswer
  <2>0. tasks = <<>>
    BY DEF DeliveryInv, SpinInv
  <2>1. tasks' = <<[kind |-> phase, decision |-> decision]>>
    BY <2>0, <1>0
  <2>2. [kind |-> kind, decision |-> decision] \in Task
    BY <1>1 DEF Task, Kinds
  <2>4. task_sent' = FALSE
    BY DEF DeliveryInv, SpinInv, TypeOK
  <2>a. tasks' \in Seq(Task)
    BY <2>0, <2>2
  <2>3. TypeOK'
    BY <1>2, <1>4, <2>a, <2>4 DEF DeliveryInv, TypeOK
  <2>5. SpinInv'
    BY <1>0, <1>1, <1>2, <2>1, <2>4 DEF DeliveryInv, SpinInv, TaskInFrame, Kinds
  <2>6. SentInv'
    BY <1>0, <1>1, <1>2, <1>5, <1>6, <2>4 DEF DeliveryInv, SentInv, Kinds
  <2> QED
    BY <1>3, <2>3, <2>5, <2>6 DEF DeliveryInv
<1>9. CASE AnswerDone(kind)
  <2> USE <1>9 DEF AnswerDone, After
  <2>1. TypeOK'
    BY <1>2, <1>4 DEF DeliveryInv, TypeOK, Phases, Kinds
  <2>2. SpinInv'
    BY <1>0, <1>1, <1>2 DEF DeliveryInv, SpinInv, TaskInFrame, Kinds
  <2>3. SentInv'
    BY <1>0, <1>1, <1>2, <1>5 DEF DeliveryInv, SentInv, Kinds
  <2> QED
    BY <1>3, <2>1, <2>2, <2>3 DEF DeliveryInv
<1> QED
  BY <1>7, <1>8, <1>9

-----------------------------------------------------------------------------
\* Answering: the task on the main thread.

LEMMA NoTasks == <<>> \in Seq(Task)
  OBVIOUS

LEMMA RunTaskInv == ASSUME DeliveryInv, RunTask PROVE DeliveryInv'
<1> USE DEF RunTask, abrVars, metricsVars
<1>1. tasks = <<[kind |-> phase, decision |-> decision]>> /\ spin = "wait" /\ ~ task_done /\ ~ task_sent
  BY DEF DeliveryInv, SpinInv, TaskInFrame
<1>2. Head(tasks) = [kind |-> phase, decision |-> decision] /\ tasks' = <<>>
  BY <1>1
<1>3. phase \in Kinds
  BY <1>1 DEF DeliveryInv, SpinInv
<1>4. /\ decision_index \in 2 .. N + 2
      /\ decision \in Decision
      /\ path(decision) = <<"request", decision_index - 1>>
      /\ resourcePath(decision) = <<"piece", decision_index - 1>>
  BY <1>3, CurrentDecision
<1> DEFINE p == <<phase, decision_index - 1>>
<1>5. p \in Path /\ videoPath(decision) \in Video
  BY <1>3, <1>4, NAssumption DEF Path, Kinds, Index, videoPath, Video, Decision
<1>6. \/ stream_cache[p] = None /\ UNCHANGED <<pollVars, task_sent, sent>>
      \/ /\ stream_cache[p] # None
         /\ \E b \in Decision \cup Video : AnswerEntry(p, b)
         /\ task_sent' = TRUE
         /\ sent' = sent \cup {p}
  <2>1. CASE RespondTask(decision)
    <3>1. phase = "request" /\ p = path(decision)
      BY <1>2, <1>4, <2>1 DEF RespondTask
    <3> QED
      BY <1>4, <2>1, <3>1 DEF RespondTask
  <2>2. CASE SendPieceTask(decision)
    <3>1. phase = "piece" /\ p = resourcePath(decision)
      BY <1>2, <1>4, <2>2 DEF SendPieceTask
    <3> QED
      BY <1>5, <2>2, <3>1 DEF SendPieceTask
  <2>3. RespondTask(decision) \/ SendPieceTask(decision)
    BY <1>2
  <2> QED
    BY <2>1, <2>2, <2>3, Zenon
<1>7. UNCHANGED <<decisions, decision_index, decision, phase, spin>> /\ task_done'
  OBVIOUS
<1>8. DecisionInv'
  BY <1>7 DEF DeliveryInv, DecisionInv
<1>9. SpinInv'
  BY <1>1, <1>2, <1>3, <1>7 DEF DeliveryInv, SpinInv, TaskInFrame
<1>10. AbrTypeOK' /\ MetricsTypeOK'
  BY DEF DeliveryInv, TypeOK, AbrTypeOK, MetricsTypeOK
<1>11. CASE stream_cache[p] = None /\ UNCHANGED <<pollVars, task_sent, sent>>
  <2>1. TypeOK'
    BY <1>2, <1>7, <1>10, <1>11 DEF DeliveryInv, TypeOK, PollTypeOK, pollVars
  <2>2. SentInv'
    BY <1>7, <1>11 DEF DeliveryInv, SentInv
  <2>3. EndInv'
    BY <1>11 DEF DeliveryInv, EndInv, pollVars
  <2> QED
    BY <1>8, <1>9, <2>1, <2>2, <2>3 DEF DeliveryInv
<1>12. ASSUME stream_cache[p] # None, NEW b \in Decision \cup Video, AnswerEntry(p, b),
              task_sent' = TRUE, sent' = sent \cup {p}
       PROVE  DeliveryInv'
  <2>1. PollTypeOK'
    <3> DEFINE s == stream_cache[p]
    <3>1. s \in Streams
      BY <1>5, <1>12 DEF DeliveryInv, TypeOK, PollTypeOK
    <3>2. streams' \in [Streams -> [path   : Path \cup {None},
                                    status : StreamStatus,
                                    body   : Decision \cup Video \cup {None}]]
      BY <3>1, <1>12 DEF DeliveryInv, TypeOK, PollTypeOK, AnswerEntry, Respond, StreamStatus
    <3>3. stream_cache' \in [Path -> Streams \cup {None}]
      BY <1>12 DEF DeliveryInv, TypeOK, PollTypeOK, AnswerEntry
    <3> QED
      BY <3>2, <3>3 DEF PollTypeOK
  <2>2. TypeOK'
    <3>1. sent' \subseteq Path
      BY <1>5, <1>12 DEF DeliveryInv, TypeOK
    <3>2. tasks' \in Seq(Task)
      BY <1>2, NoTasks, Zenon
    <3> QED
      BY <1>7, <1>10, <1>12, <2>1, <3>1, <3>2 DEF DeliveryInv, TypeOK
  <2>3. SentInv'
    <3>1. \A i \in Index : <<"request", i>> \in sent => <<"request", i>> \in sent'
      BY <1>12
    <3>2. \A i \in Index : <<"piece", i>> \in sent => <<"piece", i>> \in sent'
      BY <1>12
    <3>3. \A i \in Index : i >= decision_index => <<"request", i>> # p /\ <<"piece", i>> # p
      BY <1>4 DEF Index
    <3>4. phase = "request" => <<"request", decision_index - 1>> \in sent' /\ <<"piece", decision_index - 1>> \notin sent'
      BY <1>1, <1>4, <1>12 DEF DeliveryInv, SentInv
    <3>5. phase = "piece" => <<"request", decision_index - 1>> \in sent' /\ <<"piece", decision_index - 1>> \in sent'
      BY <1>1, <1>4, <1>12 DEF DeliveryInv, SentInv
    <3>6. \A i \in Index : i + 1 < decision_index' => {<<"request", i>>, <<"piece", i>>} \subseteq sent'
      BY <1>7, <3>1, <3>2 DEF DeliveryInv, SentInv
    <3>7. \A i \in Index : i >= decision_index' => <<"request", i>> \notin sent' /\ <<"piece", i>> \notin sent'
      BY <1>7, <1>12, <3>3 DEF DeliveryInv, SentInv
    <3> QED
      BY <1>1, <1>3, <1>7, <1>12, <3>4, <3>5, <3>6, <3>7 DEF SentInv, Kinds
  <2>4. EndInv'
    <3>1. \A kind \in Kinds : p # <<kind, N + 1>>
      BY <1>3, <1>12 DEF DeliveryInv, EndInv
    <3> QED
      BY <1>5, <1>12, <3>1 DEF DeliveryInv, EndInv, AnswerEntry, TypeOK, PollTypeOK
  <2> QED
    BY <1>8, <1>9, <2>2, <2>3, <2>4 DEF DeliveryInv
<1> QED
  BY <1>6, <1>11, <1>12

-----------------------------------------------------------------------------

LEMMA NextDeliveryInv == DeliveryInv /\ [Next]_vars => DeliveryInv'
<1> SUFFICES ASSUME DeliveryInv, [Next]_vars PROVE DeliveryInv'
  OBVIOUS
<1>1. CASE Worker
  BY <1>1, MailboxInv, RegisterReportInv, RegisterAbortInv, DecideNewInv, DecideAgainInv, AnswerInv DEF Worker
<1>2. CASE RunTask
  BY <1>2, RunTaskInv
<1>3. CASE Client
  BY <1>3, ClientInv
<1>4. CASE UNCHANGED vars
  <2>1. TypeOK'
    BY <1>4 DEF vars, abrVars, pollVars, metricsVars, workerVars, DeliveryInv, TypeOK, AbrTypeOK, PollTypeOK, MetricsTypeOK
  <2> QED
    BY <1>4, <2>1, DeliveryFrame DEF vars, abrVars, pollVars, workerVars
<1> QED
  BY <1>1, <1>2, <1>3, <1>4 DEF Next

\* The inductive invariant holds in every reachable state of the server.
THEOREM DeliveryInvariant == Spec => []DeliveryInv
  BY InitDeliveryInv, NextDeliveryInv, PTL DEF Spec

\* Type correctness of the server, mailbox, cache and ABR state together.
THEOREM TypeCorrect == Spec => []TypeOK
<1>1. DeliveryInv => TypeOK
  BY DEF DeliveryInv
<1> QED
  BY <1>1, DeliveryInvariant, PTL

\* A posted task always writes to a live stack frame of the worker, and the
\* threads take turns on AbrLoop::sent.
THEOREM TasksInFrame == Spec => []TaskInFrame
<1>1. DeliveryInv => TaskInFrame
  BY DEF DeliveryInv, SpinInv
<1> QED
  BY <1>1, DeliveryInvariant, PTL

\* However many segments there are and whatever the client polls, decisions and
\* pieces go out one segment after the other.
THEOREM AnswersAreInOrder == Spec => []AnswersInOrder
<1>1. DeliveryInv => AnswersInOrder
  <2> SUFFICES ASSUME DeliveryInv, NEW i \in Index
               PROVE  /\ <<"piece", i>> \in sent => <<"request", i>> \in sent
                      /\ i > 1 /\ <<"request", i>> \in sent => <<"piece", i - 1>> \in sent
    BY DEF AnswersInOrder
  <2>1. decision_index \in 1 .. N + 2 /\ i \in 1 .. N + 1
    BY DEF DeliveryInv, TypeOK, AbrTypeOK, Index
  <2>2. <<"piece", i>> \in sent => <<"request", i>> \in sent
    <3>1. CASE i + 1 < decision_index
      BY <3>1 DEF DeliveryInv, SentInv
    <3>2. CASE i >= decision_index
      BY <3>2 DEF DeliveryInv, SentInv
    <3>3. CASE i = decision_index - 1
      <4>1. <<"piece", decision_index - 1>> \in sent => <<"request", decision_index - 1>> \in sent
        BY <2>1, <3>3, NAssumption DEF DeliveryInv, SentInv, TypeOK, Phases, Kinds
      <4> QED
        BY <3>3, <4>1
    <3> QED
      BY <2>1, <3>1, <3>2, <3>3, NAssumption
  <2>3. ASSUME i > 1, <<"request", i>> \in sent
        PROVE  <<"piece", i - 1>> \in sent
    <3>0. i >= decision_index => <<"request", i>> \notin sent
      BY DEF DeliveryInv, SentInv
    <3>1. i < decision_index
      BY <2>1, <2>3, <3>0
    <3>2. i - 1 \in Index /\ (i - 1) + 1 < decision_index
      BY <2>1, <2>3, <3>1, NAssumption DEF Index
    <3> QED
      BY <3>2 DEF DeliveryInv, SentInv
  <2> QED
    BY <2>2, <2>3
<1> QED
  BY <1>1, DeliveryInvariant, PTL

\* The worker parks on segment N + 1 and never decides beyond it.
THEOREM WorkerParks == Spec => []NoDecisionPastTheEnd
<1>1. DeliveryInv => NoDecisionPastTheEnd
  <2> SUFFICES ASSUME DeliveryInv, phase = "registerAborts", decision_index > N + 1
               PROVE  FALSE
    BY NAssumption DEF NoDecisionPastTheEnd, DeliveryInv, TypeOK, AbrTypeOK
  <2>1. decision_index = N + 2
    BY NAssumption DEF DeliveryInv, TypeOK, AbrTypeOK
  <2>2. <<"request", decision_index - 1>> \in sent
    BY <2>1, NAssumption DEF DeliveryInv, SentInv, Kinds
  <2>3. <<"request", N + 1>> \notin sent
    BY DEF DeliveryInv, EndInv, Kinds
  <2> QED
    BY <2>1, <2>2, <2>3, NAssumption
<1> QED
  BY <1>1, DeliveryInvariant, PTL

-----------------------------------------------------------------------------
(***************************************************************************)
(* What the streams carry.                                                 *)
(***************************************************************************)

\* The body a path is answered with.
BodyFor(p) ==
  IF p[1] = "request" THEN decisions[p[2]] ELSE videoPath(decisions[p[2]])

\* Its handler was not called yet, although the client may have closed it.
Waiting(s) == streams[s].status \in {"open", "closed"}

\* A cached stream waits for the path it is cached under; an answered one
\* belongs to a path in `sent' and carries the decision, or the file, of it.
StreamInv ==
  /\ \A p \in Path : stream_cache[p] # None =>
       streams[stream_cache[p]].path = p /\ Waiting(stream_cache[p])
  /\ \A s \in Streams : Answered(s) =>
       streams[s].path \in sent /\ streams[s].body = BodyFor(streams[s].path)
  /\ AnsweredOnce

LEMMA StreamFrame ==
  ASSUME StreamInv, UNCHANGED <<stream_cache, streams, sent, decisions>>
  PROVE  StreamInv'
  BY DEF StreamInv, Waiting, Answered, AnsweredOnce, BodyFor, videoPath

\* What a posted task does to the streams, in terms of the path it answers.
LEMMA TaskEffect ==
  ASSUME DeliveryInv, RunTask
  PROVE  \/ UNCHANGED <<stream_cache, streams, sent>>
         \/ \E p \in Path :
              /\ p \notin sent
              /\ stream_cache[p] # None
              /\ AnswerEntry(p, BodyFor(p))
              /\ sent' = sent \cup {p}
<1> USE DEF RunTask
<1>1. tasks = <<[kind |-> phase, decision |-> decision]>> /\ spin = "wait" /\ ~ task_done /\ ~ task_sent
  BY DEF DeliveryInv, SpinInv, TaskInFrame
<1>2. Head(tasks) = [kind |-> phase, decision |-> decision]
  BY <1>1
<1>3. phase \in Kinds
  BY <1>1 DEF DeliveryInv, SpinInv
<1>4. /\ decision_index \in 2 .. N + 2
      /\ path(decision) = <<"request", decision_index - 1>>
      /\ resourcePath(decision) = <<"piece", decision_index - 1>>
  BY <1>3, CurrentDecision
<1>5. decision = decisions[decision_index - 1] /\ decision_index - 1 \in Index
  BY <1>4, NAssumption DEF DeliveryInv, DecisionInv, Index
<1>6. CASE RespondTask(decision)
  <2> DEFINE p == <<"request", decision_index - 1>>
  <2>1. phase = "request"
    BY <1>2, <1>6 DEF RespondTask
  <2>2. p \in Path /\ p \notin sent /\ BodyFor(p) = decision
    BY <1>1, <1>4, <1>5, <2>1 DEF DeliveryInv, SentInv, Path, BodyFor
  <2> QED
    BY <1>4, <1>6, <2>2 DEF RespondTask, pollVars
<1>7. CASE SendPieceTask(decision)
  <2> DEFINE p == <<"piece", decision_index - 1>>
  <2>1. phase = "piece"
    BY <1>2, <1>7 DEF SendPieceTask
  <2>2. p \in Path /\ p \notin sent /\ BodyFor(p) = videoPath(decision)
    BY <1>1, <1>4, <1>5, <2>1 DEF DeliveryInv, SentInv, Path, BodyFor
  <2> QED
    BY <1>4, <1>7, <2>2 DEF SendPieceTask, pollVars
<1>8. RespondTask(decision) \/ SendPieceTask(decision)
  BY <1>2
<1> QED
  BY <1>6, <1>7, <1>8, Zenon

LEMMA NextStreamInv == DeliveryInv /\ StreamInv /\ [Next]_vars => StreamInv'
<1> SUFFICES ASSUME DeliveryInv, StreamInv, [Next]_vars PROVE StreamInv'
  OBVIOUS
<1>0. PollTypeOK
  BY DEF DeliveryInv, TypeOK
<1>1. CASE RunTask
  <2>0. decisions' = decisions
    BY <1>1 DEF RunTask, abrVars
  <2>1. CASE UNCHANGED <<stream_cache, streams, sent>>
    BY <2>0, <2>1, StreamFrame
  <2>2. ASSUME NEW p \in Path, p \notin sent, stream_cache[p] # None,
               AnswerEntry(p, BodyFor(p)), sent' = sent \cup {p}
        PROVE  StreamInv'
    <3> DEFINE s == stream_cache[p]
    <3>1. s \in Streams /\ streams[s].path = p /\ Waiting(s)
      BY <1>0, <2>2 DEF StreamInv, PollTypeOK
    <3>2. /\ streams'[s].path = p /\ streams'[s].body = BodyFor(p)
          /\ \A t \in Streams \ {s} : streams'[t] = streams[t]
          /\ stream_cache' = [stream_cache EXCEPT ![p] = None]
      BY <1>0, <2>2, <3>1 DEF AnswerEntry, Respond, PollTypeOK, Answered
    <3>3. \A q \in Path : BodyFor(q)' = BodyFor(q)
      BY <2>0 DEF BodyFor, videoPath
    <3>4. \A q \in Path : stream_cache'[q] # None =>
            streams'[stream_cache'[q]].path = q /\ Waiting(stream_cache[q])'
      <4> SUFFICES ASSUME NEW q \in Path, stream_cache'[q] # None
                   PROVE  streams'[stream_cache'[q]].path = q /\ Waiting(stream_cache[q])'
        OBVIOUS
      <4>1. q # p /\ stream_cache'[q] = stream_cache[q]
        BY <1>0, <3>2 DEF PollTypeOK
      <4>2. stream_cache[q] \in Streams \ {s}
        BY <1>0, <3>1, <4>1 DEF StreamInv, PollTypeOK
      <4>3. streams'[stream_cache[q]] = streams[stream_cache[q]]
        BY <3>2, <4>2
      <4> QED
        BY <4>1, <4>3 DEF StreamInv, Waiting
    <3>5. \A t \in Streams : Answered(t)' =>
            streams'[t].path \in sent' /\ streams'[t].body = BodyFor(streams[t].path)'
      <4> SUFFICES ASSUME NEW t \in Streams, Answered(t)'
                   PROVE  streams'[t].path \in sent' /\ streams'[t].body = BodyFor(streams[t].path)'
        OBVIOUS
      <4>1. CASE t = s
        BY <2>2, <3>2, <3>3, <4>1
      <4>2. CASE t # s
        <5>1. Answered(t) /\ streams'[t] = streams[t]
          BY <3>2, <4>2 DEF Answered
        <5>2. streams[t].path \in Path
          BY <5>1 DEF StreamInv, DeliveryInv, TypeOK
        <5> QED
          BY <2>2, <3>3, <5>1, <5>2 DEF StreamInv
      <4> QED
        BY <4>1, <4>2
    <3>6. AnsweredOnce'
      <4>1. \A t \in Streams \ {s} : Answered(t)' => Answered(t) /\ streams'[t].path # p
        BY <2>2, <3>2 DEF StreamInv, Answered
      <4> QED
        BY <3>2, <4>1 DEF StreamInv, AnsweredOnce
    <3> QED
      BY <3>4, <3>5, <3>6 DEF StreamInv
  <2> QED
    BY <1>1, <2>1, <2>2, TaskEffect
<1>2. CASE Worker
  <2>1. CASE DecideNew
    <3>1. UNCHANGED <<stream_cache, streams, sent>>
      BY <2>1 DEF DecideNew, Decided, pollVars
    <3>2. \A i \in Index : i # decision_index => decisions'[i] = decisions[i]
      BY <2>1 DEF DecideNew, decideNew, DeliveryInv, TypeOK, AbrTypeOK
    <3>3. \A p \in sent : p[2] \in Index /\ p[2] # decision_index
      <4> SUFFICES ASSUME NEW p \in sent PROVE p[2] \in Index /\ p[2] # decision_index
        OBVIOUS
      <4>1. p \in {"request", "piece"} \X Index
        BY DEF DeliveryInv, TypeOK, Path
      <4>2. p = <<p[1], p[2]>> /\ p[1] \in {"request", "piece"} /\ p[2] \in Index
        BY <4>1
      <4>3. p[2] = decision_index => <<"request", p[2]>> \notin sent /\ <<"piece", p[2]>> \notin sent
        BY <4>2 DEF DeliveryInv, SentInv, Index
      <4> QED
        BY <4>2, <4>3
    <3>4. \A p \in sent : BodyFor(p)' = BodyFor(p)
      BY <3>2, <3>3 DEF BodyFor, videoPath
    <3> QED
      BY <3>1, <3>4 DEF StreamInv, Waiting, Answered, AnsweredOnce
  <2>2. CASE ~ DecideNew
    BY <1>2, <2>2, StreamFrame
       DEF Worker, MoveMetrics, ResetMetrics, RegisterReport, registerMetrics, MoveAborts, ResetAborts,
           RegisterAbort, registerAbort, DecideAgain, decideAgain, Decided, SkipAnswer, PostAnswer, AnswerDone,
           AnswerUnchanged, LoopUnchanged, abrVars, pollVars
  <2> QED
    BY <2>1, <2>2
<1>3. CASE Client
  <2>1. ASSUME NEW s \in Streams, NEW p \in Kinds \X Segments, Poll(s, p)
        PROVE  StreamInv'
    <3>1. p \in Path /\ ~ Answered(s) /\ UNCHANGED <<sent, decisions>>
      BY <2>1, NAssumption DEF Path, Kinds, Segments, Index, Poll, AddRequest, Answered, workerVars, abrVars
    <3>2. streams'[s].path = p /\ ~ Answered(s)' /\ \A t \in Streams \ {s} : streams'[t] = streams[t]
      BY <1>0, <2>1 DEF Poll, AddRequest, PollTypeOK, Answered
    <3>3. \A q \in Path : stream_cache[q] # s
      BY <1>0, <2>1, StreamsAssumption DEF Poll, AddRequest, StreamInv, Waiting, PollTypeOK
    <3> QED
      BY <1>0, <2>1, <3>1, <3>2, <3>3 DEF StreamInv, Waiting, Answered, AnsweredOnce, BodyFor, videoPath, Poll, AddRequest, PollTypeOK
  <2>2. ASSUME NEW s \in Streams, CloseStream(s)
        PROVE  StreamInv'
    <3>1. /\ UNCHANGED <<sent, decisions, stream_cache>>
          /\ \A t \in Streams : streams'[t].path = streams[t].path /\ streams'[t].body = streams[t].body
                                /\ (Answered(t)' <=> Answered(t)) /\ (Waiting(t) => Waiting(t)')
      BY <1>0, <2>2 DEF CloseStream, CloseBackendResponseStream, PollTypeOK, Answered, Waiting, workerVars, abrVars
    <3> QED
      BY <1>0, <3>1 DEF StreamInv, Waiting, AnsweredOnce, BodyFor, videoPath, PollTypeOK
  <2>3. CASE (\E r \in Report : PostMetrics(r)) \/ (\E i \in Segments : PostAbort(i))
    BY <2>3, StreamFrame DEF PostMetrics, PostAbort, abrVars, pollVars, workerVars
  <2> QED
    BY <1>3, <2>1, <2>2, <2>3 DEF Client
<1>4. CASE UNCHANGED vars
  BY <1>4, StreamFrame DEF vars, abrVars, pollVars, workerVars
<1> QED
  BY <1>1, <1>2, <1>3, <1>4 DEF Next

LEMMA StreamInvariant == Spec => []StreamInv
<1>1. Init => StreamInv
  BY DEF Init, PollInit, StreamInv, Answered, AnsweredOnce
<1> QED
  BY <1>1, NextStreamInv, DeliveryInvariant, PTL DEF Spec

\* No path is answered twice, however often the client polls it, and whatever
\* streams it closes.
THEOREM PathsAnsweredOnce == Spec => []AnsweredOnce
<1>1. StreamInv => AnsweredOnce
  BY DEF StreamInv
<1> QED
  BY <1>1, StreamInvariant, PTL

\* The quality announced for a segment is the quality of the file served.
THEOREM QualitiesAgree == Spec => []QualityAgreement
<1>1. DeliveryInv /\ StreamInv => QualityAgreement
  <2> SUFFICES ASSUME DeliveryInv, StreamInv, NEW s \in Streams, NEW t \in Streams, NEW i \in Segments,
                      Answered(s), streams[s].path = <<"request", i>>,
                      Answered(t), streams[t].path = <<"piece", i>>
               PROVE  /\ streams[s].body.index = i /\ streams[t].body.index = i
                      /\ streams[s].body.quality = streams[t].body.quality
    BY DEF QualityAgreement
  <2>1. streams[s].body = decisions[i] /\ streams[t].body = videoPath(decisions[i])
    BY DEF StreamInv, BodyFor
  <2>2. <<"request", i>> \in sent /\ i \in Index
    BY NAssumption DEF StreamInv, Segments, Index
  <2>3. decisions[i] # None
    <3>1. i >= decision_index => <<"request", i>> \notin sent
      BY <2>2 DEF DeliveryInv, SentInv
    <3>2. i < decision_index
      BY <2>2, <3>1 DEF DeliveryInv, TypeOK, AbrTypeOK, Index
    <3> QED
      BY <2>2, <3>2 DEF DeliveryInv, DecisionInv
  <2>4. decisions[i].index = i
    BY <2>2, <2>3 DEF DeliveryInv, DecisionInv
  <2> QED
    BY <2>1, <2>4 DEF videoPath
<1> QED
  BY <1>1, DeliveryInvariant, StreamInvariant, PTL

-----------------------------------------------------------------------------

LEMMA DecisionStep ==
  ASSUME DeliveryInv, [Next]_vars, NEW i \in Index, decisions[i] # None
  PROVE  decisions'[i] = decisions[i]
<1>1. CASE DecideNew
  <2>1. decisions[decision_index] = None
    BY <1>1 DEF DecideNew, decideNew
  <2>2. i # decision_index
    BY <2>1
  <2> QED
    BY <1>1, <2>2 DEF DecideNew, decideNew, DeliveryInv, TypeOK, AbrTypeOK
<1>2. CASE ~ DecideNew
  BY <1>2 DEF Next, Worker, RunTask, Client, Poll, PostMetrics, PostAbort, CloseStream, MoveMetrics,
              ResetMetrics, RegisterReport, registerMetrics, MoveAborts, ResetAborts, RegisterAbort,
              registerAbort, DecideAgain, decideAgain, SkipAnswer, PostAnswer, AnswerDone,
              AnswerUnchanged, abrVars, vars
<1> QED
  BY <1>1, <1>2

\* Decisions are idempotent: no step changes one that was taken.
THEOREM DecisionsAreFinal == Spec => DecisionsFinal
<1>1. DeliveryInv /\ [Next]_vars =>
        [\A i \in Index : decisions[i] # None => decisions'[i] = decisions[i]]_vars
  BY DecisionStep
<1> QED
  BY <1>1, DeliveryInvariant, PTL DEF Spec, DecisionsFinal

-----------------------------------------------------------------------------
(***************************************************************************)
(* The server implements SegmentDelivery.                                  *)
(***************************************************************************)

\* `sent' only changes when a task answers, and then by the one path the
\* worker waits for.
LEMMA SentStep ==
  ASSUME DeliveryInv, [Next]_vars
  PROVE  \/ sent' = sent
         \/ /\ decisions' = decisions
            /\ \E kind \in Kinds :
                 /\ phase = kind /\ spin = "wait" /\ ~ task_sent /\ decision_index > 1
                 /\ sent' = sent \cup {<<kind, decision_index - 1>>}
<1>1. CASE RunTask
  <2> USE <1>1 DEF RunTask, abrVars
  <2>1. tasks = <<[kind |-> phase, decision |-> decision]>> /\ spin = "wait" /\ ~ task_done /\ ~ task_sent
    BY DEF DeliveryInv, SpinInv, TaskInFrame
  <2>2. Head(tasks) = [kind |-> phase, decision |-> decision]
    BY <2>1
  <2>3. phase \in Kinds
    BY <2>1 DEF DeliveryInv, SpinInv
  <2>4. /\ decision_index > 1
        /\ path(decision) = <<"request", decision_index - 1>>
        /\ resourcePath(decision) = <<"piece", decision_index - 1>>
    BY <2>3, CurrentDecision, NAssumption
  <2>5. CASE RespondTask(decision)
    <3>1. phase = "request"
      BY <2>2, <2>5 DEF RespondTask
    <3> QED
      BY <2>1, <2>4, <2>5, <3>1 DEF RespondTask, Kinds
  <2>6. CASE SendPieceTask(decision)
    <3>1. phase = "piece"
      BY <2>2, <2>6 DEF SendPieceTask
    <3> QED
      BY <2>1, <2>4, <2>6, <3>1 DEF SendPieceTask, Kinds
  <2>7. RespondTask(decision) \/ SendPieceTask(decision)
    BY <2>2
  <2> QED
    BY <2>5, <2>6, <2>7, Zenon
<1>2. CASE ~ RunTask
  BY <1>2 DEF Next, Worker, Client, Poll, PostMetrics, PostAbort, CloseStream, MoveMetrics,
              ResetMetrics, RegisterReport, MoveAborts, ResetAborts, RegisterAbort, LoopUnchanged,
              DecideNew, DecideAgain, Decided, SkipAnswer, PostAnswer, AnswerDone,
              AnswerUnchanged, workerVars, vars
<1> QED
  BY <1>1, <1>2


\* A segment is in `sent' only when its decision was taken.
LEMMA SentDecided ==
  ASSUME DeliveryInv, NEW i \in Index, NEW kind \in Kinds, <<kind, i>> \in sent
  PROVE  /\ i < decision_index
         /\ decisions[i] # None
         /\ decisions[i].quality \in Qualities
         /\ decisions[i].quality # None
<1>1. i >= decision_index => <<"request", i>> \notin sent /\ <<"piece", i>> \notin sent
  BY DEF DeliveryInv, SentInv
<1>0. <<"request", i>> \in sent \/ <<"piece", i>> \in sent
  BY DEF Kinds
<1>2. i < decision_index
  BY <1>0, <1>1, NAssumption DEF DeliveryInv, TypeOK, AbrTypeOK, Index
<1>3. decisions[i] # None
  BY <1>2 DEF DeliveryInv, DecisionInv
<1>4. decisions[i] \in Decision
  BY <1>3 DEF DeliveryInv, TypeOK, AbrTypeOK
<1> QED
  BY <1>2, <1>3, <1>4, NoneAssumption DEF Decision

\* The refinement mapping, path by path.
LEMMA DeliveredStep ==
  ASSUME DeliveryInv, [Next]_vars, NEW kind \in Kinds, NEW i \in Index,
         <<kind, i>> \in sent' <=> <<kind, i>> \in sent
  PROVE  Delivered(kind)'[i] = Delivered(kind)[i]
<1>1. CASE <<kind, i>> \in sent
  <2>1. decisions'[i] = decisions[i]
    BY <1>1, SentDecided, DecisionStep
  <2> QED
    BY <1>1, <2>1 DEF Delivered
<1>2. CASE <<kind, i>> \notin sent
  BY <1>2 DEF Delivered
<1> QED
  BY <1>1, <1>2

LEMMA DeliveredDomain ==
  ASSUME NEW kind
  PROVE  /\ Delivered(kind) = [i \in Index |-> Delivered(kind)[i]]
         /\ Delivered(kind)' = [i \in Index |-> Delivered(kind)'[i]]
  BY DEF Delivered

LEMMA DeliveryStep ==
  ASSUME DeliveryInv, [Next]_vars
  PROVE  [Delivery!Next]_(Delivery!deliveryVars)
<1> DEFINE ann == Delivered("request")
           srv == Delivered("piece")
<1>1. CASE sent' = sent
  <2>1. \A kind \in Kinds : \A i \in Index : Delivered(kind)'[i] = Delivered(kind)[i]
    BY <1>1, DeliveredStep
  <2>2. ann' = ann /\ srv' = srv
    BY <2>1, DeliveredDomain DEF Kinds
  <2> QED
    BY <2>2 DEF Delivery!deliveryVars
<1>2. ASSUME NEW kind \in Kinds, phase = kind, spin = "wait", ~ task_sent, decision_index > 1,
             sent' = sent \cup {<<kind, decision_index - 1>>}, decisions' = decisions
      PROVE  Delivery!Next
  <2> DEFINE k == decision_index - 1
  <2>1. decision_index \in 2 .. N + 2 /\ k \in Index /\ k \in 1 .. N + 1
    BY <1>2, NAssumption DEF DeliveryInv, TypeOK, AbrTypeOK, Index
  <2>2. decisions[k] # None /\ decisions[k].quality \in Qualities /\ decisions[k].quality # None
    <3>1. decisions[k] # None
      BY <2>1, NAssumption DEF DeliveryInv, DecisionInv
    <3>2. decisions[k] \in Decision
      BY <2>1, <3>1 DEF DeliveryInv, TypeOK, AbrTypeOK
    <3> QED
      BY <3>1, <3>2, NoneAssumption DEF Decision
  <2>3. DOMAIN ann = Index
    BY DEF Delivered
  <2>4. CASE kind = "request"
    <3>1. ann[k] = None
      <4>1. <<"request", k>> \notin sent
        BY <1>2, <2>4 DEF DeliveryInv, SentInv
      <4> QED
        BY <2>1, <4>1 DEF Delivered
    <3>2. \A j \in Index : j < k => srv[j] # None
      <4> SUFFICES ASSUME NEW j \in Index, j < k PROVE srv[j] # None
        OBVIOUS
      <4>1. j + 1 < decision_index
        BY <2>1 DEF Index
      <4>2. <<"piece", j>> \in sent
        BY <4>1 DEF DeliveryInv, SentInv
      <4> QED
        BY <4>2, SentDecided DEF Delivered, Kinds
    <3>3. \A i \in Index \ {k} : ann'[i] = ann[i]
      BY <1>2, <2>4, DeliveredStep
    <3>4. ann'[k] = decisions[k].quality
      BY <1>2, <2>1, <2>4 DEF Delivered
    <3>5. ann' = [ann EXCEPT ![k] = decisions[k].quality]
      BY <2>1, <3>3, <3>4, DeliveredDomain
    <3>6. srv' = srv
      <4>1. \A i \in Index : srv'[i] = srv[i]
        BY <1>2, <2>4, DeliveredStep DEF Kinds
      <4> QED
        BY <4>1, DeliveredDomain
    <3>7. Delivery!Announce(k, decisions[k].quality)
      BY <2>3, <3>1, <3>2, <3>5, <3>6 DEF Delivery!Announce
    <3> QED
      BY <2>1, <2>2, <2>3, <3>7 DEF Delivery!Next
  <2>5. CASE kind = "piece"
    <3>1. ann[k] = decisions[k].quality
      <4>1. <<"request", k>> \in sent
        BY <1>2, <2>5 DEF DeliveryInv, SentInv
      <4> QED
        BY <2>1, <4>1 DEF Delivered
    <3>2. srv[k] = None
      <4>1. <<"piece", k>> \notin sent
        BY <1>2, <2>5 DEF DeliveryInv, SentInv
      <4> QED
        BY <2>1, <4>1 DEF Delivered
    <3>3. \A i \in Index \ {k} : srv'[i] = srv[i]
      BY <1>2, <2>5, DeliveredStep
    <3>4. srv'[k] = decisions[k].quality
      BY <1>2, <2>1, <2>5 DEF Delivered
    <3>5. srv' = [srv EXCEPT ![k] = ann[k]]
      BY <2>1, <3>1, <3>3, <3>4, DeliveredDomain
    <3>6. ann' = ann
      <4>1. \A i \in Index : ann'[i] = ann[i]
        BY <1>2, <2>5, DeliveredStep DEF Kinds
      <4> QED
        BY <4>1, DeliveredDomain
    <3>7. Delivery!Serve(k)
      BY <2>2, <3>1, <3>2, <3>5, <3>6 DEF Delivery!Serve
    <3> QED
      BY <2>1, <2>3, <3>7 DEF Delivery!Next
  <2> QED
    BY <2>4, <2>5 DEF Kinds
<1> QED
  BY <1>1, <1>2, SentStep

\* The server, with its two threads, mailbox, cache and retries, implements the
\* abstract delivery of segments.
THEOREM ServerImplementsDelivery == Spec => ImplementsDelivery
<1>1. Init => Delivery!Init
  BY DEF Init, Delivery!Init, Delivered
<1>2. DeliveryInv /\ [Next]_vars => [Delivery!Next]_(Delivery!deliveryVars)
  BY DeliveryStep
<1> QED
  BY <1>1, <1>2, DeliveryInvariant, PTL DEF Spec, ImplementsDelivery, Delivery!Spec
=============================================================================
