----------------------------- MODULE DashServer -----------------------------
(***************************************************************************)
(* The streaming server: DashBackend on the main thread, AbrLoop on its    *)
(* worker thread, and the services between them (net/abrcc).               *)
(*                                                                         *)
(* The main thread runs one handler or one posted task at a time.  The     *)
(* worker drains the mailbox, asks the ABR for a decision, and answers the *)
(* two hanging requests of that segment: first /request/i with the         *)
(* decision, then /piece/i with the video file.  It answers by posting a   *)
(* task to the main thread and spinning on a flag of its own stack frame   *)
(* until the task has run.                                                 *)
(*                                                                         *)
(* The client is the environment.  It polls paths, reports on segments it  *)
(* was served and may abort them; it may poll a path again (page reload,   *)
(* reconnection) and close streams.  Reports travel on streams of their    *)
(* own and so arrive in any order.                                         *)
(***************************************************************************)
EXTENDS SegmentProgressAbr, PollingService, MetricsService, FiniteSets

CONSTANTS
  Loaded,      \* the amounts of progress that reports mention
  MaxReports,  \* bound on the reports besides one DOWNLOADED per segment
  MaxRepolls,  \* bound on the polls of a path that was polled before
  Closing      \* may the client close a stream that hangs?

ASSUME StreamIdAssumption == Streams \subseteq Nat
ASSUME LoadedAssumption   == Loaded \subseteq 0 .. Total
ASSUME BoundsAssumption   == MaxReports \in Nat /\ MaxRepolls \in Nat /\ Closing \in BOOLEAN

VARIABLES
  phase,     \* worker: what part of the loop it is in
  spin,      \* worker: where in the request or piece part it is
  decision,  \* worker: the decision being sent
  task_sent, \* worker's stack flags, written by the task
  task_done,
  sent,      \* AbrLoop::sent: the paths answered so far
  tasks,     \* main thread: posted tasks that have not run
  received,  \* history: reports in the order AddMetrics got them
  registered \* history: reports in the order registerMetrics got them

workerVars == <<phase, spin, decision, task_sent, task_done, sent, tasks>>
vars == <<abrVars, pollVars, metricsVars, workerVars, received, registered>>

Phases ==
  {"getMetrics", "resetMetrics", "registerMetrics", "resetAborts", "registerAborts",
   "request", "piece"}

Task == [kind : {"request", "piece"}, decision : Decision]

TypeOK ==
  /\ AbrTypeOK
  /\ PollTypeOK
  /\ MetricsTypeOK
  /\ phase \in Phases
  /\ spin \in {"check", "retry", "wait"}
  /\ decision \in Decision \cup {None}
  /\ task_sent \in BOOLEAN
  /\ task_done \in BOOLEAN
  /\ sent \subseteq Path
  /\ tasks \in Seq(Task)
  /\ received \in Seq(Segment)
  /\ registered \in Seq(Segment)

Init ==
  /\ AbrInit
  /\ PollInit
  /\ MetricsInit
  /\ phase = "getMetrics"
  /\ spin = "check"
  /\ decision = None
  /\ task_sent = FALSE
  /\ task_done = FALSE
  /\ sent = {}
  /\ tasks = <<>>
  /\ received = <<>>
  /\ registered = <<>>

-----------------------------------------------------------------------------
(***************************************************************************)
(* Main thread: DashBackend::FetchResponseFromBackend, one action per kind *)
(* of path.  Requests for files of the store change no state.              *)
(***************************************************************************)

Polled(p) == \E s \in Streams : streams[s].path = p

\* Streams are numbered in the order in which the client opens them.
NextStream(s) ==
  /\ streams[s].status = "idle"
  /\ \A t \in Streams : t < s => streams[t].status # "idle"

Repolls ==
  {s \in Streams : streams[s].path # None /\ \E t \in Streams : t < s /\ streams[t].path = streams[s].path}

Poll(s, p) ==
  /\ NextStream(s)
  /\ Polled(p) => Cardinality(Repolls) < MaxRepolls
  /\ AddRequest(s, p)
  /\ UNCHANGED <<abrVars, metricsVars, workerVars, received, registered>>

PieceServed(i) ==
  \E s \in Streams : streams[s].path = <<"piece", i>> /\ streams[s].status = "answered"

\* The client has bytes to report on once the piece is being served; LOADING
\* is the player's own report that it wants the segment.
Truthful(report) == report.state # "LOADING" => PieceServed(report.index)

ReportedDownloaded(i) ==
  \E k \in DOMAIN received : received[k].index = i /\ received[k].state = "DOWNLOADED"

PostMetrics(report) ==
  /\ Truthful(report)
  /\ \/ Len(received) < MaxReports
     \/ report.state = "DOWNLOADED" /\ ~ ReportedDownloaded(report.index)
  /\ AddMetrics(report)
  /\ received' = Append(received, report)
  /\ UNCHANGED <<abrVars, pollVars, workerVars, registered>>

InTransit(i) ==
  \/ \E k \in DOMAIN aborts : aborts[k] = i
  \/ \E k \in DOMAIN out_aborts : out_aborts[k] = i

\* The player gives up a segment at most once.
PostAbort(i) ==
  /\ PieceServed(i)
  /\ i \notin aborted /\ ~ InTransit(i)
  /\ AddAbort(i)
  /\ UNCHANGED <<abrVars, pollVars, workerVars, received, registered>>

CloseStream(s) ==
  /\ Closing
  /\ CloseBackendResponseStream(s)
  /\ UNCHANGED <<abrVars, metricsVars, workerVars, received, registered>>

-----------------------------------------------------------------------------
(***************************************************************************)
(* Main thread: the tasks the worker posts.  A miss in the cache leaves    *)
(* task_sent as it is, and the worker tries again.                         *)
(***************************************************************************)

RespondTask(d) ==
  /\ Head(tasks) = [kind |-> "request", decision |-> d]
  /\ IF stream_cache[path(d)] # None
     THEN /\ AnswerEntry(path(d), d)
          /\ task_sent' = TRUE
          /\ sent' = sent \cup {path(d)}
     ELSE UNCHANGED <<pollVars, task_sent, sent>>

\* Mutant: the piece is not recorded in AbrLoop::sent.
SendPieceTaskUnrecorded(d) ==
  /\ Head(tasks) = [kind |-> "piece", decision |-> d]
  /\ IF stream_cache[resourcePath(d)] # None
     THEN AnswerEntry(resourcePath(d), videoPath(d)) /\ task_sent' = TRUE
     ELSE UNCHANGED <<pollVars, task_sent>>
  /\ UNCHANGED sent

SendPieceTask(d) ==
  /\ Head(tasks) = [kind |-> "piece", decision |-> d]
  /\ IF stream_cache[resourcePath(d)] # None
     THEN /\ AnswerEntry(resourcePath(d), videoPath(d))
          /\ task_sent' = TRUE
          /\ sent' = sent \cup {resourcePath(d)}
     ELSE UNCHANGED <<pollVars, task_sent, sent>>

RunTask ==
  /\ tasks # <<>>
  /\ LET d == Head(tasks).decision IN RespondTask(d) \/ SendPieceTask(d)
  /\ tasks' = Tail(tasks)
  /\ task_done' = TRUE
  /\ UNCHANGED <<abrVars, metricsVars, phase, spin, decision, received, registered>>

-----------------------------------------------------------------------------
(***************************************************************************)
(* Worker thread: AbrLoop's Loop.                                          *)
(***************************************************************************)

GoTo(from, to) == phase = from /\ phase' = to

LoopUnchanged == UNCHANGED <<pollVars, spin, decision, task_sent, task_done, sent, tasks, received>>

MoveMetrics ==
  /\ GoTo("getMetrics", "resetMetrics")
  /\ GetMetricsMove
  /\ UNCHANGED <<abrVars, registered>> /\ LoopUnchanged

ResetMetrics ==
  /\ GoTo("resetMetrics", "registerMetrics")
  /\ GetMetricsReset
  /\ UNCHANGED <<abrVars, registered>> /\ LoopUnchanged

RegisterReport ==
  /\ phase = "registerMetrics" /\ out_metrics # <<>>
  /\ registerMetrics(Head(out_metrics))
  /\ out_metrics' = Tail(out_metrics)
  /\ registered' = Append(registered, Head(out_metrics))
  /\ UNCHANGED <<phase, metrics, aborts, mutex_, out_aborts>> /\ LoopUnchanged

MoveAborts ==
  /\ GoTo("registerMetrics", "resetAborts") /\ out_metrics = <<>>
  /\ GetAbortsMove
  /\ UNCHANGED <<abrVars, registered>> /\ LoopUnchanged

ResetAborts ==
  /\ GoTo("resetAborts", "registerAborts")
  /\ GetAbortsReset
  /\ UNCHANGED <<abrVars, registered>> /\ LoopUnchanged

RegisterAbort ==
  /\ phase = "registerAborts" /\ out_aborts # <<>>
  /\ registerAbort(Head(out_aborts))
  /\ out_aborts' = Tail(out_aborts)
  /\ UNCHANGED <<phase, metrics, aborts, mutex_, out_metrics, registered>> /\ LoopUnchanged

\* interface->decide(); a noop goes back to the mailbox, any other decision on
\* to the request part of the loop.
AbortsRegistered == phase = "registerAborts" /\ out_aborts = <<>>

Decided(d) ==
  /\ decision' = d
  /\ phase' = IF d = None THEN "getMetrics" ELSE "request"
  /\ spin' = "check"
  /\ UNCHANGED <<pollVars, metricsVars, task_sent, task_done, sent, tasks, received, registered>>

DecideNew ==
  AbortsRegistered /\ \E q \in Qualities : decideNew(q) /\ Decided(NewDecision(q))

DecideAgain ==
  AbortsRegistered /\ decideAgain /\ Decided(decisions[decision_index - 1])

-----------------------------------------------------------------------------
\* The request and the piece parts of the loop are the same code twice.

Kinds == {"request", "piece"}

PathOf(kind) == IF kind = "request" THEN path(decision) ELSE resourcePath(decision)

After(kind) == IF kind = "request" THEN "piece" ELSE "getMetrics"

AnswerUnchanged ==
  UNCHANGED <<abrVars, pollVars, metricsVars, decision, sent, received, registered>>

\* Already answered: sleep and go on.
SkipAnswer(kind) ==
  /\ GoTo(kind, After(kind))
  /\ spin = "check"
  /\ PathOf(kind) \in sent
  /\ UNCHANGED <<spin, task_sent, task_done, tasks>> /\ AnswerUnchanged

\* The inner test is made again on every retry.
PostAnswer(kind) ==
  /\ phase = kind
  /\ spin \in {"check", "retry"}
  /\ PathOf(kind) \notin sent
  /\ tasks' = Append(tasks, [kind |-> kind, decision |-> decision])
  /\ task_sent' = IF spin = "check" THEN FALSE ELSE task_sent
  /\ task_done' = FALSE
  /\ spin' = "wait"
  /\ UNCHANGED phase /\ AnswerUnchanged

\* Mutant: does not wait for the task.
AnswerDoneEarly(kind) ==
  /\ phase = kind
  /\ spin = "wait"
  /\ phase' = IF task_sent THEN After(kind) ELSE kind
  /\ spin'  = IF task_sent THEN "check" ELSE "retry"
  /\ UNCHANGED <<task_sent, task_done, tasks>> /\ AnswerUnchanged

\* Mutant: a request that was not polled yet is not retried.
AnswerDoneNoRetry(kind) ==
  /\ phase = kind
  /\ spin = "wait" /\ task_done
  /\ phase' = After(kind)
  /\ spin'  = "check"
  /\ UNCHANGED <<task_sent, task_done, tasks>> /\ AnswerUnchanged

\* while (!done);
AnswerDone(kind) ==
  /\ phase = kind
  /\ spin = "wait" /\ task_done
  /\ phase' = IF task_sent THEN After(kind) ELSE kind
  /\ spin'  = IF task_sent THEN "check" ELSE "retry"
  /\ UNCHANGED <<task_sent, task_done, tasks>> /\ AnswerUnchanged

-----------------------------------------------------------------------------

Worker ==
  \/ MoveMetrics \/ ResetMetrics \/ RegisterReport
  \/ MoveAborts \/ ResetAborts \/ RegisterAbort
  \/ DecideNew \/ DecideAgain
  \/ \E kind \in Kinds : SkipAnswer(kind) \/ PostAnswer(kind) \/ AnswerDone(kind)

Report ==
  {r \in Segment :
     r.loaded \in IF r.state = "PROGRESS" THEN Loaded ELSE {Total}}

Client ==
  \/ \E s \in Streams, p \in Kinds \X Segments : Poll(s, p)
  \/ \E r \in Report : PostMetrics(r)
  \/ \E i \in Segments : PostAbort(i)
  \/ \E s \in Streams : CloseStream(s)

Next == Worker \/ RunTask \/ Client

Spec == Init /\ [][Next]_vars
-----------------------------------------------------------------------------
(***************************************************************************)
(* Safety.                                                                 *)
(***************************************************************************)

Answered(s) == streams[s].status \in {"answered", "late"}

\* Segments are delivered strictly one after the other: a piece is served only
\* after its decision was sent, and a decision is sent only after the previous
\* piece was served (Loop: request part, then piece part, then decide again).
AnswersInOrder ==
  \A i \in Index :
    /\ <<"piece", i>> \in sent => <<"request", i>> \in sent
    /\ i > 1 /\ <<"request", i>> \in sent => <<"piece", i - 1>> \in sent

\* The quality announced on /request/i is the quality of the file served on
\* /piece/i, and both are about segment i: the decision the front-end shows to
\* the player describes the bytes it gets (Decision::serialize, videoPath).
QualityAgreement ==
  \A s, t \in Streams : \A i \in Segments :
    /\ Answered(s) /\ streams[s].path = <<"request", i>>
    /\ Answered(t) /\ streams[t].path = <<"piece", i>>
    => /\ streams[s].body.index = i /\ streams[t].body.index = i
       /\ streams[s].body.quality = streams[t].body.quality

\* No path is answered on two streams, whatever the client polls again
\* (AbrLoop::sent, PollingService erases what it answers).
AnsweredOnce ==
  \A s, t \in Streams :
    Answered(s) /\ Answered(t) /\ streams[s].path = streams[t].path => s = t

\* The mailbox neither loses, duplicates nor reorders a report on its way from
\* AddMetrics on the main thread to registerMetrics on the worker.
NoReportLost ==
  received = registered \o out_metrics
               \o IF mutex_ = "GetMetrics" THEN <<>> ELSE metrics

Registered(i) == {registered[k] : k \in {j \in DOMAIN registered : registered[j].index = i}}

Heard(i) == {r \in Registered(i) : r.state # "LOADING"}

\* What the ABR knows does not depend on the order in which reports arrive, although
\* they overtake each other: it keeps of every segment a report that it got, one that
\* says DOWNLOADED if there was any and else one of the latest time, and
\* last_timestamp is the latest time of all reports (registerMetrics).
NewestKnown ==
  /\ \A i \in Index :
       /\ last_segment[i] = None <=> Heard(i) = {}
       /\ last_segment[i] # None => last_segment[i] \in Heard(i)
       /\ \A r \in Heard(i) :
            \/ last_segment[i].state = "DOWNLOADED"
            \/ r.state = "PROGRESS" /\ r.timestamp <= last_segment[i].timestamp
  /\ \A k \in DOMAIN registered : registered[k].timestamp <= last_timestamp
  /\ last_timestamp = 0 \/ \E k \in DOMAIN registered : registered[k].timestamp = last_timestamp

\* The decision for segment i + 1 is released only on evidence about segment i:
\* it was downloaded, was seen 80% loaded, or was aborted while in progress.
DecisionJustified ==
  \A i \in Segments : decisions[i + 1] # None =>
    \E r \in Registered(i) :
      \/ r.state = "DOWNLOADED"
      \/ r.state = "PROGRESS" /\ (5 * r.loaded >= 4 * Total \/ i \in aborted)

\* A posted task finds the stack frame it writes to alive: while a task is
\* outstanding the worker spins in the loop that posted it.  With it, the two
\* threads never touch AbrLoop::sent at the same time.
TaskInFrame ==
  tasks # <<>> =>
    /\ tasks = <<[kind |-> phase, decision |-> decision]>>
    /\ spin = "wait" /\ ~ task_done

\* The worker never looks for a decision beyond segment N + 1, where it parks.
NoDecisionPastTheEnd == phase = "registerAborts" => decision_index <= N + 1

\* A handler is never called after its stream is gone.
NoAnswerAfterClose == \A s \in Streams : streams[s].status # "late"

-----------------------------------------------------------------------------
(***************************************************************************)
(* What a step may never do.                                               *)
(***************************************************************************)

\* Decisions are idempotent: once taken, the decision for a segment is final.
DecisionsFinal ==
  [][\A i \in Index : decisions[i] # None => decisions'[i] = decisions[i]]_vars

-----------------------------------------------------------------------------
(***************************************************************************)
(* The server implements SegmentDelivery.                                  *)
(***************************************************************************)

\* A quality counts as announced, or served, when its path enters `sent'.
Delivered(kind) ==
  [i \in Index |-> IF <<kind, i>> \in sent THEN decisions[i].quality ELSE None]

Delivery ==
  INSTANCE SegmentDelivery WITH announced <- Delivered("request"), served <- Delivered("piece")

\* The threads, mailboxes and retries implement the abstract delivery order.
ImplementsDelivery == Delivery!Spec

-----------------------------------------------------------------------------
(***************************************************************************)
(* Liveness.  Both threads are scheduled by the operating system: each of  *)
(* them keeps taking steps.  A fair client polls every path once and       *)
(* reports every segment it was served as DOWNLOADED; its report waits for *)
(* the mutex, which the worker takes and releases forever, so it is the    *)
(* fairness of the mutex that gets it in (strong fairness).                *)
(***************************************************************************)

ServerFairness == WF_vars(Worker) /\ WF_vars(RunTask)

FirstPoll(p) == ~ Polled(p) /\ \E s \in Streams : Poll(s, p)

FirstDownload(i) ==
  /\ ~ ReportedDownloaded(i)
  /\ \E r \in Report : r.index = i /\ r.state = "DOWNLOADED" /\ PostMetrics(r)

ClientFairness ==
  /\ WF_vars(\E p \in Kinds \X Segments : FirstPoll(p))
  /\ SF_vars(\E i \in Segments : FirstDownload(i))

FairSpec == Spec /\ ServerFairness /\ ClientFairness

\* Every segment is eventually served, whatever the interleaving of the client,
\* the main thread and the worker.
AllServed == <>(\A i \in Segments : <<"piece", i>> \in sent)

\* No path is left without an answer: only a stream that polls a path once more may hang
\* for ever, and not because a stream before it was closed or is still to be answered
\* (PollingService::AddRequest, AbrLoop::sent).
EveryPathAnswered ==
  <>[](\A s \in Streams \ Repolls : streams[s].status # "open")
=============================================================================
