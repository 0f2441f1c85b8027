--------------------------- MODULE MetricsService ---------------------------
(***************************************************************************)
(* The mailbox between the main thread, which receives the reports of the  *)
(* front-end, and the ABR worker thread, which consumes them               *)
(* (net/abrcc/service/metrics_service.cc).  Four methods under one mutex.  *)
(* GetMetrics and GetAborts are two steps inside the lock, the move out of *)
(* the vector and its reset, so that the lock is what makes them atomic.   *)
(*                                                                         *)
(* A Metrics object is a list of reports; the mailbox is the concatenation *)
(* of the lists, as registerMetrics only iterates over them.               *)
(***************************************************************************)
EXTENDS Schema, Sequences

VARIABLES
  metrics,     \* mailbox of reports
  aborts,      \* mailbox of aborts
  mutex_,      \* "free", or the method of the worker that holds it
  out_metrics, \* the worker's copies, still to be registered
  out_aborts

metricsVars == <<metrics, aborts, mutex_, out_metrics, out_aborts>>

MetricsTypeOK ==
  /\ metrics     \in Seq(Segment)
  /\ aborts      \in Seq(Segments)
  /\ mutex_      \in {"free", "GetMetrics", "GetAborts"}
  /\ out_metrics \in Seq(Segment)
  /\ out_aborts  \in Seq(Segments)

MetricsInit ==
  /\ metrics = <<>>
  /\ aborts = <<>>
  /\ mutex_ = "free"
  /\ out_metrics = <<>>
  /\ out_aborts = <<>>

-----------------------------------------------------------------------------
\* Main thread.  A handler waits for the mutex and releases it on return.

\* Mutant: the methods do not lock.
NoMutex == TRUE

MutexFree == mutex_ = "free"

AddMetrics(report) ==
  /\ MutexFree
  /\ metrics' = Append(metrics, report)
  /\ UNCHANGED <<aborts, mutex_, out_metrics, out_aborts>>

AddAbort(index) ==
  /\ MutexFree
  /\ aborts' = Append(aborts, index)
  /\ UNCHANGED <<metrics, mutex_, out_metrics, out_aborts>>

-----------------------------------------------------------------------------
\* Worker thread.

\* lock; out = std::move(metrics)
GetMetricsMove ==
  /\ MutexFree
  /\ mutex_' = "GetMetrics"
  /\ out_metrics' = metrics
  /\ UNCHANGED <<metrics, aborts, out_aborts>>

\* Mutant: the mutex is not released.
GetMetricsResetLocked ==
  /\ mutex_ = "GetMetrics"
  /\ metrics' = <<>>
  /\ UNCHANGED <<aborts, mutex_, out_metrics, out_aborts>>

\* metrics = {}; unlock
GetMetricsReset ==
  /\ mutex_ = "GetMetrics"
  /\ mutex_' = "free"
  /\ metrics' = <<>>
  /\ UNCHANGED <<aborts, out_metrics, out_aborts>>

GetAbortsMove ==
  /\ MutexFree
  /\ mutex_' = "GetAborts"
  /\ out_aborts' = aborts
  /\ UNCHANGED <<metrics, aborts, out_metrics>>

GetAbortsReset ==
  /\ mutex_ = "GetAborts"
  /\ mutex_' = "free"
  /\ aborts' = <<>>
  /\ UNCHANGED <<metrics, out_metrics, out_aborts>>
=============================================================================
