------------------------- MODULE SegmentProgressAbr -------------------------
(***************************************************************************)
(* The server-side ABR base class (net/abrcc/abr/abr_base.cc): it keeps    *)
(* the latest report on every segment and releases the decision for        *)
(* segment i + 1 once segment i is 80% downloaded, downloaded or aborted.  *)
(*                                                                         *)
(* The object is touched by the ABR worker thread only.  decideQuality is  *)
(* the virtual method of the subclasses: any quality may come out of it.   *)
(***************************************************************************)
EXTENDS Schema

VARIABLES
  last_segment,    \* latest report kept for every segment
  decisions,       \* decisions taken so far
  aborted,         \* segments whose download the player gave up
  decision_index,  \* the segment that needs a decision
  last_timestamp   \* highest timestamp of any report

abrVars == <<last_segment, decisions, aborted, decision_index, last_timestamp>>

AbrTypeOK ==
  /\ last_segment   \in [Index -> Segment \cup {None}]
  /\ decisions      \in [Index -> Decision \cup {None}]
  /\ aborted        \subseteq Segments
  /\ decision_index \in 1 .. N + 2
  /\ last_timestamp \in 0 .. MaxTime

AbrInit ==
  /\ last_segment   = [i \in Index |-> None]
  /\ decisions      = [i \in Index |-> None]
  /\ aborted        = {}
  /\ decision_index = 1
  /\ last_timestamp = 0

-----------------------------------------------------------------------------

\* Mutant: keeps the sum instead of the maximum.
LaterSum(s, t) == s + t

Later(s, t) == IF s < t THEN t ELSE s

\* Mutant: no comparison of timestamps, the last PROGRESS to arrive wins.
SupersedesByArrival(segment) ==
  LET known == last_segment[segment.index] IN
  /\ segment.state \in {"PROGRESS", "DOWNLOADED"}
  /\ known = None \/ known.state = "PROGRESS"

\* registerMetrics keeps a report when it says something newer than the one
\* kept: DOWNLOADED is final, PROGRESS only moves forward in time.
Supersedes(segment) ==
  LET known == last_segment[segment.index] IN
  \/ /\ segment.state = "DOWNLOADED"
     /\ known = None \/ known.state = "PROGRESS"
  \/ /\ segment.state = "PROGRESS"
     /\ \/ known = None
        \/ known.state = "PROGRESS" /\ known.timestamp < segment.timestamp

\* One iteration of the loop of registerMetrics over the reported segments.
registerMetrics(segment) ==
  /\ last_timestamp' = Later(last_timestamp, segment.timestamp)
  /\ last_segment' = IF Supersedes(segment)
                     THEN [last_segment EXCEPT ![segment.index] = segment]
                     ELSE last_segment
  /\ UNCHANGED <<decisions, aborted, decision_index>>

registerAbort(index) ==
  /\ aborted' = aborted \cup {index}
  /\ UNCHANGED <<last_segment, decisions, decision_index, last_timestamp>>

\* 1.0 * loaded / total >= 0.8, in integers.
EightyPercent(segment) == 5 * segment.loaded >= 4 * Total

\* Mutant: any report on the previous segment releases the decision.
should_sendOnAnyReport(index) == index # 1 => last_segment[index - 1] # None

\* The order of the tests is the code's: without any report on the previous
\* segment the answer is no, even when that segment was aborted.
should_send(index) ==
  index # 1 =>
    LET previous == last_segment[index - 1] IN
    /\ previous # None
    /\ \/ previous.state # "PROGRESS"
       \/ EightyPercent(previous)
       \/ index - 1 \in aborted

\* decide() takes a new decision, of quality q ...
NewDecision(q) ==
  [index |-> decision_index, quality |-> q, timestamp |-> last_timestamp]

\* Mutant: the decision is not looked up, and taken again until it is sent.
decideNewNotIdempotent(q) ==
  /\ should_send(decision_index)
  /\ decisions' = [decisions EXCEPT ![decision_index] = NewDecision(q)]
  /\ UNCHANGED <<last_segment, aborted, decision_index, last_timestamp>>

decideNew(q) ==
  /\ decisions[decision_index] = None
  /\ should_send(decision_index)
  /\ decisions' = [decisions EXCEPT ![decision_index] = NewDecision(q)]
  /\ decision_index' = decision_index + 1
  /\ UNCHANGED <<last_segment, aborted, last_timestamp>>

\* ... or repeats the previous one.
decideAgain ==
  /\ ~ (decisions[decision_index] = None /\ should_send(decision_index))
  /\ UNCHANGED abrVars
=============================================================================
