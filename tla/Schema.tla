------------------------------- MODULE Schema -------------------------------
(***************************************************************************)
(* The vocabulary the server's parts share: the reports the front-end      *)
(* sends (service/schema.h), the decisions of the ABR (abr/interface.cc)   *)
(* and the paths on which decisions and pieces are polled.                 *)
(***************************************************************************)
EXTENDS Integers

CONSTANTS
  N,          \* number of segments of the video, numbered from 1
  Qualities,  \* the video tracks
  MaxTime,    \* bound: timestamps of reports are 0 .. MaxTime
  Total,      \* size of a segment, in units of progress
  None        \* an absent key of a map; as a Decision, the noop

ASSUME NAssumption         == N \in Nat \ {0}
ASSUME QualitiesAssumption == Qualities # {}
ASSUME MaxTimeAssumption   == MaxTime \in Nat
ASSUME TotalAssumption     == Total \in Nat \ {0}

Segments == 1 .. N

\* decide() has no upper bound: after segment N it decides segment N + 1.
Index == 1 .. N + 1

SegmentState == {"LOADING", "PROGRESS", "DOWNLOADED"}

Segment ==
  [index : Segments, state : SegmentState, timestamp : 0 .. MaxTime, loaded : 0 .. Total]

Decision == [index : Index, quality : Qualities, timestamp : 0 .. MaxTime]

\* The paths /request/i, on which the decision for segment i is polled, and
\* /piece/i, on which its data is.
Path == {"request", "piece"} \X Index

path(decision)         == <<"request", decision.index>>
resourcePath(decision) == <<"piece", decision.index>>

\* The file /videoQ/i.m4s of the store.
Video == [index : Index, quality : Qualities]

\* Mutant: segments of the store counted from 0.
videoPathFromZero(decision) ==
  [index |-> decision.index - 1, quality |-> decision.quality]

videoPath(decision) == [index |-> decision.index, quality |-> decision.quality]

\* Absence is not one of the values it stands in for.
ASSUME NoneAssumption ==
  None \notin Segment \cup Decision \cup Path \cup Video \cup Qualities
=============================================================================
