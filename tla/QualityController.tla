-------------------------- MODULE QualityController -------------------------
(***************************************************************************)
(* The decisions the front-end knows of and the segment that needs one     *)
(* next (dash/src/controller/quality.ts, dash/src/common/cache.ts).        *)
(***************************************************************************)
EXTENDS VideoInfo

VARIABLES
  quality_index,  \* QualityController._index
  container       \* PieceCache: segment -> decided quality

qualityVars == <<quality_index, container>>

QualityTypeOK ==
  /\ quality_index \in Segments
  /\ container \in [Segments -> Qualities \cup {None}]

QualityInit ==
  /\ quality_index = 1
  /\ container = [i \in Segments |-> None]

\* Without a decision the lowest quality is returned.
getQuality(i) == IF container[i] # None THEN container[i] ELSE 0

\* The server takes one decision per segment, so a second copy of it has the
\* timestamp of the first and does not replace it.
insert(i, quality) ==
  container' = [container EXCEPT ![i] = IF @ = None THEN quality ELSE @]

\* A throw of the RangeError leaves the step undone.
advance(i) == i >= quality_index /\ quality_index' = i
=============================================================================
