----------------------------- MODULE VideoInfo ------------------------------
(***************************************************************************)
(* The video as the front-end knows it (dash/src/common/video.ts).         *)
(***************************************************************************)
EXTENDS Integers

CONSTANTS
  N,          \* number of segments, numbered from 1: max_index, videoLength
  Qualities,  \* the tracks, numbered from 0, the lowest
  None        \* undefined

ASSUME NAssumption == N \in Nat \ {0}
ASSUME QualitiesAssumption ==
  Qualities \subseteq Nat /\ 0 \in Qualities /\ None \notin Qualities

Segments == 1 .. N

ASSUME NoneAssumption == None \notin Segments
=============================================================================
