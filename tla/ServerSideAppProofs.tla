------------------------ MODULE ServerSideAppProofs -------------------------
(***************************************************************************)
(* Proofs about the front-end, for any number of segments, any pool, any   *)
(* thresholds of the abandon rule and any number of retries.               *)
(*                                                                         *)
(* The pool and the player go through the video side by side.  PoolInv     *)
(* says what the pool has requested, PlayerInv where the player is with    *)
(* respect to it, DecisionInv what is known of the decisions, and ReadyInv *)
(* that a player that runs knows the decision it is about to use.          *)
(***************************************************************************)
EXTENDS ServerSideApp, TLAPS, FiniteSetTheorems

\* The pool has requested a prefix of the video; an aborted download is not
\* intercepted again, and what can be handed over is downloaded.
PoolInv ==
  /\ SlotsAccounted
  /\ \A i \in Segments : /\ pieceRequest[i] = "none" <=> i > index
                         /\ toIntercept[i] = "undefined" <=> i > index
  /\ bypass \subseteq Aborted
  /\ onIntercept \subseteq Downloaded

\* The player asks for one segment after the other, and the app shows it the
\* decision for the next one.  No download is on its way behind its back: if the
\* player is ahead of the pool, the pool is at a standstill.
PlayerInv ==
  /\ request # None => request = want /\ want \in done
  /\ \A i \in done : i <= want
  /\ \A i \in Segments : i \in done <=> url[i] # None
  /\ \A i \in done : toIntercept[i] # "null"
  /\ \A i \in handlers : i < N
  /\ want \in done /\ want < N => want \in handlers
  /\ want <= N => quality_index = IF want \in done /\ want < N THEN want + 1 ELSE want
  /\ hit => request # None /\ request \in onIntercept
  /\ request # None /\ native => request > index \/ request \in Aborted
  /\ \A i \in Segments : i < want => i \notin Outstanding

\* Decisions come from the server.
DecisionInv ==
  /\ \A i \in Segments : pieceRequest[i] = "ended" => announced[i] # None
  /\ \A i \in Segments : container[i] # None => container[i] = announced[i]
  /\ NeverAnothersQuality

\* Unless a removal starts it, a player whose decision is missing stands still.
ReadyInv ==
  /\ \A i \in waiting : i = want /\ request = None /\ ~ scheduling
  /\ scheduling /\ request = None /\ 1 < want /\ want <= index => container[want] # None
  /\ RequestedQuality

\* The pool is full, or everything has been requested.
FullInv == index < N => current = Pool

\* What an abort costs: its slot, for good.
SlotsLeak ==
  Cardinality(Outstanding) + Cardinality(Aborted) =
    LET left == N - Cardinality(Downloaded) IN
    IF Pool < left THEN Pool ELSE left

AppInv ==
  /\ TypeOK /\ PoolInv /\ PlayerInv /\ DecisionInv /\ NoLostWakeup
  /\ ~ Removals => ReadyInv
-----------------------------------------------------------------------------
(* The pool.                                                               *)

\* Sets of segments are finite.
LEMMA SegmentSets ==
  /\ \A S \in SUBSET Segments : IsFiniteSet(S) /\ Cardinality(S) \in Nat
  /\ IsFiniteSet(Outstanding) /\ Cardinality(Outstanding) \in Nat
  /\ IsFiniteSet(Aborted) /\ Cardinality(Aborted) \in Nat
<1>1. IsFiniteSet(Segments)
  BY NAssumption, FS_Interval DEF Segments
<1>2. \A S \in SUBSET Segments : IsFiniteSet(S) /\ Cardinality(S) \in Nat
  BY <1>1, FS_Subset, FS_CardinalityType
<1>3. Outstanding \in SUBSET Segments /\ Aborted \in SUBSET Segments
  BY DEF Outstanding, Aborted
<1> QED
  BY <1>2, <1>3

\* An abort turns a slot that was on its way into one that is lost.
LEMMA AbortKeepsSlots ==
  ASSUME TypeOK, SlotsAccounted, NEW i \in Segments, resourceAbort(i)
  PROVE  /\ RequestTypeOK' /\ SlotsAccounted'
         /\ Aborted' = Aborted \cup {i} /\ Outstanding' = Outstanding \ {i}
         /\ Downloaded' = Downloaded
<1>1. /\ resourceRequest \in [Segments -> Hanging \cup {"none", "done", "aborted"}]
      /\ resourceRequest' = [resourceRequest EXCEPT ![i] = "aborted"]
      /\ resourceRequest[i] \in Hanging
      /\ UNCHANGED <<current, index, pieceRequest>>
  BY DEF TypeOK, RequestTypeOK, resourceAbort
<1>2. RequestTypeOK'
  BY <1>1 DEF TypeOK, RequestTypeOK
<1>3. /\ Aborted' = Aborted \cup {i} /\ i \notin Aborted
      /\ Outstanding' = Outstanding \ {i} /\ i \in Outstanding
      /\ Downloaded' = Downloaded
  BY <1>1 DEF Aborted, Outstanding, Downloaded, Hanging
<1>4. /\ Cardinality(Aborted') = Cardinality(Aborted) + 1
      /\ Cardinality(Outstanding') = Cardinality(Outstanding) - 1
  BY <1>3, SegmentSets, FS_AddElement, FS_RemoveElement
<1>5. current' = Cardinality(Outstanding') + Cardinality(Aborted')
  BY <1>1, <1>4, SegmentSets DEF SlotsAccounted
<1>6. \A j \in Segments : j <= index' <=> resourceRequest'[j] # "none"
  BY <1>1 DEF SlotsAccounted, Hanging
<1> QED
  BY <1>2, <1>3, <1>5, <1>6 DEF SlotsAccounted

\* Progress of a download leaves its slot on its way.
LEMMA ProgressKeepsSlots ==
  ASSUME TypeOK, SlotsAccounted, NEW i \in Segments, NEW level \in Levels,
         resourceProgress(i, level)
  PROVE  /\ RequestTypeOK' /\ SlotsAccounted'
         /\ Aborted' = Aborted /\ Outstanding' = Outstanding /\ Downloaded' = Downloaded
<1>1. /\ resourceRequest \in [Segments -> Hanging \cup {"none", "done", "aborted"}]
      /\ resourceRequest' = [resourceRequest EXCEPT ![i] = level]
      /\ resourceRequest[i] \in Hanging /\ level \in Hanging
      /\ UNCHANGED <<current, index, pieceRequest>>
  BY LevelsAssumption DEF TypeOK, RequestTypeOK, resourceProgress, Hanging
<1>2. RequestTypeOK'
  BY <1>1 DEF TypeOK, RequestTypeOK
<1>3. Aborted' = Aborted /\ Outstanding' = Outstanding /\ Downloaded' = Downloaded
  BY <1>1 DEF Aborted, Outstanding, Downloaded, Hanging
<1>4. \A j \in Segments : j <= index' <=> resourceRequest'[j] # "none"
  BY <1>1 DEF SlotsAccounted, Hanging
<1> QED
  BY <1>1, <1>2, <1>3, <1>4 DEF SlotsAccounted

\* An arrival frees one slot and fills as many as are free, in the order of the
\* segments.
LEMMA SuccessKeepsSlots ==
  ASSUME TypeOK, SlotsAccounted, NEW i \in Segments, resourceSuccess(i),
         \A j \in Segments : pieceRequest[j] = "none" <=> j > index
  PROVE  /\ RequestTypeOK' /\ SlotsAccounted'
         /\ index <= index' /\ Sent(current - 1) = index + 1 .. index'
         /\ i <= index /\ i \in Outstanding
         /\ Aborted' = Aborted /\ Downloaded' = Downloaded \cup {i}
         /\ Outstanding' = (Outstanding \ {i}) \cup Sent(current - 1)
         /\ \A j \in Segments : /\ pieceRequest'[j] = "none" <=> j > index'
                                /\ pieceRequest'[j] = "ended" => pieceRequest[j] = "ended"
         /\ index' < N => current' = Pool
<1> DEFINE cur  == current - 1
           more == More(cur)
           new  == Sent(cur)
<1>1. /\ resourceRequest \in [Segments -> Hanging \cup {"none", "done", "aborted"}]
      /\ pieceRequest \in [Segments -> {"none", "sent", "ended"}]
      /\ current \in 0 .. Pool /\ index \in 0 .. N
      /\ resourceRequest[i] \in Hanging /\ i \in Outstanding
  BY DEF TypeOK, RequestTypeOK, resourceSuccess, Outstanding
<1>2. current = Cardinality(Outstanding) + Cardinality(Aborted)
  BY DEF SlotsAccounted
<1>3. /\ Cardinality(Outstanding \ {i}) = Cardinality(Outstanding) - 1
      /\ Cardinality(Outstanding \ {i}) \in Nat /\ IsFiniteSet(Outstanding \ {i})
  BY <1>1, SegmentSets, FS_RemoveElement, FS_CardinalityType
<1>4. current >= 1 /\ cur \in 0 .. Pool - 1
  BY <1>1, <1>2, <1>3, SegmentSets, PoolAssumption
<1>5. /\ more \in Nat /\ cur + more \in 0 .. Pool /\ index + more \in 0 .. N
      /\ index + more < N => cur + more = Pool
  BY <1>1, <1>4, NAssumption, PoolAssumption DEF More
<1>6. /\ current' = cur + more /\ index' = index + more
      /\ pieceRequest' = SendTo(pieceRequest, new)
      /\ resourceRequest' = SendTo([resourceRequest EXCEPT ![i] = "done"], new)
  BY DEF resourceSuccess
<1>7. new = index + 1 .. index + more
  BY DEF Sent
<1> HIDE DEF more, cur, new
<1>8. /\ \A j \in new : j \in Segments /\ j > index /\ resourceRequest[j] = "none" /\ j # i
      /\ \A j \in Segments : j > index' <=> j > index /\ j \notin new
  BY <1>1, <1>5, <1>6, <1>7, NAssumption DEF Segments, SlotsAccounted, Hanging
<1>9. \A j \in Segments :
        /\ pieceRequest'[j] = IF j \in new THEN "sent" ELSE pieceRequest[j]
        /\ resourceRequest'[j] = IF j \in new THEN "sent" ELSE IF j = i THEN "done"
                                 ELSE resourceRequest[j]
  BY <1>1, <1>6 DEF SendTo
<1>10. RequestTypeOK'
  BY <1>1, <1>5, <1>6 DEF RequestTypeOK, SendTo, Hanging
<1>11. Aborted' = Aborted /\ Downloaded' = Downloaded \cup {i}
  BY <1>1, <1>8, <1>9 DEF Aborted, Downloaded, Hanging
<1>12. Outstanding' = (Outstanding \ {i}) \cup new
  BY <1>1, <1>8, <1>9 DEF Outstanding, Hanging
<1>13. IsFiniteSet(new) /\ Cardinality(new) = more
  BY <1>1, <1>5, <1>7, FS_Interval
<1>14. (Outstanding \ {i}) \cap new = {}
  BY <1>8 DEF Outstanding, Hanging
<1>15. Cardinality(Outstanding') = Cardinality(Outstanding) - 1 + more
  <2>1. Cardinality((Outstanding \ {i}) \cup new)
          = Cardinality(Outstanding \ {i}) + Cardinality(new)
            - Cardinality((Outstanding \ {i}) \cap new)
    BY <1>3, <1>13, FS_Union
  <2>2. Cardinality((Outstanding \ {i}) \cap new) = 0
    BY <1>14, FS_EmptySet
  <2> QED
    BY <1>3, <1>5, <1>12, <1>13, <2>1, <2>2
<1>16. current' = Cardinality(Outstanding') + Cardinality(Aborted')
  BY <1>1, <1>2, <1>5, <1>6, <1>11, <1>15, SegmentSets DEF cur
<1>17. \A j \in Segments : j <= index' <=> resourceRequest'[j] # "none"
  <2>1. \A j \in Segments : j \in Int /\ (j <= index <=> resourceRequest[j] # "none")
    BY DEF Segments, SlotsAccounted
  <2>2. index \in Int /\ index' \in Int
    BY <1>1, <1>5, <1>6
  <2>3. \A j \in Segments : j <= index' <=> j <= index \/ j \in new
    BY <1>8, <2>1, <2>2
  <2> QED
    BY <1>1, <1>9, <2>1, <2>3 DEF Hanging
<1>18. i <= index /\ index <= index' /\ (index' < N => current' = Pool)
  BY <1>1, <1>5, <1>6, NAssumption DEF SlotsAccounted, Hanging, Segments
<1>19. \A j \in Segments : /\ pieceRequest'[j] = "none" <=> j > index'
                           /\ pieceRequest'[j] = "ended" => pieceRequest[j] = "ended"
  BY <1>8, <1>9
<1> QED
  BY <1>1, <1>6, <1>7, <1>10, <1>11, <1>12, <1>16, <1>17, <1>18, <1>19 DEF SlotsAccounted, new, cur
-----------------------------------------------------------------------------
(* The actions.                                                            *)

\* The pool is left alone.
PoolKeeps == UNCHANGED <<current, index, pieceRequest, resourceRequest>>

\* A step that leaves the pool alone leaves its slots alone.
LEMMA PoolFrame ==
  ASSUME PoolKeeps
  PROVE  /\ RequestTypeOK <=> RequestTypeOK'
         /\ SlotsAccounted <=> SlotsAccounted'
         /\ Aborted' = Aborted /\ Outstanding' = Outstanding /\ Downloaded' = Downloaded
<1>1. Aborted' = Aborted /\ Outstanding' = Outstanding /\ Downloaded' = Downloaded
  BY DEF PoolKeeps, Aborted, Outstanding, Downloaded
<1>2. RequestTypeOK <=> RequestTypeOK'
  BY DEF PoolKeeps, RequestTypeOK
<1> QED
  BY <1>1, <1>2 DEF PoolKeeps, SlotsAccounted

\* A decision or a segment leaves the server.
LEMMA ServerInv ==
  ASSUME AppInv, NEW i \in Segments, Announce(i) \/ Serve(i)
  PROVE  AppInv'
<1>1. /\ PoolKeeps
      /\ UNCHANGED <<quality_index, container, toIntercept, onIntercept, done, bypass>>
      /\ UNCHANGED <<pending, rebuffers, lastRecovery, completed, handlers, waiting>>
      /\ UNCHANGED <<want, request, native, hit, scheduling, retries, url, evidence>>
  BY DEF Announce, Serve, ServerUnchanged, requestVars, qualityVars, interceptVars, appVars,
         playerVars, PoolKeeps
<1>2. /\ announced \in [Segments -> Qualities \cup {None}]
      /\ served \in [Segments -> Qualities \cup {None}]
  BY DEF AppInv, TypeOK
<1>3. /\ announced' \in [Segments -> Qualities \cup {None}]
      /\ served' \in [Segments -> Qualities \cup {None}]
      /\ \A j \in Segments : announced[j] # None => announced'[j] = announced[j]
  <2>1. CASE Announce(i)
    <3>1. PICK q \in Qualities : /\ announced[i] = None
                                 /\ announced' = [announced EXCEPT ![i] = q]
                                 /\ served' = served
      BY <2>1 DEF Announce, Server!Announce
    <3> QED
      BY <1>2, <3>1
  <2>2. CASE Serve(i)
    <3>1. served' = [served EXCEPT ![i] = announced[i]] /\ announced' = announced
      BY <2>2 DEF Serve, Server!Serve
    <3> QED
      BY <1>2, <3>1
  <2> QED
    BY <2>1, <2>2
<1>4. TypeOK'
  BY <1>1, <1>3, PoolFrame DEF AppInv, TypeOK, QualityTypeOK, InterceptTypeOK
<1>5. PoolInv'
  BY <1>1, PoolFrame DEF AppInv, PoolInv, PoolKeeps
<1>6. PlayerInv'
  BY <1>1, PoolFrame DEF AppInv, PlayerInv, PoolKeeps
<1>7. DecisionInv'
  BY <1>1, <1>3 DEF AppInv, DecisionInv, NeverAnothersQuality, PoolKeeps
<1>8. NoLostWakeup'
  BY <1>1 DEF AppInv, NoLostWakeup
<1>9. ASSUME ~ Removals PROVE ReadyInv'
  BY <1>1, <1>3, <1>9 DEF AppInv, ReadyInv, RequestedQuality, PoolKeeps
<1> QED
  BY <1>4, <1>5, <1>6, <1>7, <1>8, <1>9 DEF AppInv

\* A report is registered, arrives, or is only taken note of; a download goes on.
LEMMA ReportInv ==
  ASSUME AppInv, RequestTypeOK', SlotsAccounted',
         Aborted' = Aborted, Outstanding' = Outstanding, Downloaded' = Downloaded,
         UNCHANGED <<current, index, pieceRequest>>,
         UNCHANGED <<quality_index, container, toIntercept, onIntercept, done, bypass>>,
         UNCHANGED <<lastRecovery, completed, handlers, waiting>>,
         UNCHANGED <<want, request, native, hit, scheduling, retries, url, announced, served>>,
         rebuffers' \subseteq Segments, pending' \subseteq Report, evidence' \subseteq Report
  PROVE  AppInv'
<1>1. TypeOK'
  BY DEF AppInv, TypeOK, QualityTypeOK, InterceptTypeOK
<1>2. PoolInv'
  BY DEF AppInv, PoolInv
<1>3. PlayerInv'
  BY DEF AppInv, PlayerInv
<1>4. DecisionInv'
  BY DEF AppInv, DecisionInv, NeverAnothersQuality
<1>5. NoLostWakeup'
  BY DEF AppInv, NoLostWakeup
<1>6. ASSUME ~ Removals PROVE ReadyInv'
  BY <1>6 DEF AppInv, ReadyInv, RequestedQuality
<1> QED
  BY <1>1, <1>2, <1>3, <1>4, <1>5, <1>6 DEF AppInv

\* A report reaches the server.
LEMMA NetworkInv ==
  ASSUME AppInv, NEW r \in Report, ReportArrives(r)
  PROVE  AppInv'
<1>1. /\ PoolKeeps
      /\ UNCHANGED <<quality_index, container, toIntercept, onIntercept, done, bypass>>
      /\ UNCHANGED <<rebuffers, lastRecovery, completed, handlers, waiting>>
      /\ UNCHANGED <<want, request, native, hit, scheduling, retries, url, announced, served>>
  BY DEF ReportArrives, requestVars, qualityVars, interceptVars, playerVars, PoolKeeps
<1>2. rebuffers' \subseteq Segments /\ pending' \subseteq Report /\ evidence' \subseteq Report
  BY <1>1 DEF ReportArrives, AppInv, TypeOK
<1>3. /\ RequestTypeOK' /\ SlotsAccounted'
      /\ Aborted' = Aborted /\ Outstanding' = Outstanding /\ Downloaded' = Downloaded
  BY <1>1, PoolFrame DEF AppInv, TypeOK, PoolInv
<1> QED
  BY <1>1, <1>2, <1>3, ReportInv DEF PoolKeeps

\* Reports about segment i are reports.
LEMMA ReportsTyped ==
  ASSUME NEW reports, reports \subseteq Report, TypeOK, addMetrics(reports)
  PROVE  pending' \subseteq Report
BY DEF addMetrics, TypeOK

\* A download goes on, at a level that asks for nothing or is low.
LEMMA ProgressInv ==
  ASSUME AppInv, NEW i \in Segments, NEW level \in Levels,
         onResourceProgress(i, level) \/ onResourceProgressLow(i, level)
  PROVE  AppInv'
<1>1. /\ resourceProgress(i, level)
      /\ addMetrics({<<i, level>>})
      /\ rebuffers' \subseteq rebuffers \cup {i}
      /\ UNCHANGED <<quality_index, container, toIntercept, onIntercept, done, bypass>>
      /\ UNCHANGED <<lastRecovery, completed, handlers, waiting>>
      /\ UNCHANGED <<want, request, native, hit, scheduling, retries, url>>
      /\ UNCHANGED <<announced, served, evidence>>
  BY DEF onResourceProgress, onResourceProgressLow, qualityVars, interceptVars, playerVars,
         serverVars
<1>2. /\ RequestTypeOK' /\ SlotsAccounted'
      /\ Aborted' = Aborted /\ Outstanding' = Outstanding /\ Downloaded' = Downloaded
      /\ UNCHANGED <<current, index, pieceRequest>>
  BY <1>1, ProgressKeepsSlots DEF AppInv, PoolInv, resourceProgress
<1>3. {<<i, level>>} \subseteq Report
  BY LevelsAssumption DEF Report
<1>4. rebuffers' \subseteq Segments /\ pending' \subseteq Report /\ evidence' \subseteq Report
  BY <1>1, <1>3, ReportsTyped DEF AppInv, TypeOK
<1> QED
  BY <1>1, <1>2, <1>4, ReportInv

\* Both requests for the segment are aborted.
LEMMA AbortInv ==
  ASSUME AppInv, NEW i \in Segments, NEW level \in Levels, onResourceProgressAbort(i, level)
  PROVE  AppInv'
<1>1. /\ resourceAbort(i)
      /\ addMetrics({<<i, "aborted">>, <<i, level>>})
      /\ request = i /\ getQuality(i) > 0 /\ ~ native
      /\ rebuffers' = rebuffers \cup {i} /\ lastRecovery' = i - 1
      /\ bypass' = bypass \cup {i}
      /\ request' = None /\ hit' = FALSE
      /\ UNCHANGED <<quality_index, container, toIntercept, onIntercept, done>>
      /\ UNCHANGED <<completed, handlers, waiting>>
      /\ UNCHANGED <<want, native, scheduling, retries, url>>
      /\ UNCHANGED <<announced, served, evidence>>
      /\ UNCHANGED <<current, index, pieceRequest>>
  BY DEF onResourceProgressAbort, LowBuffer, Holds, dashIndex, qualityVars, serverVars,
         resourceAbort
<1>2. /\ RequestTypeOK' /\ SlotsAccounted'
      /\ Aborted' = Aborted \cup {i} /\ Outstanding' = Outstanding \ {i}
      /\ Downloaded' = Downloaded
  BY <1>1, AbortKeepsSlots DEF AppInv, PoolInv
<1>3. {<<i, "aborted">>, <<i, level>>} \subseteq Report
  BY LevelsAssumption DEF Report
<1>4. pending' \subseteq Report
  BY <1>1, <1>3, ReportsTyped DEF AppInv
<1>5. container[i] # None /\ i = want
  BY <1>1, NoneAssumption DEF getQuality, AppInv, PlayerInv
<1>6. TypeOK'
  <2>1. lastRecovery' \in 0 .. N /\ rebuffers' \subseteq Segments /\ bypass' \subseteq Segments
    BY <1>1, NAssumption DEF AppInv, TypeOK, InterceptTypeOK, Segments
  <2> QED
    BY <1>1, <1>2, <1>4, <2>1 DEF AppInv, TypeOK, QualityTypeOK, InterceptTypeOK
<1>7. PoolInv'
  BY <1>1, <1>2 DEF AppInv, PoolInv
<1>8. PlayerInv'
  BY <1>1, <1>2 DEF AppInv, PlayerInv
<1>9. DecisionInv'
  BY <1>1 DEF AppInv, DecisionInv, NeverAnothersQuality
<1>10. NoLostWakeup'
  BY <1>1 DEF NoLostWakeup
<1>11. ASSUME ~ Removals PROVE ReadyInv'
  BY <1>1, <1>5, <1>11, NoneAssumption DEF AppInv, ReadyInv, RequestedQuality
<1> QED
  BY <1>6, <1>7, <1>8, <1>9, <1>10, <1>11 DEF AppInv

\* A decision arrives.
LEMMA PieceInv ==
  ASSUME AppInv, NEW i \in Segments, onPieceSuccess(i)
  PROVE  AppInv'
<1>1. /\ announced[i] # None /\ pieceRequest[i] = "sent"
      /\ pieceRequest' = [pieceRequest EXCEPT ![i] = "ended"]
      /\ container' = [container EXCEPT ![i] = IF @ = None THEN announced[i] ELSE @]
      /\ UNCHANGED <<current, index, resourceRequest>>
      /\ UNCHANGED <<quality_index, toIntercept, onIntercept, done, bypass>>
      /\ UNCHANGED <<pending, rebuffers, lastRecovery, completed, handlers, waiting>>
      /\ UNCHANGED <<want, request, native, hit, scheduling, retries, url>>
      /\ UNCHANGED <<announced, served, evidence>>
  BY DEF onPieceSuccess, pieceSuccess, insert, interceptVars, appVars, playerVars, serverVars
<1>2. /\ pieceRequest \in [Segments -> {"none", "sent", "ended"}]
      /\ container \in [Segments -> Qualities \cup {None}]
      /\ announced \in [Segments -> Qualities \cup {None}]
  BY DEF AppInv, TypeOK, RequestTypeOK, QualityTypeOK
<1>3. /\ pieceRequest' \in [Segments -> {"none", "sent", "ended"}]
      /\ container' \in [Segments -> Qualities \cup {None}]
      /\ \A j \in Segments : /\ pieceRequest'[j] = IF j = i THEN "ended" ELSE pieceRequest[j]
                             /\ container'[j] = IF j = i /\ container[j] = None
                                                THEN announced[i] ELSE container[j]
  BY <1>1, <1>2
<1>4. Aborted' = Aborted /\ Outstanding' = Outstanding /\ Downloaded' = Downloaded
  BY <1>1 DEF Aborted, Outstanding, Downloaded
<1>5. TypeOK'
  BY <1>1, <1>3 DEF AppInv, TypeOK, RequestTypeOK, QualityTypeOK, InterceptTypeOK
<1>6. PoolInv'
  BY <1>1, <1>3, <1>4 DEF AppInv, PoolInv, SlotsAccounted
<1>7. PlayerInv'
  BY <1>1, <1>4 DEF AppInv, PlayerInv
<1>8. DecisionInv'
  BY <1>1, <1>3 DEF AppInv, DecisionInv, NeverAnothersQuality
<1>9. NoLostWakeup'
  BY <1>1 DEF AppInv, NoLostWakeup
<1>10. ASSUME ~ Removals PROVE ReadyInv'
  <2>1. 1 < want /\ want <= index => want \in Segments
    <3>1. want \in 1 .. N + 1 /\ index \in 0 .. N
      BY DEF AppInv, TypeOK, RequestTypeOK
    <3> QED
      BY <3>1, NAssumption DEF Segments
  <2> QED
    BY <1>1, <1>3, <1>10, <2>1 DEF AppInv, ReadyInv, RequestedQuality
<1> QED
  BY <1>5, <1>6, <1>7, <1>8, <1>9, <1>10 DEF AppInv

\* A segment arrives and the pool moves on.  It moves on only while the player is
\* not ahead of it.
LEMMA SuccessInv ==
  ASSUME AppInv, NEW i \in Segments, onResourceSuccess(i)
  PROVE  AppInv'
<1> DEFINE new == Sent(current - 1)
<1>1. /\ resourceSuccess(i)
      /\ addMetrics({<<i, "done">>})
      /\ onIntercept' = onIntercept \cup {i}
      /\ hit' = (hit \/ Holds(i))
      /\ toIntercept' = Expect(new)
      /\ UNCHANGED <<quality_index, container, done, bypass>>
      /\ UNCHANGED <<rebuffers, lastRecovery, completed, handlers, waiting>>
      /\ UNCHANGED <<want, request, native, scheduling, retries, url>>
      /\ UNCHANGED <<announced, served, evidence>>
  BY DEF onResourceSuccess, qualityVars, serverVars
<1>2. /\ RequestTypeOK' /\ SlotsAccounted'
      /\ index <= index' /\ new = index + 1 .. index'
      /\ i <= index /\ i \in Outstanding
      /\ Aborted' = Aborted /\ Downloaded' = Downloaded \cup {i}
      /\ Outstanding' = (Outstanding \ {i}) \cup new
      /\ \A j \in Segments : /\ pieceRequest'[j] = "none" <=> j > index'
                             /\ pieceRequest'[j] = "ended" => pieceRequest[j] = "ended"
  BY <1>1, SuccessKeepsSlots DEF AppInv, PoolInv
<1> HIDE DEF new
<1>3. index \in 0 .. N /\ index' \in 0 .. N /\ want \in 1 .. N + 1
  BY <1>2 DEF AppInv, TypeOK, RequestTypeOK
<1>4. want <= i /\ want <= index
  BY <1>2, <1>3, NAssumption DEF AppInv, PlayerInv, Segments
<1>5. \A j \in new : j > want /\ j > index
  BY <1>2, <1>3, <1>4
<1>6. /\ toIntercept' \in [Segments -> {"undefined", "null", "ctx"}]
      /\ \A j \in Segments : toIntercept'[j] = IF j \in new THEN "null" ELSE toIntercept[j]
  BY <1>1 DEF Expect, AppInv, TypeOK, InterceptTypeOK
<1>7. pending' \subseteq Report
  <2>1. {<<i, "done">>} \subseteq Report
    BY DEF Report
  <2> QED
    BY <1>1, <2>1, ReportsTyped DEF AppInv
<1>8. TypeOK'
  BY <1>1, <1>2, <1>6, <1>7 DEF AppInv, TypeOK, QualityTypeOK, InterceptTypeOK
<1>9. PoolInv'
  <2>1. \A j \in Segments : toIntercept'[j] = "undefined" <=> j > index'
    <3>1. \A j \in Segments : j \in Int /\ (toIntercept[j] = "undefined" <=> j > index)
      BY DEF AppInv, PoolInv, Segments
    <3> QED
      BY <1>2, <1>3, <1>6, <3>1
  <2> QED
    BY <1>1, <1>2, <2>1 DEF AppInv, PoolInv
<1>10. PlayerInv'
  <2>1. \A j \in done : j <= want /\ j \in Segments
    BY DEF AppInv, PlayerInv, TypeOK, InterceptTypeOK
  <2>2. \A j \in done : j \notin new
    BY <1>3, <1>5, <2>1, NAssumption DEF Segments
  <2>3. \A j \in done : toIntercept'[j] # "null"
    BY <1>6, <2>1, <2>2 DEF AppInv, PlayerInv
  <2>4. \A j \in Segments : j < want => j \notin Outstanding'
    BY <1>2, <1>3, <1>5 DEF AppInv, PlayerInv, Segments
  <2>5. request # None /\ native => request \in Aborted'
    BY <1>2, <1>3, <1>4 DEF AppInv, PlayerInv
  <2>6. hit' => request # None /\ request \in onIntercept'
    BY <1>1, NoneAssumption DEF AppInv, PlayerInv, Holds
  <2> QED
    BY <1>1, <2>3, <2>4, <2>5, <2>6 DEF AppInv, PlayerInv
<1>11. DecisionInv'
  BY <1>1, <1>2 DEF AppInv, DecisionInv, NeverAnothersQuality
<1>12. NoLostWakeup'
  BY <1>1 DEF AppInv, NoLostWakeup, Holds
<1>13. ASSUME ~ Removals PROVE ReadyInv'
  BY <1>1, <1>4, <1>6, <1>13 DEF AppInv, ReadyInv, RequestedQuality
<1> QED
  BY <1>8, <1>9, <1>10, <1>11, <1>12, <1>13 DEF AppInv

\* The player asks for the segment it wants, for the first time or again.
LEMMA OpenInv ==
  ASSUME AppInv, want \in Segments, openXHR(want), retries' \in 0 .. MaxRetries,
         \/ want \in done /\ url' = url
         \/ want \notin done /\ url' = [url EXCEPT ![want] = getQuality(quality_index)],
         request # None \/ scheduling
  PROVE  AppInv'
<1>1. /\ PoolKeeps
      /\ request' = want /\ native' = ~ Held(want) /\ hit' = HitOnSend(want)
      /\ done' = done \cup {want}
      /\ toIntercept' = IF Held(want) THEN [toIntercept EXCEPT ![want] = "ctx"] ELSE toIntercept
      /\ UNCHANGED <<onIntercept, bypass, container, pending, rebuffers, lastRecovery, waiting>>
      /\ UNCHANGED <<want, scheduling, announced, served, evidence>>
  BY DEF openXHR, open, requestVars, serverVars, PoolKeeps
<1>2. /\ RequestTypeOK' /\ SlotsAccounted'
      /\ Aborted' = Aborted /\ Outstanding' = Outstanding /\ Downloaded' = Downloaded
      /\ UNCHANGED <<index, pieceRequest>>
  BY <1>1, PoolFrame DEF AppInv, TypeOK, PoolInv, PoolKeeps
<1>3. /\ toIntercept \in [Segments -> {"undefined", "null", "ctx"}]
      /\ container \in [Segments -> Qualities \cup {None}]
      /\ announced \in [Segments -> Qualities \cup {None}]
      /\ url \in [Segments -> Qualities \cup {None}]
      /\ want \in 1 .. N /\ index \in 0 .. N
      /\ quality_index \in Segments /\ handlers \subseteq Segments /\ completed \in BOOLEAN
  BY NAssumption DEF AppInv, TypeOK, RequestTypeOK, QualityTypeOK, InterceptTypeOK, Segments
<1>4. /\ quality_index' = IF want < N THEN want + 1 ELSE want
      /\ handlers' \subseteq handlers \cup {want} /\ \A j \in handlers' : j < N
      /\ want < N => want \in handlers'
      /\ completed' \in BOOLEAN
  <2>1. /\ \A j \in handlers : j < N
        /\ want \in done /\ want < N => want \in handlers
        /\ quality_index = IF want \in done /\ want < N THEN want + 1 ELSE want
    BY <1>3 DEF AppInv, PlayerInv
  <2>2. CASE want \notin done \/ Bypassed(want)
    <3>1. onRequest(want)
      BY <2>2 DEF openXHR
    <3>2. CASE want = N
      <4>1. completed' = TRUE /\ quality_index' = quality_index /\ handlers' = handlers
        BY <3>1, <3>2 DEF onRequest
      <4>2. ~ (want < N)
        BY <3>2, NAssumption
      <4> QED
        BY <2>1, <4>1, <4>2
    <3>3. CASE want # N
      <4>1. quality_index' = want + 1 /\ handlers' = handlers \cup {want} /\ completed' = completed
        BY <3>1, <3>3 DEF onRequest, advance
      <4>2. want < N
        BY <1>3, <3>3, NAssumption
      <4> QED
        BY <1>3, <2>1, <4>1, <4>2
    <3> QED
      BY <3>2, <3>3
  <2>3. CASE ~ (want \notin done \/ Bypassed(want))
    <3>1. UNCHANGED <<quality_index, handlers, completed>> /\ want \in done
      BY <2>3 DEF openXHR
    <3> QED
      BY <1>3, <2>1, <3>1
  <2> QED
    BY <2>2, <2>3
<1>5. /\ toIntercept' \in [Segments -> {"undefined", "null", "ctx"}]
      /\ \A j \in Segments : toIntercept'[j] = IF j = want /\ Held(want) THEN "ctx"
                                                ELSE toIntercept[j]
  BY <1>1, <1>3
<1>6. want \notin done => quality_index = want
  BY <1>3 DEF AppInv, PlayerInv
<1>7. getQuality(want) \in Qualities
  BY <1>3, QualitiesAssumption DEF getQuality
<1>8. /\ url' \in [Segments -> Qualities \cup {None}]
      /\ url'[want] # None
      /\ want \in done => url'[want] = url[want]
      /\ want \notin done => url'[want] = getQuality(want)
      /\ \A j \in Segments : j # want => url'[j] = url[j]
  <2>1. CASE want \in done
    <3>1. url[want] # None
      BY <2>1 DEF AppInv, PlayerInv
    <3> QED
      BY <1>3, <2>1, <3>1
  <2>2. CASE want \notin done
    <3>1. url' = [url EXCEPT ![want] = getQuality(want)]
      BY <1>6, <2>2
    <3> QED
      BY <1>3, <1>7, <2>2, <3>1, QualitiesAssumption
  <2> QED
    BY <2>1, <2>2
<1>9. TypeOK'
  <2>1. quality_index' \in Segments
    BY <1>3, <1>4, NAssumption DEF Segments
  <2> QED
    BY <1>1, <1>2, <1>4, <1>5, <1>8, <2>1 DEF AppInv, TypeOK, QualityTypeOK, InterceptTypeOK,
       HitOnSend, Held, Bypassed
<1>10. PoolInv'
  <2>1. \A j \in Segments : toIntercept'[j] = "undefined" <=> toIntercept[j] = "undefined"
    BY <1>5 DEF Held
  <2> QED
    BY <1>1, <1>2, <2>1 DEF AppInv, PoolInv
<1>11. PlayerInv'
  <2>1. \A j \in done' : j <= want
    BY <1>1, <1>3 DEF AppInv, PlayerInv
  <2>2. \A j \in Segments : j \in done' <=> url'[j] # None
    BY <1>1, <1>8 DEF AppInv, PlayerInv
  <2>3. \A j \in done' : toIntercept'[j] # "null"
    <3>1. done \subseteq Segments
      BY DEF AppInv, TypeOK, InterceptTypeOK
    <3>2. toIntercept'[want] # "null"
      BY <1>5 DEF Held, Bypassed, AppInv, PlayerInv
    <3> QED
      BY <1>1, <1>5, <3>1, <3>2 DEF AppInv, PlayerInv
  <2>4. native' => want > index \/ want \in Aborted
    BY <1>1 DEF Held, Bypassed, AppInv, PoolInv
  <2>5. hit' => want \in onIntercept
    BY <1>1 DEF HitOnSend
  <2>6. want # None
    BY NoneAssumption
  <2> QED
    BY <1>1, <1>2, <1>4, <2>1, <2>2, <2>3, <2>4, <2>5, <2>6 DEF AppInv, PlayerInv
<1>12. DecisionInv'
  <2>1. getQuality(want) # 0 => getQuality(want) = announced[want]
    BY DEF getQuality, AppInv, DecisionInv
  <2>2. NeverAnothersQuality'
    BY <1>1, <1>8, <2>1 DEF AppInv, DecisionInv, NeverAnothersQuality
  <2> QED
    BY <1>1, <1>2, <2>2 DEF AppInv, DecisionInv
<1>13. NoLostWakeup'
  BY <1>1 DEF NoLostWakeup, HitOnSend
<1>14. ASSUME ~ Removals PROVE ReadyInv'
  <2>1. waiting = {}
    BY <1>14 DEF AppInv, ReadyInv
  <2>2. request' # None
    BY <1>1, NoneAssumption
  <2>3. ASSUME want > 1, toIntercept'[want] = "ctx"
        PROVE  url'[want] = announced[want]
    <3>1. CASE want \in done
      <4>1. toIntercept[want] = "ctx"
        BY <1>3, <1>5, <2>3, <3>1 DEF Held, AppInv, PlayerInv
      <4> QED
        BY <1>8, <1>14, <2>3, <3>1, <4>1 DEF AppInv, ReadyInv, RequestedQuality
    <3>2. CASE want \notin done
      <4>1. toIntercept[want] # "undefined"
        BY <1>5, <2>3 DEF Held
      <4>2. want <= index
        BY <1>3, <4>1 DEF AppInv, PoolInv
      <4>3. scheduling /\ request = None
        BY <3>2 DEF AppInv, PlayerInv
      <4>4. container[want] # None
        BY <1>14, <2>3, <4>2, <4>3 DEF AppInv, ReadyInv
      <4> QED
        BY <1>8, <3>2, <4>4 DEF getQuality, AppInv, DecisionInv
    <3> QED
      BY <3>1, <3>2
  <2>4. RequestedQuality'
    BY <1>1, <1>5, <1>8, <1>14, <2>3 DEF AppInv, ReadyInv, RequestedQuality
  <2> QED
    BY <1>1, <2>1, <2>2, <2>4 DEF ReadyInv
<1> QED
  BY <1>9, <1>10, <1>11, <1>12, <1>13, <1>14 DEF AppInv

\* The player has loaded a segment, from the interceptor or past it.
LEMMA LoadedInv ==
  ASSUME AppInv, request # None, hit \/ native, PlayerLoaded
  PROVE  AppInv'
<1> DEFINE next == want + 1
<1>1. /\ PoolKeeps
      /\ want' = next /\ request' = None /\ hit' = FALSE /\ handlers' = {}
      /\ UNCHANGED <<toIntercept, onIntercept, done, bypass, quality_index>>
      /\ UNCHANGED <<announced, served, evidence, pending, rebuffers, lastRecovery, completed>>
      /\ UNCHANGED <<native, retries, url>>
  BY DEF PlayerLoaded, loadingCompleted, requestVars, interceptVars, serverVars, PoolKeeps
<1>2. /\ RequestTypeOK' /\ SlotsAccounted'
      /\ Aborted' = Aborted /\ Outstanding' = Outstanding /\ Downloaded' = Downloaded
      /\ UNCHANGED <<index, pieceRequest>>
  BY <1>1, PoolFrame DEF AppInv, TypeOK, PoolInv, PoolKeeps
<1>3. /\ request = want /\ want \in done /\ want \in Segments
      /\ want \in 1 .. N /\ next \in 1 .. N + 1 /\ index \in 0 .. N
      /\ container \in [Segments -> Qualities \cup {None}]
      /\ announced \in [Segments -> Qualities \cup {None}]
      /\ pieceRequest \in [Segments -> {"none", "sent", "ended"}]
  BY NAssumption DEF AppInv, TypeOK, RequestTypeOK, QualityTypeOK, InterceptTypeOK, PlayerInv,
                     Segments
<1>4. /\ want \in handlers => next \in Segments
      /\ next <= N => want \in handlers /\ next \in Segments
      /\ \A j \in Segments : j < next => j < want \/ j = want
      /\ next # want /\ next \notin done
  BY <1>3, NAssumption DEF AppInv, PlayerInv, Segments
<1>5. /\ IF want \in handlers /\ pieceRequest[next] = "sent"
         THEN scheduling' = FALSE /\ waiting' = waiting \cup {next}
         ELSE UNCHANGED <<scheduling, waiting>>
      /\ IF want \in handlers /\ pieceRequest[next] = "ended"
         THEN container' = [container EXCEPT ![next] = IF @ = None THEN announced[next] ELSE @]
         ELSE UNCHANGED container
  BY <1>3 DEF PlayerLoaded, loadingCompleted, insert
<1> HIDE DEF next
<1>6. /\ container' \in [Segments -> Qualities \cup {None}]
      /\ \A j \in Segments :
           container'[j] = IF /\ j = next /\ want \in handlers /\ pieceRequest[next] = "ended"
                              /\ container[next] = None
                           THEN announced[next] ELSE container[j]
  <2>1. CASE want \in handlers /\ pieceRequest[next] = "ended"
    BY <1>3, <1>4, <1>5, <2>1
  <2>2. CASE ~ (want \in handlers /\ pieceRequest[next] = "ended")
    BY <1>3, <1>5, <2>2
  <2> QED
    BY <2>1, <2>2
<1>7. waiting' \subseteq Segments /\ scheduling' \in BOOLEAN
  BY <1>4, <1>5 DEF AppInv, TypeOK
<1>8. TypeOK'
  BY <1>1, <1>2, <1>3, <1>6, <1>7 DEF AppInv, TypeOK, QualityTypeOK, InterceptTypeOK
<1>9. PoolInv'
  BY <1>1, <1>2 DEF AppInv, PoolInv
<1>10. PlayerInv'
  <2>1. want \notin Outstanding
    <3>1. CASE hit
      BY <1>3, <3>1 DEF AppInv, PlayerInv, PoolInv, Downloaded, Outstanding, Hanging
    <3>2. CASE native
      BY <1>3, <3>2 DEF AppInv, PlayerInv, PoolInv, SlotsAccounted, Aborted, Outstanding, Hanging
    <3> QED
      BY <3>1, <3>2
  <2>2. \A j \in Segments : j < next => j \notin Outstanding
    BY <1>4, <2>1 DEF AppInv, PlayerInv
  <2>3. \A j \in done : j <= next
    <3>1. \A j \in done : j <= want /\ j \in Int
      BY DEF AppInv, PlayerInv, TypeOK, InterceptTypeOK, Segments
    <3> QED
      BY <1>3, <3>1 DEF next
  <2>4. next <= N => quality_index = next
    <3>1. want <= N /\ (next <= N => want < N) /\ next = want + 1
      BY <1>3, NAssumption DEF next
    <3> QED
      BY <1>3, <3>1 DEF AppInv, PlayerInv
  <2> QED
    BY <1>1, <1>2, <1>4, <2>2, <2>3, <2>4 DEF AppInv, PlayerInv
<1>11. DecisionInv'
  BY <1>1, <1>2, <1>4, <1>6 DEF AppInv, DecisionInv, NeverAnothersQuality
<1>12. NoLostWakeup'
  BY <1>1 DEF NoLostWakeup
<1>13. ASSUME ~ Removals PROVE ReadyInv'
  <2>1. waiting = {}
    BY <1>13 DEF AppInv, ReadyInv
  <2>2. \A j \in waiting' : j = next /\ scheduling' = FALSE
    BY <1>5, <2>1
  <2>3. ASSUME scheduling' = TRUE, next <= index PROVE container'[next] # None
    <3>1. next <= N
      BY <1>3, <2>3, NAssumption
    <3>2. want \in handlers /\ next \in Segments
      BY <1>4, <3>1
    <3>3. pieceRequest[next] # "none"
      BY <1>3, <2>3, <3>2 DEF AppInv, PoolInv
    <3>4. pieceRequest[next] # "sent"
      BY <1>5, <2>3, <3>2
    <3>5. pieceRequest[next] = "ended" /\ announced[next] # None
      BY <1>3, <3>2, <3>3, <3>4 DEF AppInv, DecisionInv
    <3> QED
      BY <1>6, <3>2, <3>5
  <2>4. RequestedQuality'
    BY <1>1, <1>13 DEF AppInv, ReadyInv, RequestedQuality
  <2> QED
    BY <1>1, <1>2, <1>7, <2>2, <2>3, <2>4 DEF ReadyInv
<1> QED
  BY <1>8, <1>9, <1>10, <1>11, <1>12, <1>13 DEF AppInv

\* The decision is found and the player started.
LEMMA StartInv ==
  ASSUME AppInv, NEW i \in Segments, startAfterEnded(i)
  PROVE  AppInv'
<1>1. /\ PoolKeeps
      /\ i \in waiting /\ pieceRequest[i] = "ended"
      /\ waiting' = waiting \ {i} /\ scheduling' = TRUE
      /\ container' = [container EXCEPT ![i] = IF @ = None THEN announced[i] ELSE @]
      /\ UNCHANGED <<toIntercept, onIntercept, done, bypass, quality_index>>
      /\ UNCHANGED <<announced, served, evidence>>
      /\ UNCHANGED <<pending, rebuffers, lastRecovery, completed, handlers>>
      /\ UNCHANGED <<want, request, native, hit, retries, url>>
  BY DEF startAfterEnded, insert, requestVars, interceptVars, serverVars, PoolKeeps
<1>2. /\ RequestTypeOK' /\ SlotsAccounted'
      /\ Aborted' = Aborted /\ Outstanding' = Outstanding /\ Downloaded' = Downloaded
      /\ UNCHANGED <<index, pieceRequest>>
  BY <1>1, PoolFrame DEF AppInv, TypeOK, PoolInv, PoolKeeps
<1>3. /\ container \in [Segments -> Qualities \cup {None}]
      /\ announced \in [Segments -> Qualities \cup {None}]
  BY DEF AppInv, TypeOK, QualityTypeOK
<1>4. announced[i] # None
  BY <1>1 DEF AppInv, DecisionInv
<1>5. /\ container' \in [Segments -> Qualities \cup {None}]
      /\ \A j \in Segments : container'[j] = IF j = i /\ container[j] = None
                                             THEN announced[i] ELSE container[j]
  BY <1>1, <1>3
<1>6. TypeOK'
  BY <1>1, <1>2, <1>5 DEF AppInv, TypeOK, QualityTypeOK, InterceptTypeOK
<1>7. PoolInv'
  BY <1>1, <1>2 DEF AppInv, PoolInv
<1>8. PlayerInv'
  BY <1>1, <1>2 DEF AppInv, PlayerInv
<1>9. DecisionInv'
  BY <1>1, <1>2, <1>5 DEF AppInv, DecisionInv, NeverAnothersQuality
<1>10. NoLostWakeup'
  BY <1>1 DEF AppInv, NoLostWakeup
<1>11. ASSUME ~ Removals PROVE ReadyInv'
  <2>1. i = want /\ waiting' = {}
    BY <1>1, <1>11 DEF AppInv, ReadyInv
  <2>2. container'[want] # None
    BY <1>4, <1>5, <2>1
  <2> QED
    BY <1>1, <1>11, <2>1, <2>2 DEF AppInv, ReadyInv, RequestedQuality
<1> QED
  BY <1>6, <1>7, <1>8, <1>9, <1>10, <1>11 DEF AppInv

\* The schedule controller is started by a removal.
LEMMA RemovalInv ==
  ASSUME AppInv, UnintendedRemoval
  PROVE  AppInv'
<1>1. /\ PoolKeeps /\ Removals /\ scheduling' = TRUE
      /\ UNCHANGED <<quality_index, container, toIntercept, onIntercept, done, bypass>>
      /\ UNCHANGED <<pending, rebuffers, lastRecovery, completed, handlers, waiting>>
      /\ UNCHANGED <<want, request, native, hit, retries, url, announced, served, evidence>>
  BY DEF UnintendedRemoval, requestVars, qualityVars, interceptVars, appVars, serverVars, PoolKeeps
<1>2. /\ RequestTypeOK' /\ SlotsAccounted'
      /\ Aborted' = Aborted /\ Outstanding' = Outstanding /\ Downloaded' = Downloaded
      /\ UNCHANGED <<index, pieceRequest>>
  BY <1>1, PoolFrame DEF AppInv, TypeOK, PoolInv, PoolKeeps
<1>3. TypeOK'
  BY <1>1, <1>2 DEF AppInv, TypeOK, QualityTypeOK, InterceptTypeOK
<1>4. PoolInv'
  BY <1>1, <1>2 DEF AppInv, PoolInv
<1>5. PlayerInv'
  BY <1>1, <1>2 DEF AppInv, PlayerInv
<1>6. DecisionInv' /\ NoLostWakeup'
  BY <1>1, <1>2 DEF AppInv, DecisionInv, NeverAnothersQuality, NoLostWakeup
<1> QED
  BY <1>1, <1>3, <1>4, <1>5, <1>6 DEF AppInv
-----------------------------------------------------------------------------
(* The induction.                                                          *)

\* Every step keeps the invariant.
LEMMA NextInv == AppInv /\ [Next]_vars => AppInv'
<1> SUFFICES ASSUME AppInv, [Next]_vars PROVE AppInv'
  OBVIOUS
<1>1. CASE ServerStep
  BY <1>1, ServerInv DEF ServerStep
<1>2. CASE NetworkStep
  BY <1>2, NetworkInv DEF NetworkStep
<1>3. CASE ProgressStep
  BY <1>3, ProgressInv, AbortInv DEF ProgressStep
<1>4. CASE AnswerStep
  BY <1>4, PieceInv, SuccessInv DEF AnswerStep
<1>5. CASE PlayerRequest
  <2>1. want \in Segments /\ openXHR(want) /\ scheduling
    BY <1>5, NAssumption DEF PlayerRequest, AppInv, TypeOK, Segments
  <2>2. retries' \in 0 .. MaxRetries
    BY <1>5 DEF PlayerRequest, AppInv, TypeOK
  <2>3. \/ want \in done /\ url' = url
        \/ want \notin done /\ url' = [url EXCEPT ![want] = getQuality(quality_index)]
    BY <1>5, <2>1 DEF PlayerRequest, AppInv, PlayerInv
  <2> QED
    BY <2>1, <2>2, <2>3, OpenInv
<1>6. CASE PlayerRetry
  <2>1. request # None /\ request = want /\ want \in done /\ want \in Segments
    BY <1>6 DEF PlayerRetry, AppInv, PlayerInv, TypeOK, InterceptTypeOK
  <2>2. openXHR(want) /\ url' = url
    BY <1>6, <2>1 DEF PlayerRetry
  <2>3. retries' \in 0 .. MaxRetries
    BY <1>6, FrontEndBounds DEF PlayerRetry, AppInv, TypeOK
  <2> QED
    BY <2>1, <2>2, <2>3, OpenInv
<1>7. CASE cacheHit \/ NativeLoad
  BY <1>7, LoadedInv DEF cacheHit, NativeLoad
<1>8. CASE UnintendedRemoval
  BY <1>8, RemovalInv
<1>9. CASE \E i \in Segments : startAfterEnded(i)
  BY <1>9, StartInv
<1>10. CASE UNCHANGED vars
  <2>1. /\ PoolKeeps
        /\ UNCHANGED <<quality_index, container, toIntercept, onIntercept, done, bypass>>
        /\ UNCHANGED <<pending, rebuffers, lastRecovery, completed, handlers, waiting>>
        /\ UNCHANGED <<want, request, native, hit, scheduling, retries, url>>
        /\ UNCHANGED <<announced, served, evidence>>
    BY <1>10 DEF vars, requestVars, qualityVars, interceptVars, appVars, playerVars, serverVars,
                 PoolKeeps
  <2>2. rebuffers' \subseteq Segments /\ pending' \subseteq Report /\ evidence' \subseteq Report
    BY <2>1 DEF AppInv, TypeOK
  <2>3. /\ RequestTypeOK' /\ SlotsAccounted'
        /\ Aborted' = Aborted /\ Outstanding' = Outstanding /\ Downloaded' = Downloaded
    BY <2>1, PoolFrame DEF AppInv, TypeOK, PoolInv
  <2> QED
    BY <2>1, <2>2, <2>3, ReportInv DEF PoolKeeps
<1> QED
  BY <1>1, <1>2, <1>3, <1>4, <1>5, <1>6, <1>7, <1>8, <1>9, <1>10 DEF Next, PlayerStep

\* start() fills the pool.
LEMMA InitInv == Init => AppInv
<1> SUFFICES ASSUME Init PROVE AppInv
  OBVIOUS
<1> DEFINE first == IF Pool < N THEN Pool ELSE N
<1>1. first \in 1 .. N /\ first \in 0 .. Pool
  BY NAssumption, PoolAssumption
<1>2. /\ current = first /\ index = first
      /\ pieceRequest = [i \in Segments |-> IF i <= first THEN "sent" ELSE "none"]
      /\ resourceRequest = pieceRequest
  BY DEF Init, RequestInit
<1> HIDE DEF first
<1>3. Outstanding = 1 .. first /\ Aborted = {}
  <2>1. \A i \in Segments : resourceRequest[i] = IF i <= first THEN "sent" ELSE "none"
    BY <1>2
  <2>2. Outstanding = {i \in Segments : i <= first} /\ Aborted = {}
    BY <2>1 DEF Outstanding, Aborted, Hanging
  <2>3. {i \in Segments : i <= first} = 1 .. first
    BY <1>1, NAssumption DEF Segments
  <2> QED
    BY <2>2, <2>3
<1>4. Cardinality(Outstanding) = first /\ Cardinality(Aborted) = 0
  BY <1>1, <1>3, FS_Interval, FS_EmptySet
<1>5. SlotsAccounted
  BY <1>1, <1>2, <1>4 DEF SlotsAccounted
<1>6. RequestTypeOK
  BY <1>1, <1>2 DEF RequestTypeOK, Hanging
<1>7. TypeOK
  <2>1. 1 \in Segments /\ want \in 1 .. N + 1 /\ lastRecovery \in 0 .. N
    BY NAssumption DEF Init, Segments
  <2>2. retries \in 0 .. MaxRetries
    BY FrontEndBounds DEF Init
  <2>3. QualityTypeOK
    BY <2>1 DEF Init, QualityInit, QualityTypeOK
  <2>4. InterceptTypeOK
    BY DEF Init, InterceptTypeOK
  <2> QED
    BY <1>6, <2>1, <2>2, <2>3, <2>4 DEF Init, TypeOK
<1>8. PoolInv
  <2>1. \A i \in Segments : /\ pieceRequest[i] = "none" <=> i > index
                            /\ toIntercept[i] = "undefined" <=> i > index
    BY <1>1, <1>2 DEF Init, Segments
  <2> QED
    BY <1>5, <2>1 DEF Init, PoolInv
<1>9. PlayerInv
  BY NAssumption DEF Init, QualityInit, PlayerInv, Segments
<1>10. DecisionInv
  BY <1>2 DEF Init, QualityInit, DecisionInv, NeverAnothersQuality
<1>11. NoLostWakeup
  BY DEF Init, NoLostWakeup
<1>12. ReadyInv
  BY DEF Init, ReadyInv, RequestedQuality
<1> QED
  BY <1>7, <1>8, <1>9, <1>10, <1>11, <1>12 DEF AppInv

\* The inductive invariant holds in every behaviour.
LEMMA AppInvariant == Spec => []AppInv
BY InitInv, NextInv, PTL DEF Spec
-----------------------------------------------------------------------------
(* The properties.                                                         *)

\* App, pool, interceptor and player keep their types: the pool never holds more
\* than its size and no index leaves the video.
THEOREM AppTypeCorrect == Spec => []TypeOK
<1>1. AppInv => TypeOK
  BY DEF AppInv
<1> QED
  BY <1>1, AppInvariant, PTL

\* Slots are neither lost nor invented, whatever is aborted (RequestController).
THEOREM SlotsAlwaysAccounted == Spec => []SlotsAccounted
<1>1. AppInv => SlotsAccounted
  BY DEF AppInv, PoolInv
<1> QED
  BY <1>1, AppInvariant, PTL

\* The player's request and the response of the pool meet in either order
\* (Interceptor.onIntercept and ctx.send).
THEOREM WakeupsNeverLost == Spec => []NoLostWakeup
<1>1. AppInv => NoLostWakeup
  BY DEF AppInv
<1> QED
  BY <1>1, AppInvariant, PTL

\* Removals or not, the player asks for the decided quality or the lowest, never
\* for the quality of another segment (QualityController.advance).
THEOREM QualityIsOwn == Spec => []NeverAnothersQuality
<1>1. AppInv => NeverAnothersQuality
  BY DEF AppInv, DecisionInv
<1> QED
  BY <1>1, AppInvariant, PTL

\* If the player detects no unintended removal, it asks for every intercepted
\* segment in the quality the server decided (loadingCompleted, startAfterEnded).
THEOREM QualityIsDecided ==
  ASSUME ~ Removals
  PROVE  Spec => []RequestedQuality
<1>1. AppInv => RequestedQuality
  BY DEF AppInv, ReadyInv
<1> QED
  BY <1>1, AppInvariant, PTL

\* Only the arrival of a segment moves the pool.
LEMMA FullNext == AppInv /\ FullInv /\ [Next]_vars => FullInv'
<1> SUFFICES ASSUME AppInv, FullInv, [Next]_vars PROVE FullInv'
  OBVIOUS
<1>1. CASE UNCHANGED <<current, index>>
  BY <1>1 DEF FullInv
<1>2. ASSUME NEW i \in Segments, onResourceSuccess(i) PROVE FullInv'
  <2>1. resourceSuccess(i)
    BY <1>2 DEF onResourceSuccess
  <2> QED
    BY <2>1, SuccessKeepsSlots DEF AppInv, PoolInv, FullInv
<1>3. CASE ServerStep \/ NetworkStep
  BY <1>1, <1>3 DEF ServerStep, Announce, Serve, ServerUnchanged, NetworkStep, ReportArrives,
                    requestVars
<1>4. CASE ProgressStep
  BY <1>1, <1>4 DEF ProgressStep, onResourceProgress, onResourceProgressLow,
                    onResourceProgressAbort, resourceProgress, resourceAbort
<1>5. CASE AnswerStep
  BY <1>1, <1>2, <1>5 DEF AnswerStep, onPieceSuccess, pieceSuccess
<1>6. CASE PlayerStep
  BY <1>1, <1>6 DEF PlayerStep, PlayerRequest, PlayerRetry, openXHR, cacheHit, NativeLoad,
                    PlayerLoaded, UnintendedRemoval, startAfterEnded, requestVars
<1>7. CASE UNCHANGED vars
  BY <1>1, <1>7 DEF vars, requestVars
<1> QED
  BY <1>3, <1>4, <1>5, <1>6, <1>7 DEF Next

\* The segments that were requested are on their way, aborted or here.
LEMMA RequestedSplit ==
  ASSUME AppInv
  PROVE  index = Cardinality(Outstanding) + Cardinality(Aborted) + Cardinality(Downloaded)
<1>1. /\ resourceRequest \in [Segments -> Hanging \cup {"none", "done", "aborted"}]
      /\ index \in 0 .. N
      /\ \A i \in Segments : i <= index <=> resourceRequest[i] # "none"
  BY DEF AppInv, TypeOK, RequestTypeOK, PoolInv, SlotsAccounted
<1>2. Downloaded \in SUBSET Segments
  BY DEF Downloaded
<1>3. IsFiniteSet(Downloaded) /\ Cardinality(Downloaded) \in Nat
  BY <1>2, SegmentSets
<1>4. /\ Outstanding \cap Aborted = {}
      /\ (Outstanding \cup Aborted) \cap Downloaded = {}
  BY DEF Outstanding, Aborted, Downloaded, Hanging
<1>5. (Outstanding \cup Aborted) \cup Downloaded = 1 .. index
  <2>1. (Outstanding \cup Aborted) \cup Downloaded = {i \in Segments : i <= index}
    BY <1>1 DEF Outstanding, Aborted, Downloaded, Hanging
  <2>2. {i \in Segments : i <= index} = 1 .. index
    BY <1>1, NAssumption DEF Segments
  <2> QED
    BY <2>1, <2>2
<1>6. Cardinality({}) = 0
  BY FS_EmptySet
<1>7. /\ IsFiniteSet(Outstanding \cup Aborted)
      /\ Cardinality(Outstanding \cup Aborted) = Cardinality(Outstanding) + Cardinality(Aborted)
  <2>1. /\ IsFiniteSet(Outstanding \cup Aborted)
        /\ Cardinality(Outstanding \cup Aborted) = Cardinality(Outstanding)
             + Cardinality(Aborted) - Cardinality(Outstanding \cap Aborted)
    BY SegmentSets, FS_Union
  <2>2. Cardinality(Outstanding \cap Aborted) = 0
    BY <1>4, <1>6
  <2>3. Cardinality(Outstanding) \in Nat /\ Cardinality(Aborted) \in Nat
    BY SegmentSets
  <2> QED
    BY <2>1, <2>2, <2>3
<1>8. Cardinality((Outstanding \cup Aborted) \cup Downloaded)
        = Cardinality(Outstanding \cup Aborted) + Cardinality(Downloaded)
  <2>1. Cardinality((Outstanding \cup Aborted) \cup Downloaded)
          = Cardinality(Outstanding \cup Aborted) + Cardinality(Downloaded)
            - Cardinality((Outstanding \cup Aborted) \cap Downloaded)
    BY <1>3, <1>7, FS_Union
  <2>2. Cardinality((Outstanding \cup Aborted) \cap Downloaded) = 0
    BY <1>4, <1>6
  <2>3. Cardinality(Outstanding) \in Nat /\ Cardinality(Aborted) \in Nat
    BY SegmentSets
  <2> QED
    BY <1>3, <1>7, <2>1, <2>2, <2>3
<1>9. Cardinality(1 .. index) = index
  BY <1>1, FS_Interval
<1> QED
  BY <1>5, <1>7, <1>8, <1>9

\* Aborts are the only way in which the pool shrinks, each by one slot and for
\* good: as many requests are on their way as the slots that are left, or the
\* segments that are left, and without an abort the pool is kept full
\* (RequestController, onAbort).
THEOREM OnlyAbortsCostSlots == Spec => [](SlotsLeak /\ (Aborted = {} => PoolKept))
<1>1. Init => FullInv
  BY NAssumption, PoolAssumption DEF Init, RequestInit, FullInv
<1>2. AppInv /\ FullInv => SlotsLeak /\ (Aborted = {} => PoolKept)
  <2> SUFFICES ASSUME AppInv, FullInv PROVE SlotsLeak /\ (Aborted = {} => PoolKept)
    OBVIOUS
  <2>1. /\ index \in 0 .. N /\ current \in 0 .. Pool
        /\ current = Cardinality(Outstanding) + Cardinality(Aborted)
    BY DEF AppInv, TypeOK, RequestTypeOK, PoolInv, SlotsAccounted
  <2>2. index = Cardinality(Outstanding) + Cardinality(Aborted) + Cardinality(Downloaded)
    BY RequestedSplit
  <2>3. Cardinality(Downloaded) \in Nat
    BY SegmentSets DEF Downloaded
  <2>4. SlotsLeak
    BY <2>1, <2>2, <2>3, SegmentSets, NAssumption, PoolAssumption DEF SlotsLeak, FullInv
  <2>5. Aborted = {} => PoolKept
    <3>1. Aborted = {} => Cardinality(Aborted) = 0 /\ Downloaded \cup Aborted = Downloaded
      BY FS_EmptySet
    <3> QED
      BY <2>4, <3>1, SegmentSets DEF SlotsLeak, PoolKept
  <2> QED
    BY <2>4, <2>5
<1>3. Spec => []FullInv
  BY <1>1, FullNext, AppInvariant, PTL DEF Spec
<1> QED
  BY <1>2, <1>3, AppInvariant, PTL
=============================================================================
