--------------------------- MODULE ServerSideApp ----------------------------
(***************************************************************************)
(* The front-end of server-side ABR (dash/src/apps/server_side.ts) with    *)
(* the abandon rule (dash/src/component/abr.js), around the pool of        *)
(* requests, the interceptor and the quality controller.                   *)
(*                                                                         *)
(* JavaScript runs one callback at a time, so every action is a whole      *)
(* callback.  What interleaves is the order of the callbacks: decisions    *)
(* and data come on different streams, the player asks for segments, its   *)
(* timers fire and the network carries the reports.                        *)
(*                                                                         *)
(* Two parts are external.  The player (dash.js) asks for the segments one *)
(* after the other while its schedule controller runs.  The server is the  *)
(* abstract SegmentDelivery that DashServer implements, which answers what *)
(* was polled and releases a decision on the evidence should_send wants.   *)
(***************************************************************************)
EXTENDS RequestController, QualityController, Interceptor

CONSTANTS
  MinIndex,    \* minIndex of shouldAbandon
  Cooldown,    \* recoveryCooldown of shouldAbandon
  Levels,      \* the levels of progress that events report
  MaxRetries,  \* bound on the requests the player sends again
  Removals     \* can the player detect an unintended removal?

ASSUME AbandonAssumption == MinIndex \in Nat /\ Cooldown \in Nat
ASSUME LevelsAssumption  == Levels \subseteq {"loading", "almost"}
ASSUME FrontEndBounds    == MaxRetries \in Nat /\ Removals \in BOOLEAN

\* The index field of a request of dash.js counts from 0.
dashIndex(i) == i - 1

\* A report names what is known of the download of a segment.
Report == Segments \X {"loading", "almost", "done", "aborted"}

VARIABLES
  pending,       \* reports in the StatsController or on their way
  rebuffers,     \* shouldAbandon: segments whose buffer was found low
  lastRecovery,  \* shouldAbandon: lastRecoveryIndex
  completed,     \* eos() has told the experiment that the stream is over
  handlers,      \* segments with a handler of OnFragmentLoadingCompleted
  waiting,       \* segments whose decision startAfterEnded polls for
  want,          \* player: the next segment it needs
  request,       \* player: the segment it is loading, None when idle
  native,        \* player: that request is not held by the interceptor
  hit,           \* timer of cacheHit for the held request
  scheduling,    \* player: the schedule controller runs
  retries,       \* player: requests sent again
  url,           \* history: quality of the player's first request
  announced,     \* server: decisions sent
  served,        \* server: segments sent
  evidence       \* server: reports registered

appVars    == <<pending, rebuffers, lastRecovery, completed, handlers, waiting>>
playerVars == <<want, request, native, hit, scheduling, retries, url>>
serverVars == <<announced, served, evidence>>
vars == <<requestVars, qualityVars, interceptVars, appVars, playerVars, serverVars>>

TypeOK ==
  /\ RequestTypeOK
  /\ QualityTypeOK
  /\ InterceptTypeOK
  /\ pending \subseteq Report
  /\ rebuffers \subseteq Segments
  /\ lastRecovery \in 0 .. N
  /\ completed \in BOOLEAN
  /\ handlers \subseteq Segments
  /\ waiting \subseteq Segments
  /\ want \in 1 .. N + 1
  /\ request \in Segments \cup {None}
  /\ native \in BOOLEAN
  /\ hit \in BOOLEAN
  /\ scheduling \in BOOLEAN
  /\ retries \in 0 .. MaxRetries
  /\ url \in [Segments -> Qualities \cup {None}]
  /\ announced \in [Segments -> Qualities \cup {None}]
  /\ served \in [Segments -> Qualities \cup {None}]
  /\ evidence \subseteq Report

\* ServerSideApp.start(): the pool is filled and the interceptor expects it.
Init ==
  /\ RequestInit
  /\ QualityInit
  /\ toIntercept = [i \in Segments |-> IF i <= index THEN "null" ELSE "undefined"]
  /\ onIntercept = {} /\ done = {} /\ bypass = {}
  /\ pending = {}
  /\ rebuffers = {} /\ lastRecovery = 0
  /\ completed = FALSE
  /\ handlers = {} /\ waiting = {}
  /\ want = 1 /\ request = None /\ native = FALSE /\ hit = FALSE
  /\ scheduling = TRUE
  /\ retries = 0
  /\ url = [i \in Segments |-> None]
  /\ announced = [i \in Segments |-> None]
  /\ served = [i \in Segments |-> None]
  /\ evidence = {}

-----------------------------------------------------------------------------
(***************************************************************************)
(* The server (external): the abstraction DashServer implements.           *)
(***************************************************************************)

Server == INSTANCE SegmentDelivery

Released(i) ==
  \/ i = 1
  \/ <<i - 1, "done">> \in evidence
  \/ <<i - 1, "almost">> \in evidence
  \/ <<i - 1, "aborted">> \in evidence /\ <<i - 1, "loading">> \in evidence

ServerUnchanged ==
  UNCHANGED <<requestVars, qualityVars, interceptVars, appVars, playerVars, evidence>>

Announce(i) ==
  /\ pieceRequest[i] # "none"
  /\ Released(i)
  /\ \E q \in Qualities : Server!Announce(i, q)
  /\ ServerUnchanged

Serve(i) ==
  /\ resourceRequest[i] # "none"
  /\ Server!Serve(i)
  /\ ServerUnchanged

-----------------------------------------------------------------------------
(***************************************************************************)
(* Reports.  A report waits in the StatsController for the next tick of    *)
(* the tracker, or for the next request of the player, and then on its     *)
(* stream; several are sent in one request.  As long as nothing is lost    *)
(* this amounts to reports that arrive at any time and in any order.  A    *)
(* report on a segment whose successor is decided changes nothing in the   *)
(* server, nor does one that repeats what is known: they are left out.     *)
(***************************************************************************)

Useful(r) == r[1] < N /\ announced[r[1] + 1] = None /\ r \notin evidence

addMetrics(reports) == pending' = pending \cup {r \in reports : Useful(r)}

ReportArrives(r) ==
  /\ r \in pending
  /\ pending' = pending \ {r}
  /\ evidence' = IF Useful(r) THEN evidence \cup {r} ELSE evidence
  /\ UNCHANGED <<requestVars, qualityVars, interceptVars, playerVars, announced, served>>
  /\ UNCHANGED <<rebuffers, lastRecovery, completed, handlers, waiting>>

-----------------------------------------------------------------------------
(***************************************************************************)
(* Answers of the server.                                                  *)
(***************************************************************************)

onPieceSuccess(i) ==
  /\ announced[i] # None
  /\ pieceSuccess(i)
  /\ insert(i, announced[i])
  /\ UNCHANGED <<quality_index, interceptVars, appVars, playerVars, serverVars>>

\* The player is loading segment i through the interceptor.
Holds(i) == request = i /\ ~ native

\* shouldAbandon, called by the player on progress of segment i, with a buffer
\* level below minBufferLevel.
LowBuffer(i) ==
  /\ Holds(i)
  /\ dashIndex(i) >= MinIndex
  /\ i \notin rebuffers
  /\ dashIndex(i) > lastRecovery + Cooldown
  /\ dashIndex(i) < N - 1

\* Progress that the player just takes note of.
onResourceProgress(i, level) ==
  /\ served[i] # None
  /\ resourceProgress(i, level)
  /\ addMetrics({<<i, level>>})
  /\ UNCHANGED <<qualityVars, interceptVars, playerVars, serverVars>>
  /\ UNCHANGED <<rebuffers, lastRecovery, completed, handlers, waiting>>

\* The buffer is low, but the segment is of the lowest quality already.
onResourceProgressLow(i, level) ==
  /\ served[i] # None
  /\ LowBuffer(i) /\ getQuality(i) = 0
  /\ resourceProgress(i, level)
  /\ rebuffers' = rebuffers \cup {i}
  /\ addMetrics({<<i, level>>})
  /\ UNCHANGED <<qualityVars, interceptVars, playerVars, serverVars>>
  /\ UNCHANGED <<lastRecovery, completed, handlers, waiting>>

\* The buffer is low: both requests for the segment are aborted, the server is
\* told and the player will ask for it again past the interceptor.  The progress
\* that started all this is recorded last.
onResourceProgressAbort(i, level) ==
  /\ served[i] # None
  /\ LowBuffer(i) /\ getQuality(i) > 0
  /\ resourceRequest[i] = "almost" => level = "almost"
  /\ resourceAbort(i)
  /\ rebuffers' = rebuffers \cup {i}
  /\ lastRecovery' = dashIndex(i)
  /\ bypass' = bypass \cup {i}
  /\ addMetrics({<<i, "aborted">>, <<i, level>>})
  /\ request' = None
  /\ hit' = FALSE
  /\ UNCHANGED <<toIntercept, onIntercept, done>>
  /\ UNCHANGED <<qualityVars, serverVars, completed, handlers, waiting>>
  /\ UNCHANGED <<want, native, scheduling, retries, url>>

\* The segment is here: it is reported, the player's request is completed if it
\* has come, and the pool moves on.
onResourceSuccess(i) ==
  /\ served[i] # None
  /\ resourceSuccess(i)
  /\ addMetrics({<<i, "done">>})
  /\ onIntercept' = onIntercept \cup {i}
  /\ hit' = (hit \/ Holds(i))
  /\ toIntercept' = Expect(Sent(current - 1))
  /\ UNCHANGED <<qualityVars, done, bypass, serverVars>>
  /\ UNCHANGED <<rebuffers, lastRecovery, completed, handlers, waiting>>
  /\ UNCHANGED <<want, request, native, scheduling, retries, url>>

-----------------------------------------------------------------------------
(***************************************************************************)
(* Requests of the player.                                                 *)
(***************************************************************************)

\* Mutant: the decision that is shown is the one for the segment being loaded.
onRequestSame(i) ==
  /\ IF i = N THEN completed' = TRUE ELSE UNCHANGED completed
  /\ advance(i)
  /\ handlers' = handlers \cup {i}

\* The callback of the interceptor.  The last segment ends the stream.
onRequest(i) ==
  IF i = N
  THEN /\ completed' = TRUE
       /\ UNCHANGED <<quality_index, handlers>>
  ELSE /\ advance(i + 1)
       /\ handlers' = handlers \cup {i}
       /\ UNCHANGED completed

\* A request seen for the first time, or that has a bypass, is announced to the
\* app; any other repetition is only logged.
openXHR(i) ==
  /\ IF i \notin done \/ Bypassed(i)
     THEN onRequest(i)
     ELSE UNCHANGED <<quality_index, handlers, completed>>
  /\ open(i)
  /\ request' = i
  /\ native' = ~ Held(i)
  /\ hit' = HitOnSend(i)
  /\ UNCHANGED <<requestVars, container, pending, rebuffers, lastRecovery, waiting>>
  /\ UNCHANGED <<want, scheduling, serverVars>>

\* The player asks for the segment it needs, in the quality getMaxIndex returns,
\* or in the lowest after an abort.
PlayerRequest ==
  /\ scheduling /\ request = None /\ want <= N
  /\ openXHR(want)
  /\ url' = IF url[want] = None
            THEN [url EXCEPT ![want] = getQuality(quality_index)]
            ELSE url
  /\ UNCHANGED retries

\* The player sends its request again.
PlayerRetry ==
  /\ request # None
  /\ retries < MaxRetries
  /\ openXHR(request)
  /\ retries' = retries + 1
  /\ UNCHANGED url

\* Mutant: the player is not stopped while its decision is missing.
loadingCompletedNoStop(i) ==
  /\ handlers' = {}
  /\ IF i \in handlers /\ pieceRequest[i + 1] = "ended"
     THEN insert(i + 1, announced[i + 1])
     ELSE UNCHANGED container
  /\ UNCHANGED <<scheduling, waiting>>

\* OnFragmentLoadingCompleted: the player is stopped until the decision for the
\* next segment is here, if that decision was asked for at all.
loadingCompleted(i) ==
  /\ handlers' = {}
  /\ IF i \in handlers /\ pieceRequest[i + 1] = "sent"
     THEN scheduling' = FALSE /\ waiting' = waiting \cup {i + 1}
     ELSE UNCHANGED <<scheduling, waiting>>
  /\ IF i \in handlers /\ pieceRequest[i + 1] = "ended"
     THEN insert(i + 1, announced[i + 1])
     ELSE UNCHANGED container

PlayerLoaded ==
  /\ loadingCompleted(request)
  /\ want' = want + 1
  /\ request' = None
  /\ hit' = FALSE
  /\ UNCHANGED <<requestVars, interceptVars, quality_index, serverVars>>
  /\ UNCHANGED <<pending, rebuffers, lastRecovery, completed>>
  /\ UNCHANGED <<native, retries, url>>

\* The timer of cacheHit completes the request the interceptor held.  Its last
\* progress event may call shouldAbandon once more, which then finds the download
\* over and adds to rebuffers a segment that it will not be asked about again.
cacheHit == request # None /\ hit /\ PlayerLoaded

\* A request that was not held is answered by the store of the server.
NativeLoad == request # None /\ native /\ PlayerLoaded

\* Mutant: the decision is taken note of, but the player is left stopped.
startAfterEndedStopped(i) ==
  /\ i \in waiting
  /\ pieceRequest[i] = "ended"
  /\ waiting' = waiting \ {i}
  /\ insert(i, announced[i])
  /\ UNCHANGED <<requestVars, interceptVars, quality_index, serverVars>>
  /\ UNCHANGED <<pending, rebuffers, lastRecovery, completed, handlers>>
  /\ UNCHANGED playerVars

\* The timer of startAfterEnded finds the decision: the player goes on.
startAfterEnded(i) ==
  /\ i \in waiting
  /\ pieceRequest[i] = "ended"
  /\ waiting' = waiting \ {i}
  /\ scheduling' = TRUE
  /\ insert(i, announced[i])
  /\ UNCHANGED <<requestVars, interceptVars, quality_index, serverVars>>
  /\ UNCHANGED <<pending, rebuffers, lastRecovery, completed, handlers>>
  /\ UNCHANGED <<want, request, native, hit, retries, url>>

\* "Detected unintended removal": the schedule controller is started.
UnintendedRemoval ==
  /\ Removals
  /\ ~ scheduling
  /\ scheduling' = TRUE
  /\ UNCHANGED <<requestVars, qualityVars, interceptVars, appVars, serverVars>>
  /\ UNCHANGED <<want, request, native, hit, retries, url>>

-----------------------------------------------------------------------------

ServerStep  == \E i \in Segments : Announce(i) \/ Serve(i)
NetworkStep == \E r \in Report : ReportArrives(r)

ProgressStep ==
  \E i \in Segments, level \in Levels :
    \/ onResourceProgress(i, level)
    \/ onResourceProgressLow(i, level)
    \/ onResourceProgressAbort(i, level)

AnswerStep == \E i \in Segments : onPieceSuccess(i) \/ onResourceSuccess(i)

PlayerStep ==
  \/ PlayerRequest \/ PlayerRetry \/ cacheHit \/ NativeLoad \/ UnintendedRemoval
  \/ \E i \in Segments : startAfterEnded(i)

Next == ServerStep \/ NetworkStep \/ ProgressStep \/ AnswerStep \/ PlayerStep

Spec == Init /\ [][Next]_vars
-----------------------------------------------------------------------------
(***************************************************************************)
(* Safety.                                                                 *)
(***************************************************************************)

\* The player asks for every segment after the first in the quality that the
\* server decided, and so takes the bytes it is handed for what they are: it is
\* stopped until the decision is known (server_side.ts, loadingCompleted), or the
\* segment was never asked for and is loaded past the interceptor.
RequestedQuality ==
  \A i \in Segments : i > 1 /\ url[i] # None /\ toIntercept[i] = "ctx" => url[i] = announced[i]

\* Even when an unintended removal starts a player that waits for a decision, it
\* asks for a segment in the decided quality or in the lowest, never in the quality
\* of another segment (QualityController.advance, getMaxIndex).
NeverAnothersQuality ==
  \A i \in Segments : url[i] # None /\ url[i] # 0 => url[i] = announced[i]

\* The player's request and the response of the pool always meet, whichever of
\* the two is first (Interceptor.onIntercept and ctx.send).
NoLostWakeup == request # None /\ ~ native /\ request \in onIntercept => hit

\* Slots are neither lost nor invented: a slot is held by a request on its way
\* or by one that was aborted, and the requests are for a prefix of the video.
SlotsAccounted ==
  /\ current = Cardinality(Outstanding) + Cardinality(Aborted)
  /\ \A i \in Segments : i <= index <=> resourceRequest[i] # "none"

\* The pool is kept full: as many resource requests are on their way as the pool
\* holds, or as there are segments left.
PoolKept ==
  Cardinality(Outstanding) =
    LET left == N - Cardinality(Downloaded \cup Aborted) IN
    IF Pool < left THEN Pool ELSE left

-----------------------------------------------------------------------------
(***************************************************************************)
(* Liveness.  The browser runs its callbacks and timers, the network       *)
(* delivers, the server answers, and the player keeps asking.              *)
(***************************************************************************)

Fairness ==
  /\ \A i \in Segments :
       /\ WF_vars(Announce(i)) /\ WF_vars(Serve(i))
       /\ WF_vars(onPieceSuccess(i)) /\ WF_vars(onResourceSuccess(i))
       /\ WF_vars(startAfterEnded(i))
  /\ \A r \in Report : WF_vars(ReportArrives(r))
  /\ WF_vars(PlayerRequest) /\ WF_vars(cacheHit) /\ WF_vars(NativeLoad)

FairSpec == Spec /\ Fairness

\* The player gets the whole video, with or without aborts and although it is
\* stopped and started over and over.
AllPlayed == <>(want = N + 1)

=============================================================================
