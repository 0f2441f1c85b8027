-------------------------- MODULE RequestController -------------------------
(***************************************************************************)
(* The pool of long-polling requests of the front-end                      *)
(* (dash/src/controller/request.ts).  For every segment it sends a piece   *)
(* request, answered with the decision, and a resource request, answered   *)
(* with the data.  At most Pool resource requests are on their way.        *)
(***************************************************************************)
EXTENDS VideoInfo, FiniteSets

CONSTANT Pool  \* POOL_SIZE

ASSUME PoolAssumption == Pool \in Nat \ {0}

VARIABLES
  current,         \* _current: slots of the pool in use
  index,           \* _index: segments 1 .. index have been requested
  pieceRequest,    \* _pieceRequests
  resourceRequest  \* _resourceRequests, with the progress of the download

requestVars == <<current, index, pieceRequest, resourceRequest>>

\* "almost": at least 80% of the bytes are here.
Hanging == {"sent", "loading", "almost"}

RequestTypeOK ==
  /\ current \in 0 .. Pool
  /\ index \in 0 .. N
  /\ pieceRequest \in [Segments -> {"none", "sent", "ended"}]
  /\ resourceRequest \in [Segments -> Hanging \cup {"none", "done", "aborted"}]

\* Segments whose resource request has not ended.
Outstanding == {i \in Segments : resourceRequest[i] \in Hanging}
Aborted     == {i \in Segments : resourceRequest[i] = "aborted"}
Downloaded  == {i \in Segments : resourceRequest[i] = "done"}

\* Mutant: one more request than there are slots.
MoreByOne(cur) == IF Pool - cur < N - index THEN Pool - cur + 1 ELSE N - index

\* How many requests _request() sends before it returns, with cur slots in use.
More(cur) == IF Pool - cur < N - index THEN Pool - cur ELSE N - index

\* The requests sent by _request().
Sent(cur) == index + 1 .. index + More(cur)

SendTo(requests, segments) ==
  [i \in Segments |-> IF i \in segments THEN "sent" ELSE requests[i]]

\* start(): fills the pool.
RequestInit ==
  LET first == IF Pool < N THEN Pool ELSE N IN
  /\ current = first
  /\ index = first
  /\ pieceRequest = [i \in Segments |-> IF i <= first THEN "sent" ELSE "none"]
  /\ resourceRequest = pieceRequest

\* onSuccess of the piece request.
pieceSuccess(i) ==
  /\ pieceRequest[i] = "sent"
  /\ pieceRequest' = [pieceRequest EXCEPT ![i] = "ended"]
  /\ UNCHANGED <<current, index, resourceRequest>>

\* onProgress of the resource request.
resourceProgress(i, level) ==
  /\ resourceRequest[i] \in Hanging
  /\ resourceRequest[i] = "almost" => level = "almost"
  /\ resourceRequest' = [resourceRequest EXCEPT ![i] = level]
  /\ UNCHANGED <<current, index, pieceRequest>>

\* onAbort of the resource request: the slot is not given back.
resourceAbort(i) ==
  /\ resourceRequest[i] \in Hanging
  /\ resourceRequest' = [resourceRequest EXCEPT ![i] = "aborted"]
  /\ UNCHANGED <<current, index, pieceRequest>>

\* Mutant: forgets to give the slot back.
resourceSuccessKeepSlot(i) ==
  /\ resourceRequest[i] \in Hanging
  /\ current' = current + More(current)
  /\ index' = index + More(current)
  /\ pieceRequest' = SendTo(pieceRequest, Sent(current))
  /\ resourceRequest' = SendTo([resourceRequest EXCEPT ![i] = "done"], Sent(current))

\* onSuccessResponse of the resource request: the slot goes to the next segment.
resourceSuccess(i) ==
  LET cur == current - 1 IN
  /\ resourceRequest[i] \in Hanging
  /\ current' = cur + More(cur)
  /\ index' = index + More(cur)
  /\ pieceRequest' = SendTo(pieceRequest, Sent(cur))
  /\ resourceRequest' = SendTo([resourceRequest EXCEPT ![i] = "done"], Sent(cur))
=============================================================================
