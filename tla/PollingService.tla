--------------------------- MODULE PollingService ---------------------------
(***************************************************************************)
(* The long-polling service (net/abrcc/service/poll_service.cc): a cache   *)
(* of hanging requests, one stream per path, each with the handler to call *)
(* when the answer is known.  Every call runs on the server's main thread. *)
(*                                                                         *)
(* A stream is the QUIC stream (external) that carries one request.  It is *)
(* "open" until it is answered, or until the client closes it, which       *)
(* destroys the handler the cache still points to.                         *)
(***************************************************************************)
EXTENDS Schema

CONSTANT Streams  \* identities of QUIC streams

ASSUME StreamsAssumption == None \notin Streams

VARIABLES
  stream_cache,  \* path -> stream waiting for the answer
  streams        \* stream -> its path, status and the body it was sent

pollVars == <<stream_cache, streams>>

\* "late": its handler was called after the stream was closed.
StreamStatus == {"idle", "open", "answered", "closed", "late"}

PollTypeOK ==
  /\ stream_cache \in [Path -> Streams \cup {None}]
  /\ streams \in [Streams -> [path   : Path \cup {None},
                              status : StreamStatus,
                              body   : Decision \cup Video \cup {None}]]

PollInit ==
  /\ stream_cache = [p \in Path |-> None]
  /\ streams = [s \in Streams |-> [path |-> None, status |-> "idle", body |-> None]]

-----------------------------------------------------------------------------

\* A request arrives on a fresh stream s.  A path that is already cached keeps
\* its first stream: the handler of s is forgotten.
AddRequest(s, p) ==
  /\ streams[s].status = "idle"
  /\ streams' = [streams EXCEPT ![s] = [path |-> p, status |-> "open", body |-> None]]
  /\ stream_cache' = IF stream_cache[p] = None
                     THEN [stream_cache EXCEPT ![p] = s]
                     ELSE stream_cache

\* OnResponseBackendComplete on the handler of stream s (external).
Respond(s, b) ==
  streams' = [streams EXCEPT ![s] =
    [path   |-> @.path,
     status |-> IF @.status = "open" THEN "answered" ELSE "late",
     body   |-> b]]

\* SendResponse, and GetEntry followed by the fetch from the store: answer the
\* stream cached for p and forget it.  Their callers test for the miss.
AnswerEntry(p, b) ==
  /\ Respond(stream_cache[p], b)
  /\ stream_cache' = [stream_cache EXCEPT ![p] = None]

\* The client closes its stream: CloseBackendResponseStream has an empty body,
\* the cache is not told.
CloseBackendResponseStream(s) ==
  /\ streams[s].status = "open"
  /\ streams' = [streams EXCEPT ![s].status = "closed"]
  /\ UNCHANGED stream_cache
=============================================================================
