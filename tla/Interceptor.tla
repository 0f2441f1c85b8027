---------------------------- MODULE Interceptor -----------------------------
(***************************************************************************)
(* The interceptor of the player's own requests                            *)
(* (dash/src/component/intercept.ts).  A request of dash.js for a segment  *)
(* that was requested through the pool is held back and completed with the *)
(* response of the pool, whichever of the two comes first.                 *)
(***************************************************************************)
EXTENDS VideoInfo

VARIABLES
  toIntercept,  \* _toIntercept: undefined, null, or the held request (ctx)
  onIntercept,  \* _onIntercept: segments whose response is here
  done,         \* _done: segments requested by the player before
  bypass        \* _bypass: segments that are not intercepted again

interceptVars == <<toIntercept, onIntercept, done, bypass>>

InterceptTypeOK ==
  /\ toIntercept \in [Segments -> {"undefined", "null", "ctx"}]
  /\ onIntercept \subseteq Segments
  /\ done \subseteq Segments
  /\ bypass \subseteq Segments

\* intercept(i), for the segments that the pool has just requested.
Expect(segments) ==
  [i \in Segments |-> IF i \in segments THEN "null" ELSE toIntercept[i]]

\* newXHROpen: a segment that was requested before and has a bypass goes
\* straight to the network, with the native send.
Bypassed(i) == i \in done /\ i \in bypass

\* ctx.send: holds back what the pool has requested.
Held(i) == ~ Bypassed(i) /\ toIntercept[i] # "undefined"

\* Mutant: a request that comes after the response is not answered.
HitOnSendNever(i) == FALSE

\* ctx.send: the response is here already.
HitOnSend(i) == Held(i) /\ i \in onIntercept

\* open and send of the player's request for segment i.
open(i) ==
  /\ done' = done \cup {i}
  /\ toIntercept' = IF Held(i) THEN [toIntercept EXCEPT ![i] = "ctx"] ELSE toIntercept
  /\ UNCHANGED <<onIntercept, bypass>>
=============================================================================
