--------------------------- MODULE SegmentDelivery --------------------------
(***************************************************************************)
(* What the server promises its client, without threads, mailboxes or      *)
(* streams: for i = 1, 2, ... it announces the quality of segment i and    *)
(* then serves segment i in that quality.  Nothing is announced before the *)
(* previous segment is served, and nothing is announced or served twice.   *)
(***************************************************************************)
EXTENDS Integers

CONSTANTS Qualities, None

VARIABLES
  announced,  \* segment -> announced quality, None if not announced
  served      \* segment -> quality served, None if not served

deliveryVars == <<announced, served>>

Init ==
  /\ announced = [i \in DOMAIN announced |-> None]
  /\ served = [i \in DOMAIN announced |-> None]

Announce(i, q) ==
  /\ announced[i] = None
  /\ \A j \in DOMAIN announced : j < i => served[j] # None
  /\ announced' = [announced EXCEPT ![i] = q]
  /\ UNCHANGED served

Serve(i) ==
  /\ announced[i] # None
  /\ served[i] = None
  /\ served' = [served EXCEPT ![i] = announced[i]]
  /\ UNCHANGED announced

Next == \E i \in DOMAIN announced : Serve(i) \/ \E q \in Qualities : Announce(i, q)

Spec == Init /\ [][Next]_deliveryVars
=============================================================================
