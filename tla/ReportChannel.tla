--------------------------- MODULE ReportChannel ----------------------------
(***************************************************************************)
(* What the front-end promises of its reports on segments: a report that   *)
(* was registered is held until a request carries it or a newer report on  *)
(* the progress of the same download takes its place, and arrives unless   *)
(* that request fails.                                                     *)
(***************************************************************************)
CONSTANTS
  Reports,       \* the reports
  Newer(_, _),   \* Newer(r, s): r makes s superfluous
  MayFail        \* may requests fail?

VARIABLES
  held,     \* registered and not handed to a request yet
  sent,     \* handed to a request that is on its way
  arrived

Init == held = {} /\ sent = {} /\ arrived = {}

\* Reports are registered or handed to a request; one that is held goes only into a
\* request or for a newer one, and one that is on its way stays there.
Register ==
  /\ held' \subseteq Reports
  /\ sent' \subseteq Reports /\ sent \subseteq sent'
  /\ \A s \in held \ held' : s \in sent' \/ \E r \in held' \cup sent' : Newer(r, s)
  /\ UNCHANGED arrived

\* Reports on their way arrive, several at a time.
Deliver ==
  /\ sent' \subseteq sent
  /\ arrived \subseteq arrived'
  /\ arrived' \subseteq arrived \cup sent
  /\ sent \ sent' \subseteq arrived'
  /\ UNCHANGED held

\* Reports on their way are lost with their request; those that are held are not.
Lose ==
  /\ MayFail
  /\ sent' \subseteq sent
  /\ UNCHANGED <<held, arrived>>

Next == Register \/ Deliver \/ Lose

Spec == Init /\ [][Next]_<<held, sent, arrived>>
=============================================================================
