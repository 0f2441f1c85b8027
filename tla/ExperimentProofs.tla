-------------------------- MODULE ExperimentProofs --------------------------
(***************************************************************************)
(* Proofs about the leader and its controllers, for any number of          *)
(* instances, whose requests to the leader may fail.  What holds of all of *)
(* them (MeetInv) is separated from what holds of the controllers whose    *)
(* own requests have gone through (TogetherInv).                           *)
(***************************************************************************)
EXTENDS Experiment, FiniteSetTheorems, TLAPS

\* An instance the leader takes for stopped has completed its player.
StoppedInv == \A p \in Ports : instances[p] = "STOPPED" => Ended(p)

\* There is no second request before the player has completed.
QuietInv == \A p \in Ports : ~ Ended(p) => post[p][2] = "none"

\* What holds whatever fails.
MeetInv == TypeOK /\ StoppedInv /\ QuietInv /\ NetworkWithAll /\ FinalizeLast

\* The events stand for what the controllers wait for.
EventInv ==
  /\ all_started => network
  /\ all_stopped => \A p \in Ports : Ended(p)

\* Whoever has been answered, or has gone on without a failure, was let through by
\* the event.
PassedInv ==
  \A p \in Ports \ raised :
    /\ controller[p] = "on_start" /\ post[p][1] = "ok" => all_started
    /\ ~ Before(p) => all_started
    /\ \A k \in Runs : controller[p] = "on_complete" /\ post[p][k] = "ok" => all_stopped
    /\ controller[p] \in {"destroying", "dead"} => all_stopped

\* What holds of the controllers whose requests have not failed.
TogetherInv == MeetInv /\ EventInv /\ PassedInv
-----------------------------------------------------------------------------

\* The last instance to start has found all of them: counting is enough since
\* only known ports are counted (LeaderController.started).
LEMMA LastIsAll ==
  ASSUME NEW p \in Ports,
         Cardinality(InState("STARTED") \cup {p}) = Cardinality(Ports)
  PROVE  InState("STARTED") \cup {p} = Ports
<1>1. InState("STARTED") \cup {p} \subseteq Ports
  BY DEF InState
<1> QED
  BY <1>1, FS_Subset, PortsAssumption

\* on_start keeps every instance that is known.
LEMMA StartKeepsKnown ==
  ASSUME TypeOK, NetworkWithAll, NEW p \in Ports, on_start(p)
  PROVE  NetworkWithAll'
<1> DEFINE last == Cardinality(InState("STARTED") \cup {p}) = Cardinality(Ports)
<1>1. instances' = [instances EXCEPT ![p] = "STARTED"] /\ network' = (network \/ last)
  BY DEF on_start
<1>2. ASSUME NEW q \in Ports, last  PROVE instances'[q] # "unknown"
  <2>1. q \in InState("STARTED") \cup {p}
    BY <1>2, LastIsAll
  <2> QED
    BY <1>1, <2>1 DEF InState, TypeOK
<1>3. ASSUME NEW q \in Ports, network  PROVE instances'[q] # "unknown"
  BY <1>1, <1>3 DEF NetworkWithAll, TypeOK
<1> QED
  BY <1>1, <1>2, <1>3 DEF NetworkWithAll

\* What on_destroy leaves, and that it ends the wait only for the last.
LEMMA DestroyEffect ==
  ASSUME TypeOK, NEW p \in Ports, on_destroy(p)
  PROVE  /\ instances' = [instances EXCEPT ![p] = "STOPPED"]
         /\ all_stopped' \in BOOLEAN /\ leader' \in {"up", "finalizing", "dead"}
         /\ (all_stopped' /\ ~ all_stopped) \/ leader' # leader =>
              \A q \in Ports : q = p \/ instances[q] = "STOPPED"
<1> DEFINE last == InState("STOPPED") \cup {p} = Ports
<1>1. /\ instances' = [instances EXCEPT ![p] = "STOPPED"]
      /\ all_stopped' = (all_stopped \/ last)
      /\ leader' = IF last THEN "finalizing" ELSE leader
  BY DEF on_destroy
<1>2. last => \A q \in Ports : q = p \/ instances[q] = "STOPPED"
  BY DEF InState
<1> QED
  BY <1>1, <1>2 DEF TypeOK

-----------------------------------------------------------------------------

\* A request changes its own state and no other.
LEMMA RequestEffect ==
  ASSUME TypeOK, NEW p \in Ports, NEW k \in Runs, NEW state \in PostState,
         Request(p, k, state)
  PROVE  /\ post' \in [Ports -> [Runs -> PostState]]
         /\ post'[p][k] = state
         /\ \A q \in Ports, l \in Runs : q # p \/ l # k => post'[q][l] = post[q][l]
BY DEF Request, TypeOK

LEMMA MeetInvInit == Init => MeetInv
<1> SUFFICES ASSUME Init PROVE MeetInv
  OBVIOUS
<1>1. \A p \in Ports : post[p] = [k \in Runs |-> "none"]
  BY DEF Init
<1>2. TypeOK
  BY DEF Init, TypeOK, PostState, ControllerState
<1>3. QuietInv
  BY <1>1 DEF QuietInv, Runs
<1> QED
  BY <1>2, <1>3 DEF Init, MeetInv, StoppedInv, NetworkWithAll, FinalizeLast

\* A step of a controller leaves the leader alone and never goes back from an
\* ended player.
LEMMA ControllerEffect ==
  ASSUME TypeOK, NEW p \in Ports, ControllerStep(p)
  PROVE  /\ LeaderUnchanged
         /\ controller' \in [Ports -> ControllerState]
         /\ \A q \in Ports : q # p => controller'[q] = controller[q]
         /\ raised \subseteq raised' /\ raised' \subseteq Ports
         /\ \A q \in Ports : Ended(q) => Ended(q)'
         /\ \/ UNCHANGED post
            \/ \E k \in Runs, state \in PostState : Request(p, k, state) /\ (k = 2 => Ended(p))
<1>1. 1 \in Runs
  BY DEF Runs
<1>2. CASE \E k \in Runs : DestroyAnswered(p, k) \/ DestroyRaised(p, k)
  BY <1>2 DEF DestroyAnswered, DestroyRaised, Goes, Raises, Become, TypeOK, ControllerState,
              PostState, Ended
<1>3. CASE CallStart(p) \/ StartAnswered(p) \/ StartRaised(p) \/ CallDestroy(p)
  <2>1. \E state \in PostState : Request(p, 1, state)
    BY <1>3 DEF CallStart, StartAnswered, StartRaised, CallDestroy, PostState
  <2>2. \E k \in Runs, state \in PostState : Request(p, k, state) /\ (k = 2 => Ended(p))
    BY <1>1, <2>1
  <2> QED
    BY <1>3, <2>2 DEF CallStart, StartAnswered, StartRaised, CallDestroy, Goes, Raises, Become,
                      TypeOK, ControllerState, Ended
<1>4. CASE CallDestroyAgain(p)
  <2>1. 2 \in Runs
    BY DEF Runs
  <2> QED
    BY <2>1, <1>4 DEF CallDestroyAgain, Goes, Become, TypeOK, ControllerState, PostState, Ended
<1>5. CASE SelfDestroy(p)
  BY <1>5 DEF SelfDestroy, Goes, Become, TypeOK, ControllerState, Ended
<1> QED
  BY <1>2, <1>3, <1>4, <1>5 DEF ControllerStep

LEMMA ControllerPreserves ==
  ASSUME MeetInv, NEW p \in Ports, ControllerStep(p)
  PROVE  MeetInv'
<1> USE DEF MeetInv
<1>1. post' \in [Ports -> [Runs -> PostState]]
  BY ControllerEffect, RequestEffect DEF TypeOK
<1>2. \A q \in Ports : ~ Ended(q) => post'[q][2] = post[q][2]
  <2>1. CASE UNCHANGED post
    BY <2>1
  <2>2. ASSUME NEW k \in Runs, NEW state \in PostState,
               Request(p, k, state), k = 2 => Ended(p)
        PROVE  \A q \in Ports : ~ Ended(q) => post'[q][2] = post[q][2]
    BY <2>2, RequestEffect DEF Runs
  <2> QED
    BY <2>1, <2>2, ControllerEffect
<1>3. QuietInv'
  BY <1>2, ControllerEffect DEF QuietInv
<1> QED
  BY <1>1, <1>3, ControllerEffect
     DEF LeaderUnchanged, TypeOK, StoppedInv, NetworkWithAll, FinalizeLast

\* Handlers of the leader change nothing of a controller, and the second request
\* only once the player has completed.
LEMMA LeaderPreserves ==
  ASSUME MeetInv, NEW p \in Ports, LeaderStep(p)
  PROVE  MeetInv'
<1> USE DEF MeetInv
<1>0. 1 \in Runs /\ {"waiting", "ok"} \subseteq PostState
  BY DEF Runs, PostState
<1>1. CASE HandleStart(p)
  <2>1. /\ instances' = [instances EXCEPT ![p] = "STARTED"]
        /\ all_started' \in BOOLEAN /\ network' \in BOOLEAN
        /\ Request(p, 1, "waiting")
        /\ controller[p] = "on_start"
        /\ UNCHANGED <<all_stopped, leader, controller, raised>>
    BY <1>1 DEF HandleStart, on_start, TypeOK
  <2>2. TypeOK'
    BY <1>0, <2>1, RequestEffect DEF TypeOK
  <2>3. NetworkWithAll'
    BY <1>1, StartKeepsKnown DEF HandleStart
  <2>4. QuietInv'
    BY <1>0, <2>1, RequestEffect DEF QuietInv, Ended, Runs
  <2> QED
    BY <2>1, <2>2, <2>3, <2>4 DEF TypeOK, StoppedInv, FinalizeLast, Ended
<1>2. ASSUME NEW k \in Runs, HandleDestroy(p, k) PROVE MeetInv'
  <2>1. /\ on_destroy(p) /\ Ended(p)
        /\ Request(p, k, "waiting")
        /\ UNCHANGED <<all_started, network, controller, raised>>
    BY <1>2 DEF HandleDestroy
  <2>2. TypeOK'
    BY <1>0, <2>1, DestroyEffect, RequestEffect DEF TypeOK
  <2>3. StoppedInv' /\ NetworkWithAll'
    BY <2>1, DestroyEffect DEF TypeOK, StoppedInv, NetworkWithAll, Ended
  <2>4. FinalizeLast'
    BY <2>1, DestroyEffect DEF TypeOK, StoppedInv, FinalizeLast, Ended
  <2>5. QuietInv'
    BY <1>0, <2>1, RequestEffect DEF QuietInv, Ended, Runs
  <2> QED
    BY <2>2, <2>3, <2>4, <2>5
<1>3. ASSUME NEW k \in Runs, HandleRaises(p, k) \/ Answer(p, k) PROVE MeetInv'
  <2>1. /\ Request(p, k, "ok") /\ LeaderUnchanged /\ UNCHANGED controller
        /\ raised' \subseteq Ports
        /\ Ended(p) \/ post[p][k] = "waiting"
    BY <1>3 DEF HandleRaises, Answer, TypeOK
  <2>2. TypeOK'
    BY <1>0, <2>1, RequestEffect DEF TypeOK, LeaderUnchanged
  <2>3. QuietInv'
    BY <1>0, <2>1, RequestEffect DEF QuietInv, Ended, Runs
  <2> QED
    BY <2>1, <2>2, <2>3 DEF LeaderUnchanged, StoppedInv, NetworkWithAll, FinalizeLast, Ended
<1> QED
  BY <1>1, <1>2, <1>3 DEF LeaderStep

LEMMA MeetInvNext == MeetInv /\ [Next]_vars => MeetInv'
<1> SUFFICES ASSUME MeetInv, [Next]_vars PROVE MeetInv'
  OBVIOUS
<1>1. CASE finalize
  BY <1>1 DEF finalize, MeetInv, TypeOK, StoppedInv, QuietInv, NetworkWithAll,
              FinalizeLast, Ended
<1>2. CASE UNCHANGED vars
  BY <1>2 DEF vars, MeetInv, TypeOK, StoppedInv, QuietInv, NetworkWithAll, FinalizeLast,
              Ended
<1> QED
  BY <1>1, <1>2, ControllerPreserves, LeaderPreserves DEF Next

\* MeetInv is an invariant of the experiment.
THEOREM MeetInvariant == Spec => []MeetInv
BY MeetInvInit, MeetInvNext, PTL DEF Spec

\* The state of leader and controllers keeps its type.
THEOREM ExperimentTypeCorrect == Spec => []TypeOK
BY MeetInvariant, PTL DEF MeetInv

\* Whatever fails, the network emulation starts only once every instance has
\* contacted the leader (LeaderController.on_start).
THEOREM NetworkCoversAll == Spec => []NetworkWithAll
BY MeetInvariant, PTL DEF MeetInv

\* Whatever fails, the leader begins to kill the browsers only when every player
\* has completed (LeaderController.on_destroy, finalize).
THEOREM FinalizesLast == Spec => []FinalizeLast
BY MeetInvariant, PTL DEF MeetInv

-----------------------------------------------------------------------------

LEMMA TogetherInvInit == Init => TogetherInv
BY MeetInvInit DEF Init, TogetherInv, EventInv, PassedInv, Before, Runs

\* A controller goes on by what the leader has answered; a request begins unanswered.
LEMMA ControllerPreservesPassed ==
  ASSUME TogetherInv, NEW p \in Ports, ControllerStep(p)
  PROVE  EventInv' /\ PassedInv'
<1> USE DEF TogetherInv, MeetInv
<1>0. Runs = {1, 2} /\ PostState = {"none", "sent", "waiting", "ok", "failed"}
  BY DEF Runs, PostState
<1>1. EventInv'
  BY ControllerEffect DEF EventInv, LeaderUnchanged
<1>2. ASSUME NEW q \in Ports \ raised', q # p
      PROVE  /\ controller'[q] = controller[q] /\ q \in Ports \ raised
             /\ \A l \in Runs : post'[q][l] = post[q][l]
  BY <1>2, ControllerEffect, RequestEffect
<1> DEFINE Passed(q) ==
      /\ controller[q] = "on_start" /\ post[q][1] = "ok" => all_started
      /\ ~ Before(q) => all_started
      /\ \A k \in Runs : controller[q] = "on_complete" /\ post[q][k] = "ok" => all_stopped
      /\ controller[q] \in {"destroying", "dead"} => all_stopped
<1>3. ASSUME p \notin raised' PROVE Passed(p)'
  <2>0. p \notin raised /\ Passed(p) /\ LeaderUnchanged
    BY <1>3, ControllerEffect DEF PassedInv
  <2>1. CASE CallStart(p)
    <3>1. controller'[p] = "on_start" /\ post'[p][1] = "sent"
      BY <1>0, <2>1, RequestEffect DEF CallStart, Goes, Become, TypeOK
    <3> QED
      BY <3>1 DEF Before
  <2>2. CASE StartAnswered(p)
    <3>1. controller'[p] = "playing" /\ all_started
      BY <2>0, <2>2 DEF StartAnswered, Goes, Become, TypeOK
    <3> QED
      BY <2>0, <3>1 DEF Before, LeaderUnchanged
  <2>3. CASE StartRaised(p) \/ \E k \in Runs : DestroyRaised(p, k)
    BY <1>3, <2>3 DEF StartRaised, DestroyRaised, Raises
  <2>4. CASE CallDestroy(p)
    <3>1. controller[p] = "playing" /\ controller'[p] = "on_complete"
      BY <2>4 DEF CallDestroy, Goes, Become, TypeOK
    <3>2. post'[p][1] = "sent" /\ post'[p][2] = "none"
      BY <1>0, <2>4, <3>1, RequestEffect DEF CallDestroy, QuietInv, Ended
    <3> QED
      BY <1>0, <2>0, <3>1, <3>2 DEF Before, LeaderUnchanged
  <2>5. CASE CallDestroyAgain(p)
    <3>1. controller[p] = "on_complete" /\ controller'[p] = "on_complete"
      BY <2>5 DEF CallDestroyAgain, Goes, Become, TypeOK
    <3>2. \A l \in Runs : post'[p][l] = "ok" => post[p][l] = "ok"
      BY <1>0, <2>5, RequestEffect DEF CallDestroyAgain
    <3> QED
      BY <2>0, <3>1, <3>2 DEF Before, LeaderUnchanged
  <2>6. ASSUME NEW k \in Runs, DestroyAnswered(p, k) PROVE Passed(p)'
    <3>1. controller[p] = "on_complete" /\ controller'[p] = "destroying" /\ post[p][k] = "ok"
      BY <2>6 DEF DestroyAnswered, Goes, Become, TypeOK
    <3> QED
      BY <2>0, <3>1 DEF Before, LeaderUnchanged
  <2>7. CASE SelfDestroy(p)
    <3>1. controller[p] = "destroying" /\ controller'[p] = "dead"
      BY <2>7 DEF SelfDestroy, Goes, Become, TypeOK
    <3> QED
      BY <2>0, <3>1 DEF Before, LeaderUnchanged
  <2> QED
    BY <2>1, <2>2, <2>3, <2>4, <2>5, <2>6, <2>7 DEF ControllerStep
<1>4. ASSUME NEW q \in Ports \ raised', q # p PROVE Passed(q)'
  <2>1. Passed(q) /\ UNCHANGED <<all_started, all_stopped>>
    BY <1>2, <1>4, ControllerEffect DEF PassedInv, LeaderUnchanged
  <2>2. Before(q)' <=> Before(q)
    BY <1>2, <1>4 DEF Before
  <2>3. controller'[q] = controller[q] /\ \A l \in Runs : post'[q][l] = post[q][l]
    BY <1>2, <1>4
  <2>4. 1 \in Runs
    BY <1>0
  <2> QED
    BY <2>1, <2>2, <2>3, <2>4
<1> QED
  BY <1>1, <1>3, <1>4 DEF PassedInv

\* The leader answers whom an event lets through, or else the request has failed.
LEMMA LeaderPreservesPassed ==
  ASSUME TogetherInv, NEW p \in Ports, LeaderStep(p)
  PROVE  EventInv' /\ PassedInv'
<1> USE DEF TogetherInv, MeetInv
<1>0. 1 \in Runs /\ {"waiting", "ok"} \subseteq PostState
  BY DEF Runs, PostState
<1>1. CASE HandleStart(p)
  <2>1. /\ all_started => all_started'
        /\ all_started' => network'
        /\ Request(p, 1, "waiting")
        /\ UNCHANGED <<all_stopped, controller, raised>>
    BY <1>1 DEF HandleStart, on_start, EventInv
  <2>2. \A q \in Ports, l \in Runs : post'[q][l] = "ok" => post[q][l] = "ok"
    BY <1>0, <2>1, RequestEffect
  <2> QED
    BY <1>0, <2>1, <2>2 DEF EventInv, PassedInv, Before, Ended
<1>2. ASSUME NEW k \in Runs, HandleDestroy(p, k) PROVE EventInv' /\ PassedInv'
  <2>1. /\ on_destroy(p) /\ Ended(p)
        /\ all_stopped => all_stopped'
        /\ Request(p, k, "waiting")
        /\ UNCHANGED <<all_started, network, controller, raised>>
    BY <1>2 DEF HandleDestroy, on_destroy
  <2>2. all_stopped' => \A q \in Ports : Ended(q)
    BY <2>1, DestroyEffect DEF EventInv, StoppedInv, Ended
  <2>3. \A q \in Ports, l \in Runs : post'[q][l] = "ok" => post[q][l] = "ok"
    BY <1>0, <2>1, RequestEffect
  <2> QED
    BY <1>0, <2>1, <2>2, <2>3 DEF EventInv, PassedInv, Before, Ended
<1>3. ASSUME NEW k \in Runs, HandleRaises(p, k) PROVE EventInv' /\ PassedInv'
  <2>1. /\ LeaderUnchanged /\ UNCHANGED controller
        /\ raised' = raised \cup {p} /\ Request(p, k, "ok")
    BY <1>3 DEF HandleRaises
  <2>2. \A q \in Ports \ raised', l \in Runs : post'[q][l] = post[q][l]
    BY <1>0, <2>1, RequestEffect
  <2> QED
    BY <1>0, <2>1, <2>2 DEF LeaderUnchanged, EventInv, PassedInv, Before, Ended
<1>4. ASSUME NEW k \in Runs, Answer(p, k) PROVE EventInv' /\ PassedInv'
  <2>1. /\ Awaited(p) /\ Request(p, k, "ok")
        /\ UNCHANGED <<controller, raised, all_started, all_stopped, network>>
    BY <1>4 DEF Answer, LeaderUnchanged
  <2>2. /\ controller[p] = "on_start" => all_started
        /\ controller[p] = "on_complete" => all_stopped
    BY <2>1 DEF Awaited
  <2>3. \A q \in Ports, l \in Runs : q # p => post'[q][l] = post[q][l]
    BY <1>0, <2>1, RequestEffect
  <2> QED
    BY <1>0, <2>1, <2>2, <2>3 DEF EventInv, PassedInv, Before, Ended
<1> QED
  BY <1>1, <1>2, <1>3, <1>4 DEF LeaderStep

LEMMA TogetherInvNext == TogetherInv /\ [Next]_vars => TogetherInv'
<1> SUFFICES ASSUME TogetherInv, [Next]_vars PROVE EventInv' /\ PassedInv'
  BY MeetInvNext DEF TogetherInv
<1>1. CASE finalize \/ UNCHANGED vars
  BY <1>1 DEF finalize, vars, TogetherInv, EventInv, PassedInv, Before, Ended
<1> QED
  BY <1>1, ControllerPreservesPassed, LeaderPreservesPassed DEF Next

LEMMA TogetherInvImplies == TogetherInv => StartTogether /\ StopTogether
BY DEF TogetherInv, MeetInv, EventInv, PassedInv, NetworkWithAll,
       StartTogether, StopTogether

\* Whoever else fails, a player whose own request went through starts only when the
\* network emulation runs for all of them (Controller.on_start).
THEOREM PlayersStartTogether == Spec => []StartTogether
BY TogetherInvInit, TogetherInvNext, TogetherInvImplies, PTL DEF Spec

\* Whoever else fails, a controller whose own requests went through ends only when
\* every player has completed (Controller.on_complete).
THEOREM ControllersStopTogether == Spec => []StopTogether
BY TogetherInvInit, TogetherInvNext, TogetherInvImplies, PTL DEF Spec
=============================================================================
