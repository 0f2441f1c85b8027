----------------------------- MODULE Experiment -----------------------------
(***************************************************************************)
(* A run with several video instances: the leader (exp/leader.py) and one  *)
(* controller per instance (exp/controller.py).  Controllers meet at the   *)
(* leader twice: before the players start, so that the network emulation   *)
(* starts for all of them, and before they are destroyed.                  *)
(*                                                                         *)
(* Both sides are asyncio programs: a handler runs from one await to the   *)
(* next without interruption.  A handler of the leader that waits for an   *)
(* event keeps the request of its controller open.  When Failures is set,  *)
(* such a request may fail under the controller: it is sent without a      *)
(* timeout of its own, and the client library gives up after a while.      *)
(***************************************************************************)
EXTENDS Integers, FiniteSets

CONSTANTS
  Ports,    \* the instances, by the port of their server
  Failures  \* may requests to the leader fail?

ASSUME PortsAssumption    == IsFiniteSet(Ports) /\ Ports # {}
ASSUME FailuresAssumption == Failures \in BOOLEAN

VARIABLES
  instances,    \* leader: state of every instance, "unknown" if it never called
  all_started,  \* leader: event
  all_stopped,  \* leader: event
  network,      \* leader: the network emulation runs
  leader,       \* leader process: "up", "finalizing" or "dead"
  post,         \* requests of the controllers to the leader
  controller,   \* state of every controller
  raised        \* history: controllers whose request to the leader has failed

vars == <<instances, all_started, all_stopped, network, leader, post, controller, raised>>

ControllerState ==
  {"init", "on_start", "playing", "on_complete", "destroying", "dead"}

\* The page may complete twice (endOfStream, PLAYBACK_ENDED, the request after the
\* last segment), and on_complete then runs twice: each run has a request.
Runs == 1 .. 2

\* "sent": the leader has not seen it; "waiting": its handler waits for an event.
PostState == {"none", "sent", "waiting", "ok", "failed"}

TypeOK ==
  /\ instances \in [Ports -> {"unknown", "STARTED", "STOPPED"}]
  /\ all_started \in BOOLEAN
  /\ all_stopped \in BOOLEAN
  /\ network \in BOOLEAN
  /\ leader \in {"up", "finalizing", "dead"}
  /\ post \in [Ports -> [Runs -> PostState]]
  /\ controller \in [Ports -> ControllerState]
  /\ raised \subseteq Ports

Init ==
  /\ instances = [p \in Ports |-> "unknown"]
  /\ all_started = FALSE
  /\ all_stopped = FALSE
  /\ network = FALSE
  /\ leader = "up"
  /\ post = [p \in Ports |-> [k \in Runs |-> "none"]]
  /\ controller = [p \in Ports |-> "init"]
  /\ raised = {}

InState(state) == {p \in Ports : instances[p] = state}

-----------------------------------------------------------------------------
\* Controllers.

Become(p, from, to) ==
  /\ controller[p] = from
  /\ controller' = [controller EXCEPT ![p] = to]

Goes(p, from, to)   == Become(p, from, to) /\ UNCHANGED raised
Raises(p, from, to) == Become(p, from, to) /\ raised' = raised \cup {p}

Request(p, k, state) == post' = [post EXCEPT ![p][k] = state]

LeaderUnchanged == UNCHANGED <<instances, all_started, all_stopped, network, leader>>

\* The page asks to start, and the controller synchronizes with the leader.
CallStart(p) == Goes(p, "init", "on_start") /\ Request(p, 1, "sent") /\ LeaderUnchanged

\* The answer of the leader ...
StartAnswered(p) ==
  /\ post[p][1] = "ok"
  /\ Goes(p, "on_start", "playing")
  /\ Request(p, 1, "none")
  /\ LeaderUnchanged

\* ... or an exception, which is logged: the page is told OK all the same.
StartRaised(p) ==
  /\ Failures
  /\ post[p][1] \in {"sent", "waiting"}
  /\ Raises(p, "on_start", "playing")
  /\ Request(p, 1, "none")
  /\ LeaderUnchanged

\* The stream is over: browser and server are stopped, then the leader is told ...
CallDestroy(p) == Goes(p, "playing", "on_complete") /\ Request(p, 1, "sent") /\ LeaderUnchanged

\* ... and told again for a second completion that was on its way.
CallDestroyAgain(p) ==
  /\ post[p][2] = "none"
  /\ Goes(p, "on_complete", "on_complete")
  /\ Request(p, 2, "sent")
  /\ LeaderUnchanged

DestroyAnswered(p, k) ==
  /\ post[p][k] = "ok"
  /\ Goes(p, "on_complete", "destroying")
  /\ Request(p, k, "none")
  /\ LeaderUnchanged

\* Nothing catches an exception here: this run of on_complete goes no further.
DestroyRaised(p, k) ==
  /\ Failures \/ leader = "dead"
  /\ post[p][k] \in {"sent", "waiting"}
  /\ Raises(p, "on_complete", "on_complete")
  /\ Request(p, k, "failed")
  /\ LeaderUnchanged

\* Controller.on_destroy: the process kills itself.
SelfDestroy(p) == Goes(p, "destroying", "dead") /\ UNCHANGED post /\ LeaderUnchanged

-----------------------------------------------------------------------------
\* Leader.

\* Mutant: the network emulation starts with the first instance.
on_startAtFirst(p) ==
  /\ instances' = [instances EXCEPT ![p] = "STARTED"]
  /\ all_started' = TRUE
  /\ network' = TRUE

\* The last instance to start starts the emulation and wakes up the others;
\* Network.run, which is awaited in between, does not suspend.
on_start(p) ==
  LET last == Cardinality(InState("STARTED") \cup {p}) = Cardinality(Ports) IN
  /\ instances' = [instances EXCEPT ![p] = "STARTED"]
  /\ all_started' = (all_started \/ last)
  /\ network' = (network \/ last)

\* Mutant: waits for the instances that have started, not for all.
on_destroyStarted(p) ==
  LET last == InState("STARTED") \subseteq {p} IN
  /\ instances' = [instances EXCEPT ![p] = "STOPPED"]
  /\ all_stopped' = (all_stopped \/ last)
  /\ leader' = IF last THEN "finalizing" ELSE leader

\* Mutant: counts the stopped instances before it stops p.
on_destroyCountFirst(p) ==
  LET last == InState("STOPPED") = Ports IN
  /\ instances' = [instances EXCEPT ![p] = "STOPPED"]
  /\ all_stopped' = (all_stopped \/ last)
  /\ leader' = IF last THEN "finalizing" ELSE leader

\* The last instance to stop wakes up the others and starts the finalization.
on_destroy(p) ==
  LET last == InState("STOPPED") \cup {p} = Ports IN
  /\ instances' = [instances EXCEPT ![p] = "STOPPED"]
  /\ all_stopped' = (all_stopped \/ last)
  /\ leader' = IF last THEN "finalizing" ELSE leader

Ended(p) == controller[p] \in {"on_complete", "destroying", "dead"}

Handle(p, k) == leader # "dead" /\ post[p][k] = "sent"

HandleStart(p) ==
  /\ Handle(p, 1) /\ controller[p] = "on_start"
  /\ on_start(p)
  /\ Request(p, 1, "waiting")
  /\ UNCHANGED <<all_stopped, leader, controller, raised>>

\* OnComplete saves the logs, then on_destroy runs.
HandleDestroy(p, k) ==
  /\ Handle(p, k) /\ Ended(p) /\ instances[p] # "unknown"
  /\ on_destroy(p)
  /\ Request(p, k, "waiting")
  /\ UNCHANGED <<all_started, network, controller, raised>>

\* OnComplete or instances[port] raises: the answer is an error, which the controller
\* does not look at.
HandleRaises(p, k) ==
  /\ Handle(p, k) /\ Ended(p)
  /\ Failures \/ instances[p] = "unknown"
  /\ Request(p, k, "ok")
  /\ raised' = raised \cup {p}
  /\ UNCHANGED controller /\ LeaderUnchanged

\* Mutant: does not wait for the others.
AwaitedNothing(p) == TRUE

\* Mutant: does not wait for the others to stop.
AwaitedAtStart(p) == controller[p] = "on_start" => all_started

\* The event the handler waits for.
Awaited(p) == IF controller[p] = "on_start" THEN all_started ELSE all_stopped

Answer(p, k) ==
  /\ leader # "dead"
  /\ post[p][k] = "waiting" /\ Awaited(p)
  /\ Request(p, k, "ok")
  /\ UNCHANGED <<controller, raised>> /\ LeaderUnchanged

\* The leader ends some seconds after the last instance stopped, which is time
\* enough for its answers to go out.
finalize ==
  /\ leader = "finalizing"
  /\ \A p \in Ports, k \in Runs : post[p][k] # "waiting"
  /\ leader' = "dead"
  /\ UNCHANGED <<instances, all_started, all_stopped, network, post, controller, raised>>

-----------------------------------------------------------------------------

ControllerStep(p) ==
  \/ CallStart(p) \/ StartAnswered(p) \/ StartRaised(p)
  \/ CallDestroy(p) \/ CallDestroyAgain(p) \/ SelfDestroy(p)
  \/ \E k \in Runs : DestroyAnswered(p, k) \/ DestroyRaised(p, k)

LeaderStep(p) ==
  HandleStart(p) \/ \E k \in Runs : HandleDestroy(p, k) \/ HandleRaises(p, k) \/ Answer(p, k)

Next == finalize \/ \E p \in Ports : ControllerStep(p) \/ LeaderStep(p)

Spec == Init /\ [][Next]_vars

\* Requests need not fail: fairness is on the steps that succeed.
Fairness ==
  /\ WF_vars(finalize)
  /\ \A p \in Ports :
       /\ WF_vars(LeaderStep(p))
       /\ WF_vars(CallStart(p) \/ StartAnswered(p) \/ CallDestroy(p) \/ SelfDestroy(p)
                   \/ \E k \in Runs : DestroyAnswered(p, k))

FairSpec == Spec /\ Fairness
-----------------------------------------------------------------------------

Before(p) == controller[p] \in {"init", "on_start"}

\* Whoever else fails, a player whose own request to the leader went through starts
\* only when every instance has contacted the leader and the network emulation
\* runs (LeaderController.on_start, Controller.on_start).
StartTogether ==
  \A p \in Ports \ raised :
    ~ Before(p) => network /\ \A q \in Ports : instances[q] # "unknown"

\* Whoever else fails, a controller whose own requests went through ends only when
\* every player has completed (Controller.on_complete, LeaderController.on_destroy).
StopTogether ==
  \A p \in Ports \ raised :
    controller[p] \in {"destroying", "dead"} => \A q \in Ports : Ended(q)

\* Whatever fails, the network emulation waits for every instance to be known, so
\* that it covers the ports of all of them.
NetworkWithAll == network => \A p \in Ports : instances[p] # "unknown"

\* Whatever fails, the leader, whose finalization kills every browser, begins it
\* only when every player has completed.
FinalizeLast == leader # "up" => \A p \in Ports : Ended(p)

\* Unless a request fails, every controller destroys itself in the end, and the
\* leader ends.
AllDestroyed ==
  [](raised = {}) => <>(leader = "dead" /\ \A p \in Ports : controller[p] = "dead")
=============================================================================
