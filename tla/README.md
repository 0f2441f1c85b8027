# Verification of the cross-layer streaming system

The repository streams video adaptively: a QUIC server (`quic/`) that takes the
bitrate decisions, a wrapper of the DASH.js player (`dash/`) that lets the server
decide, and a harness (`exp/`) that runs several players over an emulated network.
This directory holds TLA+ models of its concurrent core, TLC configurations that
check them on small instances, and TLAPS proofs for every instance.

Paths below are relative to `quic/chromium/src/net/abrcc/`, `dash/src/` or `exp/`.

## Inventory

### Server (`abrcc/`)

| Part | State | Operations | Interacts with |
|---|---|---|---|
| `DashBackend` (`dash_backend.cc`) | none of its own | `FetchResponseFromBackend`, `CloseBackendResponseStream` | QUIC streams call it on the main thread; calls the services |
| `PollingService` (`service/poll_service.cc`) | `stream_cache`: path to hanging request | `AddRequest`, `SendResponse`, `GetEntry` | `DashBackend` adds, the tasks of `AbrLoop` answer |
| `MetricsService` (`service/metrics_service.cc`) | `metrics`, `aborts`, `mutex_` | `AddMetrics`, `GetMetrics`, `AddAbort`, `GetAborts` | main thread writes, worker drains |
| `AbrLoop` (`abr/loop.cc`) | `sent`; flags `sent`, `done` on the worker's stack | `Loop`, `Respond`, `SendPiece` | worker posts tasks to the main thread and spins on `done` |
| `SegmentProgressAbr` (`abr/abr_base.cc`) | `last_segment`, `decisions`, `aborted`, `decision_index`, `last_timestamp` | `registerMetrics`, `registerAbort`, `should_send`, `decide` | worker thread only |
| `StoreService` | files, fixed after start-up | fetch | read only |
| ABR algorithms (`abr_gap`, `abr_target`, `abr_worthed`, `abr_remote`, `BBAbr`: subclasses; `abr_minerva`: on its own) | floating-point estimates | `decideQuality` | read congestion control through a singleton |
| Congestion control (`cc/gap.cc`, `target.cc`, `bbr_adapter.cc`, `minerva.cc`) | mode, recovery state, gain cycle, round trips, windows | `OnPacketSent`, `OnCongestionEvent`, `SetFromConfig`, `AdjustNetworkParameters` | one controller per connection; shares `BbrInterface` with the ABR thread |
| `BbrInterface`, `SingletonBuilder`, `CCWrapper` (`cc/`) | `parent`, `deliveryRates`, gain cycle; a file in `/tmp` | `GetInstance`, `setParent`, `popDeliveryRates`, `RttEstimate` | every connection and the ABR of a process |

Hard: two threads that share a mailbox under a mutex and a set without one; a task
that writes into the stack frame of another thread; decisions that are ready before
the client asks; reports on independent streams that overtake each other; streams
that die while a raw pointer to them is cached; a congestion controller whose modes and
recovery states change several times in one event. Correct means: segments are delivered
in order, each decided once, answered once, on evidence, and what is announced is
what is served; no report is lost; every path that is polled is answered. A connection
may always send, leaves PROBE_RTT and recovery, and tells the ABR of its own process
what it measured, once.

### Front-end (`dash/src/`)

| Part | State | Operations | Interacts with |
|---|---|---|---|
| `RequestController` (`controller/request.ts`) | `_current`, `_index`, the two tables of requests | `_request`, callbacks of the two kinds of request | server, callbacks of the app |
| `QualityController` (`controller/quality.ts`, `common/cache.ts`) | `_index`, cache of decisions | `advance`, `addPiece`, `getQuality` | app writes; ABR rule reads |
| `Interceptor` (`component/intercept.ts`) | `_toIntercept`, `_onIntercept`, `_done`, `_bypass` | overridden `open` and `send`, `onIntercept`, `progress` | the player's requests, responses of the pool |
| ABR and abandon rule (`component/abr.js`) | `rebuffers`, `lastRecoveryIndex` | `getMaxIndex`, `shouldAbandon` | called by the player |
| `ServerSideApp` (`apps/server_side.ts`) | none of its own | the callbacks that tie the above together | stops and starts the player |
| Stats (`controller/stats.ts`, `component/stats.ts`) | reports on segments and measured values, by timestamp | add, serialize, advance; a tick | app, server, monitor |
| `FrontEndApp`, `algo/*`, `consistency.ts`, `backend.ts` | per-request decisions, logs, builders | | |

Hard: everything is a callback, so the question is the order of the callbacks. The
decision and the data of a segment come on different streams, the player may ask
before or after either, it is stopped while a decision is missing, and it may abort
a download in the middle of a progress event. Correct means: the player asks for the
quality that the server decided; its request and the response always meet; no slot
of the pool is lost; the whole video is played; the end of a download is reported once.

### Experiment (`exp/`)

| Part | State | Operations | Interacts with |
|---|---|---|---|
| `LeaderController` (`leader.py`) | `instances`, two events | `on_start`, `on_destroy`, `finalize` | controllers, network emulation |
| `Controller` (`controller.py`) | subprocesses | `on_init`, `on_start`, `on_complete`, `on_destroy` | leader, page, server |
| `Monitor` (`components/monitor.py`) | `index`, `segments`, `vmaf_previous` | `compute_qoe`, `advance`, `check_quality` | page |
| `server/`, `scripts/`, `crawler/`, `abr/`, plots | | I/O | |

Hard: two barriers among processes whose requests may fail; reports to the monitor that
are repeated, lost and overtake each other. Correct means: players start together under
the emulated network, nobody is torn down while a player runs, every process ends, and a
sample is about the segment it is published for.

## Modules

    Schema <- SegmentProgressAbr, PollingService, MetricsService <- DashServer
    SegmentDelivery      (abstract; DashServer implements it, ServerSideApp uses it)
    VideoInfo <- RequestController, QualityController, Interceptor <- ServerSideApp
    ReportChannel        (abstract; Stats implements it)
    Bbr    CcInterface    Experiment    Monitor
    DashServer <- DashServerProofs <- ReportProofs
    ServerSideApp <- ServerSideAppProofs    Stats <- StatsProofs
    Bbr <- BbrProofs    Experiment <- ExperimentProofs
    CcInterface <- CcInterfaceProofs    Monitor <- MonitorProofs

* **Schema**: reports, decisions, and the paths `/request/i` and `/piece/i` as pairs.
  Segments are `1 .. N`; decisions range over `1 .. N + 1`, since `decide()` has no
  upper bound.
* **SegmentProgressAbr**: the base class. `decideQuality` is any quality, so the
  results hold for all subclasses; `MinervaAbr`, which implements `AbrInterface` without
  this base class, is not covered.
* **PollingService**: a stream is idle, open, answered, closed, or *late* (its handler
  was called after it was closed, which in the code is a use of freed memory; the
  model records it and goes on).
* **MetricsService**: `GetMetrics` is two steps, move and reset, inside the lock, so
  that the atomicity is the mutex's merit and not the model's.
* **DashServer**: one action per kind of request (main thread), per posted task, and
  per atomic step of the worker's loop. The request and the piece part of `Loop` are
  the same code twice and one set of actions with a parameter. History variables
  `received` and `registered` record what entered and left the mailbox.
* **SegmentDelivery**: announce segment i, serve it in that quality, go on.
* **RequestController, QualityController, Interceptor**: the state and the steps of the
  three parts. **ServerSideApp** composes them into whole callbacks, with the player
  (external: asks for one segment after the other while its schedule controller runs,
  may repeat a request) and the server as `INSTANCE SegmentDelivery`, which answers
  what was polled and releases decisions on the evidence that `should_send` wants.
  Reports are a set: they wait for a tick and travel on streams of their own, so they
  arrive in any order.
* **Stats**: the StatsController, the tick of the tracker with its clock (the values of
  one tick are created one after the other, so the clock may move inside a tick), and
  requests that run side by side and may fail. **ReportChannel** is what the rest of the
  front-end relies on, the reports of `ServerSideApp` being this channel without losses:
  a registered report is held until a request carries it or newer progress supersedes it,
  and arrives unless that request fails. `Stats` implements it with `held` = what the
  controller holds and `sent` = what the open requests carry; only the latter can be lost.
* **Bbr**: one congestion controller, in the three variants. A state `s` goes through the
  functions of the code in the order of `OnCongestionEvent`; rates, windows and durations
  are reduced to the comparisons the code makes of them, which an event brings along as
  inputs (`e.gain`: did the bandwidth grow by a quarter; `e.drained`: is the flight below
  the target window; `e.advance`: is a phase of the cycle over). Packet numbers are
  counted from the oldest packet in flight, which only comparisons could tell. The DCHECKs
  that fail are collected in `failed`. A gain cycle is its first three gains: the other five
  are one, except for gains of 0.8 that `WorthedAbr` proposes at offsets 3 and 4 and
  `TargetAbr` at 3 (`abr_worthed.cc:397`, `abr_target.cc:362`), which no property is about:
  `DownFollowsUp` speaks of `target.cc`, whose cycle is the default one or, with `RemoteAbr`,
  flat. Of the connection options those that change control are modelled: LRTT, 1RTT, 2RTT,
  BBR3 and BBS1. BBS4 and BBS5 act as BBS1 (and lower a pacing rate); BBR7 and BBR8 put off
  the expiry of the min rtt, which is a behaviour in which `MinRttExpires` is not taken;
  MIN1 is the checked value of `MinWindow`; BBRS, BBR4, BBR5, BBR9 and BBQ1 to BBQ5 change
  rates and windows only. BBR6 (a window of PROBE_RTT from the bandwidth-delay product) is
  left out.
* **CcInterface**: the singleton. Several server processes on one machine, each with one
  ABR and connections that open and close; a pointer is the start of a process and a
  number, and means nothing to another process. A process identifier may be given again,
  and the file is still there. `delivery_rates_mutex_` is a variable: the main thread
  registers one rate per acknowledged packet while it holds it, and the ABR thread copies
  the rates and empties the list in two steps. What a server does through the pointer of
  an earlier process is undefined behaviour: it ends (`Exit`), or the ABR takes any rates
  (`UseForeign`). `parent` is not modelled: the controllers are never deleted.
* **Experiment**: leader and controllers. A handler that waits for an event keeps the
  request of its controller open; with `Failures` such a request may raise, which the
  history `raised` remembers, and so may `OnComplete`, which runs before `on_destroy` in the
  leader: its error is an answer the controller takes for OK. The page may complete twice,
  so a controller may run `on_complete` twice and have two requests open (`Runs`).
* **Monitor**: the player reports its last request on every tick and once more on an
  abort; a report is never removed from the network, so that it may be lost, repeated,
  delayed and overtaken.

Operators whose comment begins with "Mutant" are plausible bugs, never part of a
specification; they show that a property would notice.

## Runs

`tlc -config X.cfg M`. "Mutants" of a run replace one definition and must be refuted.

| Run | Question | Bounds |
|---|---|---|
| `server_deliver` | Are segments delivered in order, once, on evidence, in the announced quality, with nothing lost in the mailbox, does the server implement `SegmentDelivery`, and is every segment served? | 2 segments, 2 qualities, aborts, one extra report below or at 80%, fairness |
| `server_clients` | Do reports that overtake each other, repeated polls and closed streams confuse the server, and is every path that is polled answered? | 1 segment, 2 timestamps, 2 extra reports, 1 repeated poll, closing, fairness |
| `server_late_answer` | *violated*: is a handler called only while its stream lives? | 1 segment, closing |
| `front_play` | Does the player ask for what was decided, do request and response meet, are slots accounted for? | 4 segments, pool of 2, aborts, 1 repeated request |
| `front_live` | Is the whole video played, and never with a quality decided for another segment? | 3 segments, pool of 1, aborts, unintended removals, fairness |
| `front_pool_leak` | *violated*: is the pool kept full? | 4 segments, pool of 2, aborts |
| `stats` | Is the end of every download sent once, do measures not pile up, and do controller, ticks and requests implement `ReportChannel`? | 2 segments, 2 progress events each, 3 times, 2 requests that may fail |
| `bbr` | Do the assertions hold, may the connection always send, do gains match modes, do PROBE_RTT and recovery end? | 3 variants; no options, or 2RTT, LRTT, BBS1 and BBR3; window of 1, 2 packets, fairness |
| `interface` | Do ABR and connections of a process meet at one pointer that no other running process holds, and are rates taken once? | 2 processes, 3 starts, 2 connections, 2 rates |
| `interface_reuse` | *violated*: is the singleton one of its process? | the same with 2 starts |
| `exp_meet` | Whichever requests fail: do the players whose requests went through start and stop together, does the emulation wait for all, and does everything end if nothing fails? | 3 instances, 2 completions each, failures, fairness |
| `monitor` | Do samples never run ahead, and are they exact when first reports come in order? | 4 segments, 2 qualities, 5 moves of the clock |

Why the bounds are enough. The server works on one decision at a time and looks at
one segment back, so two segments (and the parking place N + 1) show every relation
between neighbours; `Total = 5` with `Loaded = {3, 4}` puts a report on either side
of the 80% boundary. Reordering needs two reports and two timestamps. In the front-end
four segments with a pool of two let the pool be refilled while the player is behind,
be full, and end before the video; aborts need a segment that is neither the first nor
the last of the video (`shouldAbandon`), so four segments give two of them.
`MinIndex` and `Cooldown`, 5 and 2 in the code, are 0 so that aborts happen in short
videos. `front_live` uses a pool of one, which a single abort leaks entirely, so that
it also covers a player that has to go on without the pool. In `stats` two events in one
millisecond and a tick between them need two times, a report that outlives a tick a third.
In `bbr` a window of one and two packets put the flight below, at and above the window of
PROBE_RTT, let one packet be lost while the other is acknowledged, and give rounds that
overlap; 1RTT is left out of the options there since it hides LRTT: a first round without
gain would then end STARTUP anyway. `interface` needs two connections that register rates, a
second rate for one that is registered between the copy and the reset, and a third start for
an identifier that is given again while another server runs. `monitor` needs four segments
for a sample that is behind by two. `Levels`, `MaxRetries`,
`MaxReports`, `MaxRepolls`, `Closing`, `Removals`, `Failures` bound or switch
the environment, as do the other `Max...`. Deadlock is checked for `Bbr` only: the other
systems come to rest when the video or the run is over, or at a bound.

Fairness. The server's two threads are scheduled by the operating system: weak
fairness each. A fair client polls every path once and reports each segment served;
its report waits for a mutex that the worker takes again and again, so the fairness
of the mutex is strong fairness of that step. Each of these happens once, so one condition
for all paths and one for all segments are enough. In the front-end the browser runs every
callback and timer that is due, the network delivers, and the abstract server answers:
weak fairness, and none for aborts, repeated requests and removals. In the experiment
only steps that succeed are fair, failures never. In `Bbr` the sender has data (weak
fairness of sending), the time of PROBE_RTT passes, and if packets are in flight again and
again then packets are acknowledged again and again: strong fairness of `Ack`, spelt out
over a history bit that every acknowledgement flips, since TLC is slow to evaluate whether
`Ack` is enabled. Losses, expiring round trips, options and the ABR thread are not fair.

## What the violations show

* `server_late_answer`: a stream that hangs is closed; `CloseBackendResponseStream` is
  empty, the cache keeps the handler, and the next decision calls it.
* `interface_reuse`: a server exits and leaves `/tmp/tmp_<pid>...` behind; a server that is
  given its identifier reads the pointer of the dead process out of it (`singleton.cc:24`) and
  uses it as its "Per-process and per-class singleton" (`singleton.h:16`). What is left is
  `UsersMeet`: all users of a process take the same pointer, and no two running processes do.
* `front_pool_leak`: an abort does not give its slot back. `AllPlayed` still holds: a
  segment that the pool never requested is loaded past the interceptor.

Other divergences seen while modelling, that no run is spent on:

* Server. A path polled twice keeps its first stream, and a path once answered stays in
  `AbrLoop::sent`: the second stream hangs for ever, although sending a response is
  "asynchronous, yet guaranteed" (`poll_service.h:18`); hence `EveryPathAnswered` is about
  the first stream of a path. After the last segment the worker retries the answer of
  segment N + 1 for ever and reads no more reports (`loop.cc:93`; `NoDecisionPastTheEnd`
  bounds where it stops).
* Front-end. The handler of an unintended removal (`server_side.ts:350`) starts the player
  that was stopped for a missing decision, which then asks for quality 0; hence
  `RequestedQuality` is checked without removals and `NeverAnothersQuality` with them. A
  bypass "works only once" (`intercept.ts:244`) but is never removed; `eos` is sent when the
  last segment is requested, under the comment "if we downloaded everything"
  (`server_side.ts:252`); `getQuality` "should never arrive" at its default
  (`quality.ts:104`) but does when data overtakes its decision. A buffer level that is
  younger than the player time of its tick is sent twice, where the comment wants "only
  fresh information" (`server_side.ts:382`).
* Experiment. A controller whose request to the leader fails answers OK and its player
  starts alone (`controller.py:148`); one whose request fails in `on_complete` never
  destroys itself (`controller.py:167`); one whose error comes from `OnComplete` or from
  an instance the leader does not know goes on without the others. `StartTogether`,
  `StopTogether` and `AllDestroyed` say what is left when such failures happen.
* Monitor. "It orders the front-end stream" (`monitor.py:183`): it does not. Segments are
  counted, so a segment whose first report is lost or overtaken shifts all later samples by
  one (`SamplesExact` has the premise `InOrder`). Before the first sample `check_quality`
  raises an IndexError; a correction is only logged, under the comment "Sending the metric
  updates" (`monitor.py:64`), and does not move the time of the segment, so that a delayed
  report can restore a stale quality; `raw_qoe` takes the switch between the two previous
  segments instead of that to the current one (`monitor.py:122`).
* Congestion control. An injected min rtt
  keeps the time of the one before (`gap.cc:448`): the first one is expired at once, and
  PROBE_RTT is entered from STARTUP. A full bandwidth may be concluded without a sample that
  is not app limited when the first bandwidth was injected, against the DCHECK at
  `gap.cc:845` (`AssertionsHold` has this exception). `CCWrapper` never deletes the
  controller it wraps (`cc_wrapper.cc:7`), which is what keeps `parent` valid after a
  connection is closed; the estimates of that controller are stale until the next
  connection.

## Proofs

`tlapm M.tla` for the eight modules whose name ends in `Proofs`. The constants are
arbitrary within the named assumptions (`NAssumption`, `NoneAssumption`,
`StreamsAssumption`, ...; `StatsAssumption`; `PortsAssumption`; `CcAssumption`;
`MonitorAssumption`). Every invariant that a passing run checks is also proved, and so are the
action properties and the two refinements.

**Server.** `AnswersInOrder` is not inductive: that the next decision is only taken
when both paths of the current one are answered is a fact about the worker's program
counter and the flags it shares with the task. `DeliveryInv` is the conjunction of

* `TypeOK`;
* `DecisionInv`: decisions exist exactly below `decision_index`, and the worker holds
  the last one;
* `SpinInv`: what the flags and the task queue are at each point of the spin loop
  (`TaskInFrame` among them);
* `SentInv`: which paths are in `sent`, given the program counter;
* `EndInv`: nobody polls segment N + 1.

From it: `TypeCorrect`, `TasksInFrame`, `AnswersAreInOrder`, `WorkerParks`, and the
action property `DecisionsAreFinal`. `StreamInv` relates cache, streams and `sent`
(a cached stream is unanswered and belongs to its path; an answered stream has the
body of the decision); with `DeliveryInv` it gives `PathsAnsweredOnce` and
`QualitiesAgree`. `ServerImplementsDelivery` maps `announced` and `served` to the
qualities of the paths in `sent` and shows that only the two tasks change them, each
by the corresponding abstract step.

**Reports in the server** (`ReportProofs`). `NoReportLost` needs to know where the worker
is: `MailboxPhases` says that the mutex is held exactly between the two steps of
`GetMetrics`, that the worker's copy equals the mailbox there, and that the copy is empty
when the worker comes back. `DecisionJustified` needs `KnownInv`: what is known of a segment
is a report that was registered for it. `NewestKnown` is inductive given the types;
the case to be shown is a report that is registered after a newer one.

**Front-end** (`ServerSideAppProofs`). Pool and player go through the video side by side,
and what is hard is what each may rely on of the other. `AppInv` is the conjunction of

* `TypeOK` and `NoLostWakeup`;
* `PoolInv`: `SlotsAccounted`; the two kinds of request and the interceptor's entries cover
  the same prefix of the video; what can be handed over was downloaded, and only aborted
  downloads are bypassed;
* `PlayerInv`: the player's request is the segment it wants, what it asked for lies at or
  below it, the app shows it the decision of the next segment, and no download is on its way
  behind its back: a player that is ahead of the pool finds the pool at a standstill (all of
  its slots aborted). Without the last part a late response could find a segment that the
  player has already loaded past the interceptor;
* `DecisionInv`: decisions in the cache are the server's, and `NeverAnothersQuality`;
* `ReadyInv`, when there are no unintended removals: a player that waits for a decision is
  stopped, and one that runs without a request open knows the decision of the segment it
  wants, if the pool asked for it; with `RequestedQuality`.

It gives `AppTypeCorrect`, `SlotsAlwaysAccounted`, `WakeupsNeverLost` and `QualityIsOwn` with
and without removals, and `QualityIsDecided` under `~ Removals`: a removal starts the player
that was stopped (see the divergences above), so the assumption is needed.
`OnlyAbortsCostSlots` states how far the violation of `PoolKept` goes. `FullInv` (the pool is
full or everything was requested) and the count of the requested segments
(`RequestedSplit`) show that requests on their way and aborts together always fill the pool,
or what is left of the video: each abort costs one slot for good, and without aborts the
pool is kept full.

**Front-end reports** (`StatsProofs`). The newest time of a tick is not before any report
the controller holds (`NewestIsNewest`), so the filter of `advance` keeps none; what has
to be shown is that everything it discards was sent or is superseded by what was sent.
`DownloadsOnce` is inductive given that; the refinement also needs `OrderInv`: the
progress of a download is listed in the order of its levels and of the clock, so the last
one listed, which is sent, is the newest. Of the measures only the buffer level of the
last tick can be younger than the newest time (`FreshInv`). `StatsImplementsChannel` maps
the reports of `ReportChannel` that are held and on their way to what the controller holds
and the open requests carry, and takes each step to a step of the channel or a stutter.
That a set of times has a least and a greatest element (`Least`, `Greatest`) comes from
the well-foundedness of the naturals.

**Experiment.** `MeetInv` adds to the types that a stopped instance has completed its
player and that there is no second request before (`QuietInv`); it gives
`NetworkCoversAll` and `FinalizesLast`, whatever fails. Counting instances is enough
because a subset of the ports with as many elements is all of them (`LastIsAll`).
`TogetherInv` adds what the events stand for and who was let through by them, for the
instances outside `raised`; it gives `PlayersStartTogether` and `ControllersStopTogether`,
also whatever fails.

**Interface.** `CcInv` adds to the types that every user of the interface holds the pointer
in the file (`SharedInv`), that open connections were created, that a thread between two steps
of its critical section holds the mutex and the copy of the ABR thread is still what the list
holds (`LockInv`), and that a pointer comes from a start of the process in whose file it is
(`ApartInv`: starts are numbered, and two processes never share one). `RatesOnce` and
`UsersMeet` follow, for any reuse of process identifiers. `OneInstance` is not provable: see
the violations above.

**Monitor.** `MonitorInv` adds that reports lag behind the player and are ordered in time
by segment (`ReportsInv`) and that a sample has the index and time of a report
(`SamplesInv`). While first reports come in order, a report is new to the processor exactly
when it is the first of its segment (`ProcessExact`).

**Congestion control** (`BbrProofs`). `Sound` holds between any two functions of
`OnCongestionEvent`: types of the flags, gains and clock of the mode, and `Sampled`, that a
bandwidth which is not app limited comes from a full sample or was injected (hence the
exception in `AssertionsHold`). Within an event STARTUP may have reached full bandwidth and
the recovery window may be zero; `Settled` adds that this is over when the event ends.
`CongestionSettles` composes the functions; `BbrInv` is `Settled` for the controller. It holds
for every window, span and set of options. `TypeOK` needs one more fact: before full bandwidth
is reached the rounds without gain are below their limit, even if an option lowers the
limit in between (`Typed`); and that packet numbers counted from the oldest packet in flight keep
their order (`RebaseCounts`). `DownFollowsUp` needs to know that in PROBE_BW the gain is the one at
the offset, except for a drain that BBR3 prolongs to the next offset (`AtOffset`); every way
into PROBE_BW, from DRAIN or from PROBE_RTT, sets an offset other than that of the drain
(`EntersWithoutDrain`).

Only model-checked: liveness (`AllServed`, `EveryPathAnswered`, `AllPlayed`,
`AllDestroyed`, `ProbeRttEnds`, `RecoveryEnds`), which is out of the prover's reach.

## Not modelled

Start-up and configuration, JSON, the store (read only), logging and plots; the numeric
policies that choose a quality, the arithmetic of windows, pacing rates and of the quality
of experience; minerva; initialization headers of the interceptor; seeking; the client-side
variant of the front-end; machine learning; scripts that start processes. The Chromium
network stack around `abrcc/` is third-party code. `PROJECT.json` gives the reason part by
part.

## Plan

1. The windows of BBR as integers (`CalculateCongestionWindow`, `CalculateRecoveryWindow`).
2. `FrontEndApp`, and the composition of front-end and experiment (`eos`, `complete`).
3. Proofs of what these add, from the invariants above; the bounds that liveness rests on
   (a retry, a spin or a wait that a finite count limits) as safety theorems.
