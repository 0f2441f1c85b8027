------------------------------ MODULE BbrProofs -----------------------------
(***************************************************************************)
(* Proofs about the congestion controller, for every window, every span of *)
(* packets and every set of options.                                       *)
(*                                                                         *)
(* An event takes the members of the controller through the functions of   *)
(* OnCongestionEvent one after the other.  Sound says what holds between   *)
(* two of them, Settled what holds between two events: in between,         *)
(* STARTUP may have reached full bandwidth and the recovery window may be  *)
(* zero.  Typed is what the types need in addition, AtOffset where the     *)
(* gain cycle of target.cc stands.                                         *)
(***************************************************************************)
EXTENDS Bbr, TLAPS, WellFoundedInduction

Fields ==
  {"mode", "recovery_state", "recovery_window", "round_trip_end", "end_recovery_at",
   "is_at_full_bandwidth", "rounds_without_gain", "last_round_nonzero", "bandwidth_nonzero",
   "has_full_sample", "last_app_limited", "exiting_quiescence", "min_rtt", "exit_probe_rtt_at",
   "probe_rtt_round", "pacing_gain", "window_gain", "offset", "slowstart", "injected", "lossy",
   "acks", "failed"}

\* The gains of the mode; DRAIN and PROBE_BW come after full bandwidth.
Gains(s) ==
  /\ s.mode = "STARTUP" => s.pacing_gain = "high" /\ s.window_gain = "high"
  /\ s.mode = "DRAIN" => /\ s.pacing_gain = "drain" /\ s.window_gain = "high"
                         /\ s.is_at_full_bandwidth = TRUE
  /\ s.mode = "PROBE_BW" => /\ s.pacing_gain \in {"up", "down", "one"}
                            /\ s.window_gain = "constant"
                            /\ s.is_at_full_bandwidth = TRUE
  /\ s.mode = "PROBE_RTT" => s.pacing_gain = "one"

\* The clock of STARTUP runs in STARTUP.
Clock(s) ==
  /\ s.mode = "STARTUP" => s.slowstart = TRUE
  /\ s.mode # "STARTUP" => s.slowstart = FALSE

\* A bandwidth that is not app limited comes from a sample or was injected.
Sampled(s) ==
  /\ s.last_round_nonzero = TRUE => s.bandwidth_nonzero = TRUE
  /\ s.bandwidth_nonzero = TRUE /\ s.last_app_limited = FALSE
       => s.has_full_sample = TRUE \/ s.injected = TRUE

Failed(s) ==
  /\ s.failed \subseteq {"full_sample"}
  /\ "full_sample" \in s.failed => s.injected = TRUE

Flags(s) ==
  /\ s.is_at_full_bandwidth \in BOOLEAN /\ s.last_round_nonzero \in BOOLEAN
  /\ s.bandwidth_nonzero \in BOOLEAN /\ s.has_full_sample \in BOOLEAN
  /\ s.last_app_limited \in BOOLEAN /\ s.slowstart \in BOOLEAN /\ s.injected \in BOOLEAN

Sound(s) ==
  /\ DOMAIN s = Fields
  /\ s.mode \in {"STARTUP", "DRAIN", "PROBE_BW", "PROBE_RTT"}
  /\ s.offset \in 0 .. 2
  /\ Flags(s) /\ Gains(s) /\ Clock(s) /\ Sampled(s) /\ Failed(s)

Settled(s) ==
  /\ Sound(s)
  /\ s.mode = "STARTUP" => s.is_at_full_bandwidth = FALSE
  /\ WindowIsOpen(s)

BbrInv ==
  /\ Settled(bbr)
  /\ cc \in Algorithms
  /\ interface \in [cycle : Cycles, canProbeRtt : BOOLEAN]

\* What an event brings along.
Event(e) ==
  /\ e.sample \in {"none", "limited", "full_then_limited", "full"}
  /\ e.random \in 0 .. 1
  /\ e.vote \in Cycles
-----------------------------------------------------------------------------

\* A gain of a cycle.
LEMMA CycleGain ==
  ASSUME NEW cycle \in Cycles, NEW k \in 1 .. 3
  PROVE  Len(cycle) = 3 /\ cycle[k] \in {"up", "down", "one"}
<1>1. \A c \in Cycles : c \in {<<"up", "down", "one">>, <<"up", "down", "up">>, <<"up", "one", "up">>,
                              <<"one", "down", "one">>, <<"one", "one", "one">>}
  BY DEF Cycles, DefaultCycle, FlatCycle
<1>2. k = 1 \/ k = 2 \/ k = 3
  OBVIOUS
<1> QED
  BY <1>1, <1>2

\* PROBE_BW is entered with a gain of the cycle.
LEMMA EnterProbeBandwidthModeSound ==
  ASSUME NEW s, NEW e, Sound(s), Event(e), BbrInv,
         s.is_at_full_bandwidth = TRUE, s.slowstart = FALSE
  PROVE  /\ Sound(EnterProbeBandwidthMode(s, e))
         /\ EnterProbeBandwidthMode(s, e).mode = "PROBE_BW"
         /\ EnterProbeBandwidthMode(s, e).is_at_full_bandwidth = TRUE
<1> DEFINE offset == RandomOffset(e.random)
           gain   == interface.cycle[offset + 1]
<1>1. offset \in 0 .. 2
  BY DEF Event, RandomOffset
<1>2. gain \in {"up", "down", "one"}
  BY <1>1, CycleGain DEF BbrInv
<1> HIDE DEF offset, gain
<1>3. EnterProbeBandwidthMode(s, e) =
        [s EXCEPT !.mode = "PROBE_BW", !.window_gain = "constant",
                  !.offset = offset, !.pacing_gain = gain]
  BY DEF EnterProbeBandwidthMode, offset, gain
<1> QED
  BY <1>1, <1>2, <1>3 DEF Sound, Flags, Gains, Clock, Sampled, Failed, Fields

\* STARTUP is entered with its clock stopped.
LEMMA EnterStartupModeSound ==
  ASSUME NEW s, Sound(s), s.slowstart = FALSE
  PROVE  /\ Sound(EnterStartupMode(s)) /\ EnterStartupMode(s).mode = "STARTUP"
         /\ EnterStartupMode(s).is_at_full_bandwidth = s.is_at_full_bandwidth
<1>1. Fail(s, "start_time", ~ s.slowstart) = s
  BY DEF Fail
<1>2. EnterStartupMode(s) = [s EXCEPT !.slowstart = TRUE, !.mode = "STARTUP",
                                      !.pacing_gain = "high", !.window_gain = "high"]
  BY <1>1 DEF EnterStartupMode
<1> QED
  BY <1>2 DEF Sound, Flags, Gains, Clock, Sampled, Failed, Fields

\* ... and left with its clock running.
LEMMA OnExitStartupEffect ==
  ASSUME NEW s, Sound(s), s.mode = "STARTUP"
  PROVE  OnExitStartup(s) = [s EXCEPT !.slowstart = FALSE]
<1>1. Fail(s, "exit_mode", s.mode = "STARTUP") = s /\ Fail(s, "exit_time", s.slowstart) = s
  BY DEF Fail, Sound, Clock
<1> QED
  BY <1>1 DEF OnExitStartup
-----------------------------------------------------------------------------
(* The functions of an event, in their order.                              *)

\* UpdateRecoveryState and the bandwidth samples of an event.
LEMMA InputSound ==
  ASSUME NEW s, NEW e, Sound(s), Event(e), NEW round_start
  PROVE  Sound(UpdateRecoveryState(UpdateBandwidthAndMinRtt(UpdateRoundTripCounter(s, e), e), e, round_start))
<1> USE DEF Sound, Flags, Gains, Clock, Sampled, Failed, Fields
<1> DEFINE t == UpdateRoundTripCounter(s, e)
           u == UpdateBandwidthAndMinRtt(t, e)
           v == UpdateRecoveryState(u, e, round_start)
<1>1. Sound(t)
  BY DEF UpdateRoundTripCounter
<1> HIDE DEF t
<1>2. Sound(u)
  <2>1. CASE e.sample = "none"
    BY <1>1, <2>1 DEF UpdateBandwidthAndMinRtt
  <2>2. CASE e.sample # "none"
    <3> DEFINE full    == t.has_full_sample \/ e.sample # "limited"
               limited == e.sample # "full"
    <3>1. full \in BOOLEAN /\ limited \in BOOLEAN /\ (limited = FALSE => full = TRUE)
      OBVIOUS
    <3>2. u = [t EXCEPT !.bandwidth_nonzero = TRUE, !.has_full_sample = full,
                        !.last_app_limited = limited, !.min_rtt = "fresh"]
      BY <1>1, <2>2 DEF UpdateBandwidthAndMinRtt
    <3> HIDE DEF full, limited, u
    <3> QED
      BY <1>1, <3>1, <3>2
  <2> QED
    BY <2>1, <2>2
<1> HIDE DEF u
<1>3. Sound(v)
  BY <1>2 DEF UpdateRecoveryState, InRecovery
<1> QED
  BY <1>3 DEF t, u, v

\* A step of the gain cycle stays within the gains of PROBE_BW.
LEMMA GainCycleSound ==
  ASSUME NEW s, NEW e, Sound(s), Event(e), BbrInv, s.mode = "PROBE_BW"
  PROVE  Sound(UpdateGainCyclePhaseGap(s, e)) /\ Sound(UpdateGainCyclePhase(s, e))
<1> USE DEF Sound, Flags, Gains, Clock, Sampled, Failed, Fields
<1>1. Sound(UpdateGainCyclePhaseGap(s, e))
  BY DEF UpdateGainCyclePhaseGap
<1> DEFINE next == NextOffset(s)
           gain == CycleAfter(s, e)[next + 1]
<1>2. interface.cycle \in Cycles /\ CycleAfter(s, e) \in Cycles
  BY DEF BbrInv, CycleAfter, Event
<1>3. next \in 0 .. 2
  <2>1. Len(interface.cycle) = 3
    BY <1>2, CycleGain
  <2> QED
    BY <2>1 DEF NextOffset
<1>4. gain \in {"up", "down", "one"}
  BY <1>2, <1>3, CycleGain
<1> HIDE DEF next, gain
<1>5. \/ UpdateGainCyclePhase(s, e) = s
      \/ UpdateGainCyclePhase(s, e) = [s EXCEPT !.offset = next, !.pacing_gain = gain]
      \/ UpdateGainCyclePhase(s, e) = [s EXCEPT !.offset = next, !.pacing_gain = s.pacing_gain]
  BY DEF UpdateGainCyclePhase, next, gain
<1>6. Sound(UpdateGainCyclePhase(s, e))
  <2>1. ASSUME NEW g \in {"up", "down", "one"}
        PROVE  Sound([s EXCEPT !.offset = next, !.pacing_gain = g])
    BY <1>3
  <2>2. s.pacing_gain \in {"up", "down", "one"}
    OBVIOUS
  <2> HIDE DEF Sound
  <2> QED
    BY <1>4, <1>5, <2>1, <2>2
<1> QED
  BY <1>1, <1>6

\* Full bandwidth is concluded without a full sample only from an injected one.
LEMMA FullBandwidthSound ==
  ASSUME NEW s, NEW e, Sound(s), s.is_at_full_bandwidth = FALSE
  PROVE  Sound(CheckIfFullBandwidthReached(s, e))
<1> USE DEF Sound, Flags, Gains, Clock, Sampled, Failed, Fields
<1> DEFINE stalled == s.rounds_without_gain + 1
           reached == Stalled(stalled) \/ ("LRTT" \in options /\ InRecovery(s))
           f == Fail(s, "full_sample", s.has_full_sample)
<1>1. CASE s.last_app_limited
  BY <1>1 DEF CheckIfFullBandwidthReached
<1>2. CASE ~ s.last_app_limited /\ (e.gain \/ ~ s.last_round_nonzero)
  <2>1. CheckIfFullBandwidthReached(s, e) =
          [s EXCEPT !.last_round_nonzero = s.bandwidth_nonzero, !.rounds_without_gain = 0]
    BY <1>2 DEF CheckIfFullBandwidthReached
  <2> QED
    BY <2>1
<1>3. CASE ~ s.last_app_limited /\ ~ (e.gain \/ ~ s.last_round_nonzero)
  <2>1. s.has_full_sample = TRUE \/ s.injected = TRUE
    BY <1>3
  <2>2. Sound(f) /\ f.mode = s.mode
    <3>1. CASE s.has_full_sample = TRUE
      BY <3>1 DEF Fail
    <3>2. CASE s.has_full_sample = FALSE
      <4>1. f = [s EXCEPT !.failed = s.failed \cup {"full_sample"}]
        BY <3>2 DEF Fail
      <4> QED
        BY <2>1, <3>2, <4>1
    <3> QED
      BY <3>1, <3>2
  <2>2a. f.is_at_full_bandwidth = FALSE
    BY DEF Fail
  <2> HIDE DEF f
  <2>3. CASE reached
    <3>1. CheckIfFullBandwidthReached(s, e) =
            [f EXCEPT !.rounds_without_gain = stalled, !.is_at_full_bandwidth = reached]
      BY <1>3, <2>3 DEF CheckIfFullBandwidthReached, f
    <3>2. reached = TRUE
      BY <2>3
    <3> HIDE DEF reached, stalled
    <3> QED
      BY <2>2, <2>2a, <3>1, <3>2
  <2>4. CASE ~ reached
    <3>1. CheckIfFullBandwidthReached(s, e) =
            [s EXCEPT !.rounds_without_gain = stalled, !.is_at_full_bandwidth = reached]
      BY <1>3, <2>4 DEF CheckIfFullBandwidthReached
    <3>2. reached = FALSE
      BY <2>4
    <3> HIDE DEF reached, stalled
    <3> QED
      BY <3>1, <3>2
  <2> QED
    BY <2>3, <2>4
<1> QED
  BY <1>1, <1>2, <1>3

\* After it, STARTUP has not reached full bandwidth.
LEMMA ExitStartupSound ==
  ASSUME NEW s, NEW e, Sound(s), Event(e), BbrInv
  PROVE  /\ Sound(MaybeExitStartupOrDrain(s, e))
         /\ MaybeExitStartupOrDrain(s, e).mode = "STARTUP" =>
              MaybeExitStartupOrDrain(s, e).is_at_full_bandwidth = FALSE
<1> DEFINE t == IF s.mode = "STARTUP" /\ s.is_at_full_bandwidth
                THEN [OnExitStartup(s) EXCEPT !.mode = "DRAIN", !.pacing_gain = "drain",
                                              !.window_gain = "high"]
                ELSE s
<1>1. Sound(t) /\ (t.mode = "STARTUP" => t.is_at_full_bandwidth = FALSE)
  <2>1. CASE s.mode = "STARTUP" /\ s.is_at_full_bandwidth
    <3>1. t = [s EXCEPT !.slowstart = FALSE, !.mode = "DRAIN", !.pacing_gain = "drain",
                        !.window_gain = "high"]
      BY <2>1, OnExitStartupEffect DEF Sound, Fields
    <3> QED
      BY <2>1, <3>1 DEF Sound, Flags, Gains, Clock, Sampled, Failed, Fields
  <2>2. CASE ~ (s.mode = "STARTUP" /\ s.is_at_full_bandwidth)
    BY <2>2 DEF Sound, Flags
  <2> QED
    BY <2>1, <2>2
<1>2. MaybeExitStartupOrDrain(s, e) =
        IF t.mode = "DRAIN" /\ e.drained THEN EnterProbeBandwidthMode(t, e) ELSE t
  BY DEF MaybeExitStartupOrDrain
<1> HIDE DEF t
<1>3. CASE t.mode = "DRAIN" /\ e.drained
  <2>1. t.is_at_full_bandwidth = TRUE /\ t.slowstart = FALSE
    BY <1>1, <1>3 DEF Sound, Gains, Clock
  <2> QED
    BY <1>1, <1>2, <1>3, <2>1, EnterProbeBandwidthModeSound
<1>4. CASE ~ (t.mode = "DRAIN" /\ e.drained)
  BY <1>1, <1>2, <1>4
<1> QED
  BY <1>3, <1>4

\* PROBE_RTT is entered from any mode and left for the mode its gains and clock need.
LEMMA ProbeRttSound ==
  ASSUME NEW s, NEW e, Sound(s), Event(e), BbrInv,
         s.mode = "STARTUP" => s.is_at_full_bandwidth = FALSE,
         NEW flight, NEW round_start, NEW expired
  PROVE  LET r == MaybeEnterOrExitProbeRtt(s, e, flight, round_start, expired)
         IN  Sound(r) /\ (r.mode = "STARTUP" => r.is_at_full_bandwidth = FALSE)
<1> USE DEF Fields
<1> DEFINE Fine(x) == Sound(x) /\ (x.mode = "STARTUP" => x.is_at_full_bandwidth = FALSE)
           t == IF EntersProbeRtt(s, expired) THEN EnterProbeRtt(s) ELSE s
           u == IF t.mode = "PROBE_RTT" THEN InProbeRtt(t, e, flight, round_start) ELSE t
<1>1. Fine(t)
  <2>1. Fine(EnterProbeRtt(s))
    <3>1. CASE s.mode = "STARTUP"
      <4>1. EnterProbeRtt(s) =
              [s EXCEPT !.slowstart = FALSE, !.mode = "PROBE_RTT", !.pacing_gain = "one",
                        !.exit_probe_rtt_at = "zero"]
        BY <3>1, OnExitStartupEffect DEF EnterProbeRtt, Sound
      <4> QED
        BY <3>1, <4>1 DEF Sound, Flags, Gains, Clock, Sampled, Failed
    <3>2. CASE s.mode # "STARTUP"
      <4>1. EnterProbeRtt(s) =
              [s EXCEPT !.mode = "PROBE_RTT", !.pacing_gain = "one", !.exit_probe_rtt_at = "zero"]
        BY <3>2 DEF EnterProbeRtt
      <4> QED
        BY <3>2, <4>1 DEF Sound, Flags, Gains, Clock, Sampled, Failed
    <3> QED
      BY <3>1, <3>2
  <2> QED
    BY <2>1
<1>2. MaybeEnterOrExitProbeRtt(s, e, flight, round_start, expired) =
        [u EXCEPT !.exiting_quiescence = FALSE]
  BY DEF MaybeEnterOrExitProbeRtt
<1> HIDE DEF t
<1>3. ASSUME t.mode = "PROBE_RTT" PROVE Fine(InProbeRtt(t, e, flight, round_start))
  <2> DEFINE v == [t EXCEPT !.probe_rtt_round = @ \/ round_start]
             w == [t EXCEPT !.exit_probe_rtt_at = "future", !.probe_rtt_round = FALSE]
             x == [v EXCEPT !.min_rtt = "fresh"]
  <2>1. Sound(v) /\ v.mode = "PROBE_RTT" /\ Sound(w) /\ w.mode = "PROBE_RTT"
    BY <1>1, <1>3 DEF Sound, Flags, Gains, Clock, Sampled, Failed
  <2>2. \/ InProbeRtt(t, e, flight, round_start) \in {t, v, w}
        \/ InProbeRtt(t, e, flight, round_start) = ExitProbeRtt(v, e)
    BY DEF InProbeRtt
  <2> HIDE DEF v, w
  <2>3. Sound(x) /\ x.slowstart = FALSE
    BY <2>1 DEF Sound, Flags, Gains, Clock, Sampled, Failed
  <2>4. ExitProbeRtt(v, e) = IF x.is_at_full_bandwidth THEN EnterProbeBandwidthMode(x, e)
                             ELSE EnterStartupMode(x)
    BY DEF ExitProbeRtt
  <2> HIDE DEF x
  <2>5. Fine(ExitProbeRtt(v, e))
    <3>1. CASE x.is_at_full_bandwidth = TRUE
      BY <2>3, <2>4, <3>1, EnterProbeBandwidthModeSound
    <3>2. CASE x.is_at_full_bandwidth = FALSE
      BY <2>3, <2>4, <3>2, EnterStartupModeSound
    <3> QED
      BY <2>3, <3>1, <3>2 DEF Sound, Flags
  <2> QED
    BY <1>1, <1>3, <2>1, <2>2, <2>5
<1>4. Fine(u)
  BY <1>1, <1>3
<1> HIDE DEF u
<1> QED
  BY <1>2, <1>4 DEF Sound, Flags, Gains, Clock, Sampled, Failed

\* After an event the window is open: what CalculateRecoveryWindow leaves alone is
\* not closed.
LEMMA RecoveryWindowSettles ==
  ASSUME NEW s, Sound(s), s.mode = "STARTUP" => s.is_at_full_bandwidth = FALSE
  PROVE  Settled(CalculateRecoveryWindow(s))
<1>1. CASE RateBasedStartup(s) \/ ~ InRecovery(s)
  BY <1>1 DEF CalculateRecoveryWindow, Settled, WindowIsOpen
<1>2. CASE ~ (RateBasedStartup(s) \/ ~ InRecovery(s))
  <2>1. CalculateRecoveryWindow(s) = [s EXCEPT !.recovery_window = "set"]
    BY <1>2 DEF CalculateRecoveryWindow
  <2> QED
    BY <2>1 DEF Settled, WindowIsOpen, Sound, Flags, Gains, Clock, Sampled, Failed, Fields
<1> QED
  BY <1>1, <1>2

\* A whole event.
LEMMA CongestionSettles ==
  ASSUME BbrInv, NEW e, Event(e), NEW flight
  PROVE  Settled(Congestion(bbr, e, flight))
<1> DEFINE round_start == IsRoundStart(bbr, e)
           expired     == MinRttExpired(bbr, e)
           input       == IF e.acked = {} THEN bbr
                          ELSE UpdateRecoveryState(
                                 UpdateBandwidthAndMinRtt(UpdateRoundTripCounter(bbr, e), e),
                                 e, round_start)
           cycled      == IF input.mode # "PROBE_BW" THEN input
                          ELSE IF cc = "gap" THEN UpdateGainCyclePhaseGap(input, e)
                          ELSE UpdateGainCyclePhase(input, e)
           checked     == IF round_start /\ ~cycled.is_at_full_bandwidth
                          THEN CheckIfFullBandwidthReached(cycled, e) ELSE cycled
           left        == MaybeExitStartupOrDrain(checked, e)
           probed      == MaybeEnterOrExitProbeRtt(left, e, flight, round_start, expired)
<1>1. Congestion(bbr, e, flight) = CalculateRecoveryWindow(probed)
  BY DEF Congestion
<1>2. Sound(input)
  BY InputSound DEF BbrInv, Settled
<1> HIDE DEF input
<1>3. Sound(cycled)
  BY <1>2, GainCycleSound
<1> HIDE DEF cycled
<1>4. Sound(checked)
  <2>1. CASE cycled.is_at_full_bandwidth = TRUE
    BY <1>3, <2>1
  <2>2. CASE cycled.is_at_full_bandwidth = FALSE
    BY <1>3, <2>2, FullBandwidthSound
  <2> QED
    BY <1>3, <2>1, <2>2 DEF Sound, Flags
<1> HIDE DEF checked
<1>5. Sound(left) /\ (left.mode = "STARTUP" => left.is_at_full_bandwidth = FALSE)
  BY <1>4, ExitStartupSound
<1> HIDE DEF left
<1>6. Sound(probed) /\ (probed.mode = "STARTUP" => probed.is_at_full_bandwidth = FALSE)
  BY <1>5, ProbeRttSound
<1> HIDE DEF probed
<1> QED
  BY <1>1, <1>6, RecoveryWindowSettles
-----------------------------------------------------------------------------
(* The actions.                                                            *)

\* Members that Settled does not mention may take any value.
LEMMA SettledFrame ==
  ASSUME NEW s, Settled(s), NEW a, NEW b, NEW c, NEW d
  PROVE  /\ Settled([s EXCEPT !.lossy = a, !.acks = b, !.round_trip_end = c, !.end_recovery_at = d])
         /\ Settled([s EXCEPT !.exiting_quiescence = a])
         /\ Settled([s EXCEPT !.min_rtt = a])
         /\ Settled([s EXCEPT !.exit_probe_rtt_at = a])
BY DEF Settled, WindowIsOpen, InRecovery, RateBasedStartup, Sound, Flags, Gains, Clock, Sampled,
       Failed, Fields

\* Event e is what the acknowledgement or the loss brings.
Taken(e, acked, lost) ==
  LET flight == inflight \ (acked \cup lost)
      s == Congestion(bbr, e, flight)
  IN /\ Event(e)
     /\ bbr' = [s EXCEPT !.lossy = lost # {} /\ InRecovery(bbr),
                         !.acks = (@ # (acked # {})),
                         !.round_trip_end = Rebase(@, flight),
                         !.end_recovery_at = Rebase(@, flight)]
     /\ \/ interface' = interface
        \/ cc = "adapter" /\ interface' = [interface EXCEPT !.cycle = CycleAfter(bbr, e)]

\* An acknowledgement or a loss brings an event.
LEMMA EventTaken ==
  ASSUME NEW acked, NEW lost, OnCongestionEvent(acked, lost)
  PROVE  \E e : Taken(e, acked, lost)
<1> DEFINE flight == inflight \ (acked \cup lost)
<1>1. PICK sample \in {"none"} \cup
                       (IF acked = {} THEN {} ELSE {"limited", "full_then_limited", "full"}),
           gain \in Relevant(~bbr.is_at_full_bandwidth),
           advance \in Relevant(bbr.mode = "PROBE_BW"),
           drained \in IF Cardinality(flight) <= MinWindow THEN {TRUE} ELSE BOOLEAN,
           random \in IF bbr.mode = "PROBE_BW" THEN {0} ELSE 0..1,
           vote \in IF bbr.mode = "PROBE_BW" /\ cc = "adapter" /\ NextOffset(bbr) = 0
                   THEN Cycles \ {FlatCycle} ELSE {DefaultCycle} :
        LET e == [acked |-> acked, lost |-> lost, sample |-> sample, gain |-> gain,
                  advance |-> advance, drained |-> drained, random |-> random,
                  vote |-> vote]
            s == Congestion(bbr, e, flight)
        IN /\ bbr' = [s EXCEPT !.lossy = lost # {} /\ InRecovery(bbr),
                             !.acks = (@ # (acked # {})),
                             !.round_trip_end = Rebase(@, flight),
                             !.end_recovery_at = Rebase(@, flight)]
           /\ interface' = IF bbr.mode = "PROBE_BW" /\ cc = "adapter" /\ Advances(bbr, e)
                           THEN [interface EXCEPT !.cycle = CycleAfter(bbr, e)]
                           ELSE interface
  BY Zenon DEF OnCongestionEvent
<1> DEFINE e == [acked |-> acked, lost |-> lost, sample |-> sample, gain |-> gain,
                 advance |-> advance, drained |-> drained, random |-> random, vote |-> vote]
<1>2. Event(e)
  <2>1. sample \in {"none", "limited", "full_then_limited", "full"}
    OBVIOUS
  <2>2. random \in 0 .. 1
    OBVIOUS
  <2>3. vote \in Cycles
    BY DEF Cycles
  <2> QED
    BY <2>1, <2>2, <2>3 DEF Event
<1>3. Taken(e, acked, lost)
  BY <1>1, <1>2 DEF Taken
<1> QED
  BY <1>3

\* An acknowledgement or a loss settles the controller.
LEMMA EventInv ==
  ASSUME BbrInv, NEW acked, NEW lost, OnCongestionEvent(acked, lost)
  PROVE  BbrInv'
<1> DEFINE flight == inflight \ (acked \cup lost)
<1>1. PICK e : Taken(e, acked, lost)
  BY EventTaken
<1> DEFINE s == Congestion(bbr, e, flight)
<1>2. Settled(s)
  BY <1>1, CongestionSettles DEF Taken
<1>3. Settled(bbr')
  <2>1. bbr' = [s EXCEPT !.lossy = lost # {} /\ InRecovery(bbr),
                         !.acks = (s.acks # (acked # {})),
                         !.round_trip_end = Rebase(s.round_trip_end, flight),
                         !.end_recovery_at = Rebase(s.end_recovery_at, flight)]
    BY <1>1 DEF Taken
  <2> HIDE DEF s
  <2> QED
    BY <1>2, <2>1, SettledFrame
<1>4. interface' \in [cycle : Cycles, canProbeRtt : BOOLEAN]
  BY <1>1 DEF BbrInv, CycleAfter, Event, Taken
<1>5. UNCHANGED <<cc, options>>
  BY DEF OnCongestionEvent
<1>6. (Settled(bbr))'
  BY <1>3, <1>5 DEF Settled, WindowIsOpen, RateBasedStartup, InRecovery, Sound, Flags, Gains, Clock,
                    Sampled, Failed
<1> QED
  BY <1>4, <1>5, <1>6 DEF BbrInv

\* Every step keeps the invariant.
LEMMA NextInv == BbrInv /\ [Next]_vars => BbrInv'
<1> SUFFICES ASSUME BbrInv, [Next]_vars PROVE BbrInv'
  OBVIOUS
<1>1. CASE Ack \/ Lose
  BY <1>1, EventInv DEF Ack, Lose
<1> DEFINE Keeps == UNCHANGED <<cc, options, interface>>
<1>2. ASSUME Settled(bbr'), Keeps PROVE BbrInv'
  BY <1>2 DEF BbrInv, Settled, WindowIsOpen, RateBasedStartup, InRecovery, Sound, Flags, Gains, Clock,
              Sampled, Failed
<1>3. CASE OnPacketSent
  <2>1. Keeps /\ \E a : bbr' = [bbr EXCEPT !.exiting_quiescence = a]
    BY <1>3 DEF OnPacketSent
  <2>2. PICK a : bbr' = [bbr EXCEPT !.exiting_quiescence = a]
    BY <2>1
  <2>3. Settled(bbr)
    BY DEF BbrInv
  <2>4. Settled([bbr EXCEPT !.exiting_quiescence = a])
    BY <2>3, SettledFrame
  <2>5. Settled(bbr')
    BY <2>2, <2>4
  <2> QED
    BY <1>2, <2>1, <2>5
<1>4. CASE SetFromConfig
  <2>1. options = {} /\ UNCHANGED <<cc, interface, bbr>>
    BY <1>4 DEF SetFromConfig
  <2>2. WindowIsOpen(bbr)'
    BY <2>1 DEF BbrInv, Settled, WindowIsOpen, RateBasedStartup, InRecovery
  <2> QED
    BY <2>1, <2>2 DEF BbrInv, Settled, Sound, Flags, Gains, Clock, Sampled, Failed
<1>5. CASE AdjustNetworkParameters
  <2>1. PICK bandwidth \in BOOLEAN, rtt \in BOOLEAN :
          bbr' = [bbr EXCEPT !.bandwidth_nonzero = @ \/ bandwidth,
                             !.injected = @ \/ (bandwidth /\ ~bbr.bandwidth_nonzero),
                             !.min_rtt = IF rtt /\ @ = "zero" THEN "expired" ELSE @]
    BY <1>5 DEF AdjustNetworkParameters
  <2> DEFINE nonzero  == bbr.bandwidth_nonzero \/ bandwidth
             injected == bbr.injected \/ (bandwidth /\ ~bbr.bandwidth_nonzero)
             min_rtt  == IF rtt /\ bbr.min_rtt = "zero" THEN "expired" ELSE bbr.min_rtt
  <2>2. bbr' = [bbr EXCEPT !.bandwidth_nonzero = nonzero, !.injected = injected,
                           !.min_rtt = min_rtt]
    BY <2>1
  <2>3. /\ nonzero \in BOOLEAN /\ injected \in BOOLEAN
        /\ bbr.bandwidth_nonzero = TRUE => nonzero = TRUE
        /\ bbr.injected = TRUE => injected = TRUE
        /\ nonzero = TRUE => bbr.bandwidth_nonzero = TRUE \/ injected = TRUE
    BY DEF BbrInv, Settled, Sound, Flags
  <2> HIDE DEF nonzero, injected, min_rtt
  <2>4. Settled(bbr')
    BY <2>2, <2>3 DEF BbrInv, Settled, WindowIsOpen, InRecovery, RateBasedStartup, Sound, Flags, Gains,
                      Clock, Sampled, Failed, Fields
  <2> QED
    BY <1>2, <1>5, <2>4 DEF AdjustNetworkParameters
<1>6. CASE SetRttProbing
  <2>1. UNCHANGED <<cc, options, bbr>> /\ interface' = [interface EXCEPT !.canProbeRtt = ~@]
    BY <1>6 DEF SetRttProbing
  <2>2. interface' \in [cycle : Cycles, canProbeRtt : BOOLEAN]
    BY <2>1 DEF BbrInv
  <2> QED
    BY <2>1, <2>2 DEF BbrInv, Settled, WindowIsOpen, RateBasedStartup, InRecovery, Sound, Flags, Gains,
                      Clock, Sampled, Failed
<1>7. CASE MinRttExpires
  BY <1>2, <1>7, SettledFrame DEF MinRttExpires, BbrInv
<1>8. CASE ProbeRttTimePasses
  BY <1>2, <1>8, SettledFrame DEF ProbeRttTimePasses, BbrInv
<1>9. CASE UNCHANGED vars
  BY <1>2, <1>9 DEF vars, BbrInv
<1> QED
  BY <1>1, <1>3, <1>4, <1>5, <1>6, <1>7, <1>8, <1>9 DEF Next

\* The constructor establishes the invariant.
LEMMA InitInv == Init => BbrInv
<1> SUFFICES ASSUME Init PROVE BbrInv
  OBVIOUS
<1>1. interface \in [cycle : Cycles, canProbeRtt : BOOLEAN] /\ cc \in Algorithms
  BY DEF Init, InitialCycles, Cycles
<1>2. Settled(bbr)
  BY DEF Init, EnterStartupMode, Fail, Settled, WindowIsOpen, InRecovery, RateBasedStartup, Sound,
         Flags, Gains, Clock, Sampled, Failed, Fields
<1> QED
  BY <1>1, <1>2 DEF BbrInv

\* The inductive invariant holds in every behaviour.
LEMMA BbrInvariant == Spec => []BbrInv
BY InitInv, NextInv, PTL DEF Spec

\* The DCHECKs of the controller hold in every order of events, but for the full
\* sample after an injected bandwidth (gap.cc:663, 845, 864, 866).
THEOREM ChecksHold == Spec => []AssertionsHold
<1>1. BbrInv => AssertionsHold
  BY DEF BbrInv, Settled, Sound, Failed, AssertionsHold
<1> QED
  BY <1>1, BbrInvariant, PTL

\* The window is open between any two events (CalculateRecoveryWindow).
THEOREM WindowStaysOpen == Spec => []WindowOpen
<1>1. BbrInv => WindowOpen
  BY DEF BbrInv, Settled, WindowOpen
<1> QED
  BY <1>1, BbrInvariant, PTL

\* The gains are those of the mode (OnCongestionEvent).
THEOREM GainsOfMode == Spec => []GainsMatchMode
<1>1. BbrInv => GainsMatchMode
  BY DEF BbrInv, Settled, Sound, Flags, Gains, GainsMatchMode
<1> QED
  BY <1>1, BbrInvariant, PTL
-----------------------------------------------------------------------------
(* The members of the controller keep their types.                         *)

\* Before full bandwidth is reached, a round without gain can still be counted.
Typed(s) ==
  /\ s \in State
  /\ s.is_at_full_bandwidth = FALSE => s.rounds_without_gain < NumStartupRtts

TypeInv == TypeOK /\ Typed(bbr)

\* A member may take any value of its type.
LEMMA MemberTyped ==
  ASSUME NEW s, Typed(s)
  PROVE  /\ \A v \in {"STARTUP", "DRAIN", "PROBE_BW", "PROBE_RTT"} : Typed([s EXCEPT !.mode = v])
         /\ \A v \in {"NOT_IN_RECOVERY", "CONSERVATION", "GROWTH"} :
              Typed([s EXCEPT !.recovery_state = v])
         /\ \A v \in {"zero", "set"} : Typed([s EXCEPT !.recovery_window = v])
         /\ \A v \in 0 .. MaxSpan : /\ Typed([s EXCEPT !.round_trip_end = v])
                                    /\ Typed([s EXCEPT !.end_recovery_at = v])
         /\ \A v \in BOOLEAN : /\ Typed([s EXCEPT !.last_round_nonzero = v])
                               /\ Typed([s EXCEPT !.bandwidth_nonzero = v])
                               /\ Typed([s EXCEPT !.has_full_sample = v])
                               /\ Typed([s EXCEPT !.last_app_limited = v])
                               /\ Typed([s EXCEPT !.exiting_quiescence = v])
                               /\ Typed([s EXCEPT !.probe_rtt_round = v])
                               /\ Typed([s EXCEPT !.slowstart = v])
                               /\ Typed([s EXCEPT !.injected = v])
                               /\ Typed([s EXCEPT !.lossy = v])
                               /\ Typed([s EXCEPT !.acks = v])
         /\ \A v \in {"zero", "fresh", "expired"} : Typed([s EXCEPT !.min_rtt = v])
         /\ \A v \in {"zero", "future", "passed"} : Typed([s EXCEPT !.exit_probe_rtt_at = v])
         /\ \A v \in {"high", "drain", "one", "up", "down"} : Typed([s EXCEPT !.pacing_gain = v])
         /\ \A v \in {"high", "constant"} : Typed([s EXCEPT !.window_gain = v])
         /\ \A v \in 0 .. 2 : Typed([s EXCEPT !.offset = v])
         /\ \A v \in Checks : Typed([s EXCEPT !.failed = @ \cup {v}])
         /\ Typed([s EXCEPT !.rounds_without_gain = 0])
<1> USE DEF Typed, State
<1>1. \A v \in {"STARTUP", "DRAIN", "PROBE_BW", "PROBE_RTT"} : Typed([s EXCEPT !.mode = v])
  OBVIOUS
<1>2. \A v \in {"NOT_IN_RECOVERY", "CONSERVATION", "GROWTH"} : Typed([s EXCEPT !.recovery_state = v])
  OBVIOUS
<1>3. \A v \in {"zero", "set"} : Typed([s EXCEPT !.recovery_window = v])
  OBVIOUS
<1>4. \A v \in 0 .. MaxSpan : Typed([s EXCEPT !.round_trip_end = v]) /\ Typed([s EXCEPT !.end_recovery_at = v])
  OBVIOUS
<1>5. \A v \in BOOLEAN : Typed([s EXCEPT !.last_round_nonzero = v]) /\ Typed([s EXCEPT !.bandwidth_nonzero = v])
  OBVIOUS
<1>6. \A v \in BOOLEAN : Typed([s EXCEPT !.has_full_sample = v]) /\ Typed([s EXCEPT !.last_app_limited = v])
  OBVIOUS
<1>7. \A v \in BOOLEAN : Typed([s EXCEPT !.exiting_quiescence = v]) /\ Typed([s EXCEPT !.probe_rtt_round = v])
  OBVIOUS
<1>8. \A v \in BOOLEAN : Typed([s EXCEPT !.slowstart = v]) /\ Typed([s EXCEPT !.injected = v])
  OBVIOUS
<1>9. \A v \in BOOLEAN : Typed([s EXCEPT !.lossy = v]) /\ Typed([s EXCEPT !.acks = v])
  OBVIOUS
<1>10. \A v \in {"zero", "fresh", "expired"} : Typed([s EXCEPT !.min_rtt = v])
  OBVIOUS
<1>11. \A v \in {"zero", "future", "passed"} : Typed([s EXCEPT !.exit_probe_rtt_at = v])
  OBVIOUS
<1>12. \A v \in {"high", "drain", "one", "up", "down"} : Typed([s EXCEPT !.pacing_gain = v])
  OBVIOUS
<1>13. \A v \in {"high", "constant"} : Typed([s EXCEPT !.window_gain = v])
  OBVIOUS
<1>14. \A v \in 0 .. 2 : Typed([s EXCEPT !.offset = v])
  OBVIOUS
<1>15. \A v \in Checks : Typed([s EXCEPT !.failed = @ \cup {v}])
  OBVIOUS
<1>16. Typed([s EXCEPT !.rounds_without_gain = 0])
  BY BoundsAssumption
<1> HIDE DEF Typed, State
<1> QED
  BY <1>1, <1>2, <1>3, <1>4, <1>5, <1>6, <1>7, <1>8, <1>9, <1>10, <1>11, <1>12, <1>13, <1>14, <1>15, <1>16

\* A round trip and a recovery end with a packet that was sent.
LEMMA InputTyped ==
  ASSUME NEW s, NEW e, Typed(s), Event(e), last_sent \in 0 .. MaxSpan, NEW round_start
  PROVE  Typed(UpdateRecoveryState(UpdateBandwidthAndMinRtt(UpdateRoundTripCounter(s, e), e), e, round_start))
<1> USE DEF Typed, State
<1> DEFINE t == UpdateRoundTripCounter(s, e)
           u == UpdateBandwidthAndMinRtt(t, e)
           v == [u EXCEPT !.end_recovery_at = EndRecoveryAt(u, e)]
<1>1. Typed(t)
  BY DEF UpdateRoundTripCounter
<1> HIDE DEF t
<1>2. Typed(u)
  <2>1. CASE e.sample = "none"
    BY <1>1, <2>1 DEF UpdateBandwidthAndMinRtt
  <2>2. CASE e.sample # "none"
    <3> DEFINE full    == t.has_full_sample \/ e.sample # "limited"
               limited == e.sample # "full"
    <3>1. full \in BOOLEAN /\ limited \in BOOLEAN
      OBVIOUS
    <3>2. u = [t EXCEPT !.bandwidth_nonzero = TRUE, !.has_full_sample = full,
                        !.last_app_limited = limited, !.min_rtt = "fresh"]
      BY <1>1, <2>2 DEF UpdateBandwidthAndMinRtt
    <3> DEFINE a == [t EXCEPT !.bandwidth_nonzero = TRUE]
               b == [a EXCEPT !.has_full_sample = full]
               c == [b EXCEPT !.last_app_limited = limited]
    <3>3. u = [c EXCEPT !.min_rtt = "fresh"]
      BY <3>2
    <3> HIDE DEF full, limited, u, Typed
    <3>4. Typed(a) /\ Typed(b) /\ Typed(c)
      BY <1>1, <3>1, MemberTyped
    <3> HIDE DEF a, b, c
    <3> QED
      BY <3>3, <3>4, MemberTyped
  <2> QED
    BY <2>1, <2>2
<1> HIDE DEF u
<1>3. Typed(v)
  BY <1>2 DEF EndRecoveryAt
<1>4. \/ UpdateRecoveryState(u, e, round_start) = v
      \/ UpdateRecoveryState(u, e, round_start) =
           [v EXCEPT !.recovery_state = "CONSERVATION", !.recovery_window = "zero",
                     !.round_trip_end = last_sent]
      \/ \E r \in {"NOT_IN_RECOVERY", "GROWTH", v.recovery_state} :
           UpdateRecoveryState(u, e, round_start) = [v EXCEPT !.recovery_state = r]
  BY DEF UpdateRecoveryState
<1> HIDE DEF v
<1>5. Typed([v EXCEPT !.recovery_state = "CONSERVATION", !.recovery_window = "zero",
                      !.round_trip_end = last_sent])
  BY <1>3
<1>6. ASSUME NEW r \in {"NOT_IN_RECOVERY", "GROWTH", v.recovery_state}
      PROVE  Typed([v EXCEPT !.recovery_state = r])
  BY <1>3
<1> HIDE DEF Typed
<1>7. Typed(UpdateRecoveryState(u, e, round_start))
  BY <1>3, <1>4, <1>5, <1>6
<1> QED
  BY <1>7 DEF t, u

\* A step of the gain cycle.
LEMMA GainCycleTyped ==
  ASSUME NEW s, NEW e, Typed(s), Event(e), BbrInv
  PROVE  Typed(UpdateGainCyclePhaseGap(s, e)) /\ Typed(UpdateGainCyclePhase(s, e))
<1> USE DEF Typed, State
<1>1. Typed(UpdateGainCyclePhaseGap(s, e))
  BY DEF UpdateGainCyclePhaseGap
<1> DEFINE next == NextOffset(s)
           gain == CycleAfter(s, e)[next + 1]
<1>2. interface.cycle \in Cycles /\ CycleAfter(s, e) \in Cycles
  BY DEF BbrInv, CycleAfter, Event
<1>3. next \in 0 .. 2
  <2>1. Len(interface.cycle) = 3
    BY <1>2, CycleGain
  <2> QED
    BY <2>1 DEF NextOffset
<1>4. gain \in {"up", "down", "one"}
  BY <1>2, <1>3, CycleGain
<1> HIDE DEF next, gain
<1>5. \/ UpdateGainCyclePhase(s, e) = s
      \/ \E g \in {gain, s.pacing_gain} :
           UpdateGainCyclePhase(s, e) = [s EXCEPT !.offset = next, !.pacing_gain = g]
  BY DEF UpdateGainCyclePhase, next, gain
<1>6. ASSUME NEW g \in {gain, s.pacing_gain}
      PROVE  Typed([s EXCEPT !.offset = next, !.pacing_gain = g])
  BY <1>3, <1>4
<1> HIDE DEF Typed
<1> QED
  BY <1>1, <1>5, <1>6

\* The rounds without gain are counted up to the limit, which ends the count.
LEMMA FullBandwidthTyped ==
  ASSUME NEW s, NEW e, Typed(s), s.is_at_full_bandwidth = FALSE
  PROVE  Typed(CheckIfFullBandwidthReached(s, e))
<1> USE DEF Typed, State
<1> DEFINE stalled == s.rounds_without_gain + 1
           reached == Stalled(stalled) \/ ("LRTT" \in options /\ InRecovery(s))
           f == Fail(s, "full_sample", s.has_full_sample)
<1>1. CASE s.last_app_limited
  BY <1>1 DEF CheckIfFullBandwidthReached
<1>2. CASE ~ s.last_app_limited /\ (e.gain \/ ~ s.last_round_nonzero)
  <2>1. CheckIfFullBandwidthReached(s, e) =
          [s EXCEPT !.last_round_nonzero = s.bandwidth_nonzero, !.rounds_without_gain = 0]
    BY <1>2 DEF CheckIfFullBandwidthReached
  <2> DEFINE a == [s EXCEPT !.last_round_nonzero = s.bandwidth_nonzero]
  <2>2. CheckIfFullBandwidthReached(s, e) = [a EXCEPT !.rounds_without_gain = 0]
    BY <2>1
  <2>3. s.bandwidth_nonzero \in BOOLEAN
    OBVIOUS
  <2> HIDE DEF Typed
  <2>4. Typed(a)
    BY <2>3, MemberTyped
  <2> HIDE DEF a
  <2> QED
    BY <2>2, <2>4, MemberTyped
<1>3. CASE ~ s.last_app_limited /\ ~ (e.gain \/ ~ s.last_round_nonzero)
  <2>1. \E g \in {f, s} : CheckIfFullBandwidthReached(s, e) =
           [g EXCEPT !.rounds_without_gain = stalled, !.is_at_full_bandwidth = reached]
    BY <1>3 DEF CheckIfFullBandwidthReached, f
  <2>2. Typed(f)
    BY DEF Fail, Checks
  <2>3. stalled \in 0 .. NumStartupRtts
    BY BoundsAssumption
  <2>4. reached \in BOOLEAN /\ (reached = FALSE => stalled < NumStartupRtts)
    BY <2>3, BoundsAssumption DEF Stalled, StartupRtts
  <2> HIDE DEF f, stalled, reached
  <2>5. ASSUME NEW g, Typed(g)
        PROVE  Typed([g EXCEPT !.rounds_without_gain = stalled, !.is_at_full_bandwidth = reached])
    BY <2>3, <2>4, <2>5
  <2> HIDE DEF Typed
  <2> QED
    BY <2>1, <2>2, <2>5
<1> QED
  BY <1>1, <1>2, <1>3

\* STARTUP is entered.
LEMMA StartupTyped ==
  ASSUME NEW s, Typed(s)
  PROVE  Typed(EnterStartupMode(s))
<1> DEFINE f == Fail(s, "start_time", ~ s.slowstart)
           a == [f EXCEPT !.slowstart = TRUE]
           b == [a EXCEPT !.mode = "STARTUP"]
           c == [b EXCEPT !.pacing_gain = "high"]
<1>1. EnterStartupMode(s) = [c EXCEPT !.window_gain = "high"]
  BY DEF EnterStartupMode
<1>2. Typed(f)
  BY MemberTyped DEF Fail, Checks
<1> HIDE DEF f
<1>3. Typed(a) /\ Typed(b) /\ Typed(c)
  BY <1>2, MemberTyped
<1> HIDE DEF a, b, c
<1> QED
  BY <1>1, <1>3, MemberTyped

\* The changes of mode.
LEMMA ModesTyped ==
  ASSUME NEW s, NEW e, Typed(s), Event(e), BbrInv
  PROVE  /\ Typed(OnExitStartup(s))
         /\ Typed(EnterProbeBandwidthMode(s, e)) /\ Typed(MaybeExitStartupOrDrain(s, e))
<1> USE DEF Typed, State
<1>1. ASSUME NEW t, Typed(t), NEW ok, NEW check \in Checks
      PROVE  Typed(Fail(t, check, ok))
  BY <1>1 DEF Fail
<1>2. Typed(OnExitStartup(s))
  <2> DEFINE f == Fail(s, "exit_mode", s.mode = "STARTUP")
             g == Fail(f, "exit_time", s.slowstart)
  <2>1. Typed(f) /\ Typed(g)
    <3> HIDE DEF Typed
    <3> QED
      BY <1>1 DEF Checks
  <2>2. OnExitStartup(s) = [g EXCEPT !.slowstart = FALSE]
    BY DEF OnExitStartup
  <2> HIDE DEF f, g
  <2> QED
    BY <2>1, <2>2
<1>3. ASSUME NEW t, Typed(t) PROVE Typed(EnterProbeBandwidthMode(t, e))
  <2> DEFINE offset == RandomOffset(e.random)
             gain   == interface.cycle[offset + 1]
  <2>1. offset \in 0 .. 2
    BY DEF Event, RandomOffset
  <2>2. gain \in {"high", "drain", "one", "up", "down"}
    BY <2>1, CycleGain DEF BbrInv
  <2> DEFINE a == [t EXCEPT !.mode = "PROBE_BW"]
             b == [a EXCEPT !.window_gain = "constant"]
             c == [b EXCEPT !.offset = offset]
  <2>3. EnterProbeBandwidthMode(t, e) = [c EXCEPT !.pacing_gain = gain]
    BY DEF EnterProbeBandwidthMode
  <2> HIDE DEF offset, gain, Typed
  <2>4. Typed(a) /\ Typed(b) /\ Typed(c)
    BY <1>3, <2>1, MemberTyped
  <2> HIDE DEF a, b, c
  <2>5. \A v \in {"high", "drain", "one", "up", "down"} : Typed([c EXCEPT !.pacing_gain = v])
    BY <2>4, MemberTyped
  <2> QED
    BY <2>2, <2>3, <2>5
<1>4. Typed(MaybeExitStartupOrDrain(s, e))
  <2> DEFINE x == OnExitStartup(s)
             a == [x EXCEPT !.mode = "DRAIN"]
             b == [a EXCEPT !.pacing_gain = "drain"]
             d == [b EXCEPT !.window_gain = "high"]
  <2>1. Typed(d)
    <3> HIDE DEF Typed
    <3>1. Typed(a) /\ Typed(b)
      BY <1>2, MemberTyped
    <3> HIDE DEF b
    <3> QED
      BY <3>1, MemberTyped
  <2>2. \E t \in {s, d} : MaybeExitStartupOrDrain(s, e) \in {t, EnterProbeBandwidthMode(t, e)}
    BY DEF MaybeExitStartupOrDrain
  <2> HIDE DEF d, Typed
  <2> QED
    BY <1>3, <2>1, <2>2
<1> QED
  BY <1>2, <1>3, <1>4

\* PROBE_RTT and the recovery window.
LEMMA ProbeRttTyped ==
  ASSUME NEW s, NEW e, Typed(s), Event(e), BbrInv, NEW flight, NEW round_start, NEW expired
  PROVE  /\ Typed(MaybeEnterOrExitProbeRtt(s, e, flight, round_start, expired))
         /\ Typed(CalculateRecoveryWindow(s))
<1> USE DEF Typed, State
<1> DEFINE t == IF EntersProbeRtt(s, expired) THEN EnterProbeRtt(s) ELSE s
           u == IF t.mode = "PROBE_RTT" THEN InProbeRtt(t, e, flight, round_start) ELSE t
<1>1. Typed(t)
  <2> DEFINE x == IF s.mode = "STARTUP" THEN OnExitStartup(s) ELSE s
             a == [x EXCEPT !.mode = "PROBE_RTT"]
             b == [a EXCEPT !.pacing_gain = "one"]
  <2> HIDE DEF Typed
  <2>1. Typed(x)
    BY ModesTyped
  <2>2. EnterProbeRtt(s) = [b EXCEPT !.exit_probe_rtt_at = "zero"]
    BY DEF EnterProbeRtt
  <2> HIDE DEF x
  <2>3. Typed(EnterProbeRtt(s))
    <3>1. Typed(a) /\ Typed(b)
      BY <2>1, MemberTyped
    <3> HIDE DEF b
    <3> QED
      BY <2>2, <3>1, MemberTyped
  <2> QED
    BY <2>3
<1> HIDE DEF t
<1>2. Typed(InProbeRtt(t, e, flight, round_start))
  <2> DEFINE p == t.probe_rtt_round \/ round_start
             v == [t EXCEPT !.probe_rtt_round = p]
             y == [t EXCEPT !.exit_probe_rtt_at = "future"]
             w == [y EXCEPT !.probe_rtt_round = FALSE]
             x == [v EXCEPT !.min_rtt = "fresh"]
  <2>1. p \in BOOLEAN
    OBVIOUS
  <2>2. InProbeRtt(t, e, flight, round_start) \in {t, v, w, ExitProbeRtt(v, e)}
    BY DEF InProbeRtt
  <2> HIDE DEF p
  <2>3. Typed(v) /\ Typed(w)
    <3> HIDE DEF Typed
    <3>1. Typed(v) /\ Typed(y)
      BY <1>1, <2>1, MemberTyped
    <3> HIDE DEF y
    <3> QED
      BY <3>1, MemberTyped
  <2>4. ExitProbeRtt(v, e) \in {EnterProbeBandwidthMode(x, e), EnterStartupMode(x)}
    BY DEF ExitProbeRtt
  <2> HIDE DEF v, w
  <2>5. Typed(x)
    BY <2>3
  <2> HIDE DEF x, Typed
  <2>6. Typed(EnterProbeBandwidthMode(x, e)) /\ Typed(EnterStartupMode(x))
    BY <2>5, ModesTyped, StartupTyped
  <2> QED
    BY <1>1, <2>2, <2>3, <2>4, <2>6
<1>3. Typed(u)
  BY <1>1, <1>2
<1>4. MaybeEnterOrExitProbeRtt(s, e, flight, round_start, expired) =
        [u EXCEPT !.exiting_quiescence = FALSE]
  BY DEF MaybeEnterOrExitProbeRtt, t
<1> HIDE DEF u
<1>5. Typed(MaybeEnterOrExitProbeRtt(s, e, flight, round_start, expired))
  BY <1>3, <1>4
<1>6. Typed(CalculateRecoveryWindow(s))
  BY DEF CalculateRecoveryWindow
<1> QED
  BY <1>5, <1>6

\* A whole event.
LEMMA CongestionTyped ==
  ASSUME BbrInv, TypeInv, NEW e, Event(e), NEW flight
  PROVE  Typed(Congestion(bbr, e, flight))
<1> DEFINE round_start == IsRoundStart(bbr, e)
           expired     == MinRttExpired(bbr, e)
           input       == IF e.acked = {} THEN bbr
                          ELSE UpdateRecoveryState(
                                 UpdateBandwidthAndMinRtt(UpdateRoundTripCounter(bbr, e), e),
                                 e, round_start)
           cycled      == IF input.mode # "PROBE_BW" THEN input
                          ELSE IF cc = "gap" THEN UpdateGainCyclePhaseGap(input, e)
                          ELSE UpdateGainCyclePhase(input, e)
           checked     == IF round_start /\ ~cycled.is_at_full_bandwidth
                          THEN CheckIfFullBandwidthReached(cycled, e) ELSE cycled
           left        == MaybeExitStartupOrDrain(checked, e)
           probed      == MaybeEnterOrExitProbeRtt(left, e, flight, round_start, expired)
<1>1. Congestion(bbr, e, flight) = CalculateRecoveryWindow(probed)
  BY DEF Congestion
<1>2. Typed(input)
  BY InputTyped DEF TypeInv, TypeOK
<1> HIDE DEF input
<1>3. Typed(cycled)
  BY <1>2, GainCycleTyped
<1> HIDE DEF cycled
<1>4. Typed(checked)
  <2>1. CASE cycled.is_at_full_bandwidth = TRUE
    BY <1>3, <2>1
  <2>2. CASE cycled.is_at_full_bandwidth = FALSE
    BY <1>3, <2>2, FullBandwidthTyped
  <2> QED
    BY <1>3, <2>1, <2>2 DEF Typed, State
<1> HIDE DEF checked
<1>5. Typed(left)
  BY <1>4, ModesTyped
<1> HIDE DEF left
<1>6. Typed(probed)
  BY <1>5, ProbeRttTyped
<1> HIDE DEF probed
<1> QED
  BY <1>1, <1>6, ProbeRttTyped
-----------------------------------------------------------------------------
(* Packet numbers.                                                         *)

\* A set of packet numbers that is not empty has a least one.
LEMMA Oldest ==
  ASSUME NEW S, S \subseteq Nat, S # {}
  PROVE  Min(S) \in S /\ \A n \in S : Min(S) <= n
<1> DEFINE R == {ss \in Nat \X Nat : ss[1] < ss[2]}
<1>1. IsWellFoundedOn(R, Nat)
  BY NatLessThanWellFounded DEF OpToRel
<1>2. \A x, y \in Nat : x < y => <<x, y>> \in R
  OBVIOUS
<1> HIDE DEF R
<1>3. PICK m \in S : \A n \in S : ~ (<<n, m>> \in R)
  BY <1>1, WFMin
<1>4. \A n \in S : ~ (n < m)
  BY <1>2, <1>3
<1>5. \A n \in S : m <= n
  BY <1>4
<1> QED
  BY <1>5 DEF Min

\* Counting from the oldest packet in flight keeps the order of the numbers.
LEMMA RebaseCounts ==
  ASSUME last_sent \in Nat, NEW flight, flight \subseteq 1 .. last_sent
  PROVE  /\ \A n \in Nat : Rebase(n, flight) \in 0 .. n
         /\ \A n \in flight : Rebase(n, flight) \in 1 .. Rebase(last_sent, flight)
<1> DEFINE S == flight \cup {last_sent + 1}
           oldest == Min(S)
           base == oldest - 1
<1>1. S \subseteq Nat /\ S # {} /\ \A n \in S : n > 0
  OBVIOUS
<1>2. oldest \in S /\ \A n \in S : oldest <= n
  BY <1>1, Oldest
<1>3. \A n : Rebase(n, flight) = IF n > base THEN n - base ELSE 0
  BY DEF Rebase
<1> HIDE DEF S, oldest
<1>4. base \in Nat /\ \A n \in S : n > base
  BY <1>1, <1>2
<1> HIDE DEF base
<1>5. \A n \in Nat : Rebase(n, flight) \in 0 .. n
  BY <1>4, <1>3
<1>6. ASSUME NEW n \in flight PROVE Rebase(n, flight) \in 1 .. Rebase(last_sent, flight)
  <2>1. n \in Nat /\ n > base /\ n <= last_sent
    BY <1>4 DEF S
  <2> QED
    BY <1>4, <1>3, <2>1
<1> QED
  BY <1>5, <1>6
-----------------------------------------------------------------------------
(* The actions keep the types.                                             *)

\* An acknowledgement or a loss.
LEMMA EventTyped ==
  ASSUME BbrInv, TypeInv, NEW acked, NEW lost, OnCongestionEvent(acked, lost)
  PROVE  TypeInv'
<1> DEFINE flight == inflight \ (acked \cup lost)
<1>1. PICK e : Taken(e, acked, lost)
  BY EventTaken
<1> DEFINE s == Congestion(bbr, e, flight)
           lossy == lost # {} /\ InRecovery(bbr)
           acks  == (s.acks # (acked # {}))
           a == [s EXCEPT !.lossy = lossy]
           b == [a EXCEPT !.acks = acks]
           c == [b EXCEPT !.round_trip_end = Rebase(s.round_trip_end, flight)]
           d == [c EXCEPT !.end_recovery_at = Rebase(s.end_recovery_at, flight)]
<1>2. Typed(s)
  BY <1>1, CongestionTyped DEF Taken
<1>3. /\ last_sent \in Nat /\ last_sent <= MaxSpan /\ flight \subseteq 1 .. last_sent
      /\ last_sent' = Rebase(last_sent, flight)
      /\ inflight' = {Rebase(n, flight) : n \in flight}
      /\ UNCHANGED <<cc, options>>
  BY BoundsAssumption DEF TypeInv, TypeOK, OnCongestionEvent
<1>4. /\ last_sent' \in 0 .. MaxSpan
      /\ inflight' \subseteq 1 .. last_sent'
  BY <1>3, RebaseCounts, BoundsAssumption
<1>5. \A n \in 0 .. MaxSpan : Rebase(n, flight) \in 0 .. MaxSpan
  BY <1>3, RebaseCounts, BoundsAssumption
<1>6. bbr' = d
  BY <1>1 DEF Taken
<1>7. /\ Rebase(s.round_trip_end, flight) \in 0 .. MaxSpan
      /\ Rebase(s.end_recovery_at, flight) \in 0 .. MaxSpan
  BY <1>2, <1>5 DEF Typed, State
<1>8. lossy \in BOOLEAN /\ acks \in BOOLEAN
  OBVIOUS
<1> HIDE DEF s, lossy, acks, flight
<1>9. Typed(a) /\ Typed(b)
  BY <1>2, <1>8, MemberTyped
<1> HIDE DEF a, b
<1>10. Typed(c)
  BY <1>7, <1>9, MemberTyped
<1> HIDE DEF c
<1>11. Typed(d)
  BY <1>7, <1>10, MemberTyped
<1>12. interface' \in [cycle : Cycles, canProbeRtt : BOOLEAN]
  BY <1>1 DEF BbrInv, CycleAfter, Event, Taken
<1>13. Typed(bbr')
  BY <1>6, <1>11
<1> QED
  BY <1>3, <1>4, <1>12, <1>13 DEF TypeInv, TypeOK, Typed, State

\* Every step keeps the types.
LEMMA NextTyped == BbrInv /\ TypeInv /\ [Next]_vars => TypeInv'
<1> SUFFICES ASSUME BbrInv, TypeInv, [Next]_vars PROVE TypeInv'
  OBVIOUS
<1>1. Typed(bbr)
  BY DEF TypeInv
<1>2. CASE Ack \/ Lose
  BY <1>2, EventTyped DEF Ack, Lose
<1>3. ASSUME Typed(bbr'), UNCHANGED <<cc, inflight, last_sent>>,
             options' \in OptionSets \cup {{}},
             interface' \in [cycle : Cycles, canProbeRtt : BOOLEAN]
      PROVE  TypeInv'
  BY <1>3 DEF TypeInv, TypeOK, Typed, State
<1>4. ASSUME Typed(bbr'), UNCHANGED <<cc, inflight, last_sent, options, interface>>
       PROVE  TypeInv'
  BY <1>3, <1>4 DEF TypeInv, TypeOK
<1>5. CASE OnPacketSent
  <2>1. PICK app_limited \in BOOLEAN :
          bbr' = [bbr EXCEPT !.exiting_quiescence = @ \/ (inflight = {} /\ app_limited)]
    BY <1>5 DEF OnPacketSent
  <2> DEFINE q == bbr.exiting_quiescence \/ (inflight = {} /\ app_limited)
  <2>2. q \in BOOLEAN /\ bbr' = [bbr EXCEPT !.exiting_quiescence = q]
    BY <2>1
  <2> HIDE DEF q
  <2>3. Typed(bbr')
    BY <1>1, <2>2, MemberTyped
  <2>4. last_sent' \in 0 .. MaxSpan /\ inflight' \subseteq 1 .. last_sent'
    BY <1>5, BoundsAssumption DEF OnPacketSent, TypeInv, TypeOK
  <2>5. UNCHANGED <<cc, options, interface>>
    BY <1>5 DEF OnPacketSent
  <2> QED
    BY <2>3, <2>4, <2>5 DEF TypeInv, TypeOK, Typed, State
<1>6. CASE SetFromConfig
  BY <1>1, <1>3, <1>6 DEF SetFromConfig, TypeInv, TypeOK
<1>7. CASE AdjustNetworkParameters
  <2>1. PICK bandwidth \in BOOLEAN, rtt \in BOOLEAN :
          bbr' = [bbr EXCEPT !.bandwidth_nonzero = @ \/ bandwidth,
                             !.injected = @ \/ (bandwidth /\ ~bbr.bandwidth_nonzero),
                             !.min_rtt = IF rtt /\ @ = "zero" THEN "expired" ELSE @]
    BY <1>7 DEF AdjustNetworkParameters
  <2> DEFINE nonzero  == bbr.bandwidth_nonzero \/ bandwidth
             injected == bbr.injected \/ (bandwidth /\ ~bbr.bandwidth_nonzero)
             min_rtt  == IF rtt /\ bbr.min_rtt = "zero" THEN "expired" ELSE bbr.min_rtt
             a == [bbr EXCEPT !.bandwidth_nonzero = nonzero]
             b == [a EXCEPT !.injected = injected]
             c == [b EXCEPT !.min_rtt = min_rtt]
  <2>2. bbr' = c
    BY <2>1
  <2>3. /\ nonzero \in BOOLEAN /\ injected \in BOOLEAN
        /\ min_rtt \in {"zero", "fresh", "expired"}
    BY <1>1 DEF Typed, State
  <2> HIDE DEF nonzero, injected, min_rtt
  <2>4. Typed(a) /\ Typed(b)
    BY <1>1, <2>3, MemberTyped
  <2> HIDE DEF b
  <2>5. Typed(c)
    BY <2>3, <2>4, MemberTyped
  <2> QED
    BY <1>4, <1>7, <2>2, <2>5 DEF AdjustNetworkParameters
<1>8. CASE SetRttProbing
  <2>1. /\ UNCHANGED <<cc, options, inflight, last_sent, bbr>>
        /\ interface' = [interface EXCEPT !.canProbeRtt = ~@]
    BY <1>8 DEF SetRttProbing
  <2>2. interface' \in [cycle : Cycles, canProbeRtt : BOOLEAN]
    BY <2>1 DEF BbrInv
  <2> QED
    BY <1>1, <1>3, <2>1, <2>2 DEF TypeInv, TypeOK
<1>9. CASE MinRttExpires
  BY <1>1, <1>4, <1>9, MemberTyped DEF MinRttExpires
<1>10. CASE ProbeRttTimePasses
  BY <1>1, <1>4, <1>10, MemberTyped DEF ProbeRttTimePasses
<1>11. CASE UNCHANGED vars
  BY <1>1, <1>4, <1>11 DEF vars
<1> QED
  BY <1>2, <1>5, <1>6, <1>7, <1>8, <1>9, <1>10, <1>11 DEF Next

\* The members of the controller and the packet numbers keep their types, however
\* many rounds pass without gain and whatever is acknowledged or lost.
THEOREM BbrTypeCorrect == Spec => []TypeOK
<1>1. Init => TypeInv
  <2> SUFFICES ASSUME Init PROVE TypeInv
    OBVIOUS
  <2> DEFINE s ==
       [mode |-> "STARTUP", recovery_state |-> "NOT_IN_RECOVERY",
        recovery_window |-> "set", round_trip_end |-> 0, end_recovery_at |-> 0,
        is_at_full_bandwidth |-> FALSE, rounds_without_gain |-> 0,
        last_round_nonzero |-> FALSE, bandwidth_nonzero |-> FALSE,
        has_full_sample |-> FALSE, last_app_limited |-> FALSE,
        exiting_quiescence |-> FALSE, min_rtt |-> "zero",
        exit_probe_rtt_at |-> "zero", probe_rtt_round |-> FALSE,
        pacing_gain |-> "one", window_gain |-> "high", offset |-> 0,
        slowstart |-> FALSE, injected |-> FALSE, lossy |-> FALSE,
        acks |-> FALSE, failed |-> {}]
  <2>1. Typed(s)
    BY BoundsAssumption DEF Typed, State
  <2>2. bbr = EnterStartupMode(s)
    BY DEF Init
  <2> HIDE DEF s
  <2>3. Typed(bbr)
    BY <2>1, <2>2, StartupTyped
  <2>4. interface \in [cycle : Cycles, canProbeRtt : BOOLEAN]
    BY InitInv DEF BbrInv
  <2> QED
    BY <2>3, <2>4, BoundsAssumption DEF Init, TypeInv, TypeOK, Typed
<1>2. Spec => []TypeInv
  BY <1>1, NextTyped, BbrInvariant, PTL DEF Spec
<1>3. TypeInv => TypeOK
  BY DEF TypeInv
<1> QED
  BY <1>2, <1>3, PTL
-----------------------------------------------------------------------------
(* The gain cycle of target.cc.                                            *)

\* In PROBE_BW the gain is the one at the offset, but for the drain that BBR3
\* prolongs.
AtOffset(s) ==
  s.mode = "PROBE_BW" =>
    \/ interface.cycle = FlatCycle /\ s.pacing_gain = "one"
    \/ /\ interface.cycle = DefaultCycle
       /\ \/ s.offset = 0 /\ s.pacing_gain = "up"
          \/ s.offset = 1 /\ s.pacing_gain = "down"
          \/ s.offset = 2 /\ s.pacing_gain \in {"one", "down"}

TargetInv ==
  cc = "target" => interface.cycle \in {DefaultCycle, FlatCycle} /\ AtOffset(bbr)

\* t is at an offset and does not drain unless s does.
NoDrain(s, t) ==
  AtOffset(t) /\ (t.pacing_gain = "down" => s.pacing_gain = "down")

\* PROBE_BW is entered with the gain above one, or with the gain one.
LEMMA EntersWithoutDrain ==
  ASSUME NEW s, NEW e, DOMAIN s = Fields, Event(e),
         interface.cycle \in {DefaultCycle, FlatCycle}
  PROVE  /\ AtOffset(EnterProbeBandwidthMode(s, e))
         /\ EnterProbeBandwidthMode(s, e).pacing_gain # "down"
<1> DEFINE offset == RandomOffset(e.random)
           gain   == interface.cycle[offset + 1]
<1>1. \/ interface.cycle = DefaultCycle /\ offset = 0 /\ gain = "up"
      \/ interface.cycle = DefaultCycle /\ offset = 2 /\ gain = "one"
      \/ interface.cycle = FlatCycle /\ gain = "one"
  <2>1. offset = 0 \/ offset = 2
    BY DEF Event, RandomOffset
  <2>2. /\ DefaultCycle[1] = "up" /\ DefaultCycle[3] = "one"
        /\ FlatCycle[1] = "one" /\ FlatCycle[3] = "one"
    BY DEF DefaultCycle, FlatCycle
  <2> QED
    BY <2>1, <2>2
<1>2. EnterProbeBandwidthMode(s, e) =
        [s EXCEPT !.mode = "PROBE_BW", !.window_gain = "constant",
                  !.offset = offset, !.pacing_gain = gain]
  BY DEF EnterProbeBandwidthMode
<1> HIDE DEF offset, gain
<1> QED
  BY <1>1, <1>2 DEF AtOffset, Fields

\* Neither the end of STARTUP or DRAIN nor PROBE_RTT starts to drain.
LEMMA ModesWithoutDrain ==
  ASSUME NEW s, NEW e, Sound(s), Event(e),
         interface.cycle \in {DefaultCycle, FlatCycle}, AtOffset(s),
         NEW flight, NEW round_start, NEW expired
  PROVE  /\ NoDrain(s, MaybeExitStartupOrDrain(s, e))
         /\ NoDrain(s, MaybeEnterOrExitProbeRtt(s, e, flight, round_start, expired))
         /\ NoDrain(s, CalculateRecoveryWindow(s))
<1> USE DEF NoDrain
<1>1. NoDrain(s, MaybeExitStartupOrDrain(s, e))
  <2> DEFINE t == IF s.mode = "STARTUP" /\ s.is_at_full_bandwidth
                  THEN [OnExitStartup(s) EXCEPT !.mode = "DRAIN", !.pacing_gain = "drain",
                                                !.window_gain = "high"]
                  ELSE s
  <2>1. NoDrain(s, t) /\ DOMAIN t = Fields
    <3>1. CASE s.mode = "STARTUP" /\ s.is_at_full_bandwidth
      <4>1. t = [s EXCEPT !.slowstart = FALSE, !.mode = "DRAIN", !.pacing_gain = "drain",
                          !.window_gain = "high"]
        BY <3>1, OnExitStartupEffect DEF Sound, Fields
      <4> QED
        BY <4>1 DEF Sound, Fields, AtOffset
    <3>2. CASE ~ (s.mode = "STARTUP" /\ s.is_at_full_bandwidth)
      BY <3>2 DEF Sound
    <3> QED
      BY <3>1, <3>2
  <2>2. MaybeExitStartupOrDrain(s, e) \in {t, EnterProbeBandwidthMode(t, e)}
    BY DEF MaybeExitStartupOrDrain
  <2> HIDE DEF t
  <2> QED
    BY <2>1, <2>2, EntersWithoutDrain
<1>2. NoDrain(s, MaybeEnterOrExitProbeRtt(s, e, flight, round_start, expired))
  <2> DEFINE t == IF EntersProbeRtt(s, expired) THEN EnterProbeRtt(s) ELSE s
             u == IF t.mode = "PROBE_RTT" THEN InProbeRtt(t, e, flight, round_start) ELSE t
  <2>1. DOMAIN t = Fields /\ NoDrain(s, t)
    <3>1. DOMAIN EnterProbeRtt(s) = Fields /\ NoDrain(s, EnterProbeRtt(s))
      <4> DEFINE x == IF s.mode = "STARTUP" THEN OnExitStartup(s) ELSE s
      <4>1. DOMAIN x = Fields
        BY OnExitStartupEffect DEF Sound
      <4>2. EnterProbeRtt(s) =
              [x EXCEPT !.mode = "PROBE_RTT", !.pacing_gain = "one", !.exit_probe_rtt_at = "zero"]
        BY DEF EnterProbeRtt
      <4> HIDE DEF x
      <4> QED
        BY <4>1, <4>2 DEF AtOffset, Fields
    <3> QED
      BY <3>1 DEF Sound
  <2>2. MaybeEnterOrExitProbeRtt(s, e, flight, round_start, expired) =
          [u EXCEPT !.exiting_quiescence = FALSE]
    BY DEF MaybeEnterOrExitProbeRtt
  <2> HIDE DEF t
  <2>3. ASSUME t.mode = "PROBE_RTT"
        PROVE  LET r == InProbeRtt(t, e, flight, round_start)
               IN  DOMAIN r = Fields /\ NoDrain(t, r)
    <3> DEFINE v == [t EXCEPT !.probe_rtt_round = @ \/ round_start]
               w == [t EXCEPT !.exit_probe_rtt_at = "future", !.probe_rtt_round = FALSE]
               x == [v EXCEPT !.min_rtt = "fresh"]
               r == InProbeRtt(t, e, flight, round_start)
    <3>1. r \in {t, v, w, EnterProbeBandwidthMode(x, e), EnterStartupMode(x)}
      BY DEF InProbeRtt, ExitProbeRtt
    <3>2. /\ DOMAIN v = Fields /\ NoDrain(t, v) /\ DOMAIN w = Fields /\ NoDrain(t, w)
          /\ DOMAIN x = Fields
      BY <2>1, <2>3 DEF AtOffset, Fields
    <3> HIDE DEF v, w, x
    <3>3. DOMAIN EnterStartupMode(x) = Fields /\ NoDrain(t, EnterStartupMode(x))
      BY <3>2 DEF EnterStartupMode, Fail, AtOffset, Fields
    <3>4. /\ DOMAIN EnterProbeBandwidthMode(x, e) = Fields
          /\ NoDrain(t, EnterProbeBandwidthMode(x, e))
      <4>1. DOMAIN EnterProbeBandwidthMode(x, e) = Fields
        BY <3>2 DEF EnterProbeBandwidthMode
      <4> QED
        BY <3>2, <4>1, EntersWithoutDrain
    <3> QED
      BY <2>1, <2>3, <3>1, <3>2, <3>3, <3>4
  <2>4. DOMAIN u = Fields /\ NoDrain(s, u)
    BY <2>1, <2>3
  <2> HIDE DEF u
  <2> QED
    BY <2>2, <2>4 DEF AtOffset, Fields
<1>3. NoDrain(s, CalculateRecoveryWindow(s))
  BY DEF CalculateRecoveryWindow, AtOffset, Sound, Fields
<1> QED
  BY <1>1, <1>2, <1>3

\* The cycle starts to drain only from the gain above one.
LEMMA CycleDrainsAfterUp ==
  ASSUME NEW s, NEW e, DOMAIN s = Fields, s.offset \in 0 .. 2, cc = "target",
         interface.cycle \in {DefaultCycle, FlatCycle}, AtOffset(s), s.mode = "PROBE_BW"
  PROVE  LET t == UpdateGainCyclePhase(s, e)
         IN  AtOffset(t) /\ (t.pacing_gain = "down" => s.pacing_gain \in {"up", "down"})
<1> DEFINE next == NextOffset(s)
           gain == CycleAfter(s, e)[next + 1]
           g == IF "BBR3" \in options /\ s.pacing_gain = "down" /\ gain = "one" /\ ~e.drained
                THEN s.pacing_gain ELSE gain
<1>1. /\ Len(DefaultCycle) = 3 /\ DefaultCycle[1] = "up" /\ DefaultCycle[2] = "down"
      /\ DefaultCycle[3] = "one"
      /\ Len(FlatCycle) = 3 /\ \A k \in 1 .. 3 : FlatCycle[k] = "one"
  <2>1. FlatCycle[1] = "one" /\ FlatCycle[2] = "one" /\ FlatCycle[3] = "one"
    BY DEF FlatCycle
  <2>2. \A k \in 1 .. 3 : k = 1 \/ k = 2 \/ k = 3
    OBVIOUS
  <2> QED
    BY <2>1, <2>2 DEF DefaultCycle, FlatCycle
<1>2. next = (s.offset + 1) % 3 /\ gain = interface.cycle[next + 1]
  BY <1>1 DEF NextOffset, CycleAfter
<1>3. \/ /\ interface.cycle = DefaultCycle
         /\ \/ s.offset = 0 /\ next = 1 /\ gain = "down"
            \/ s.offset = 1 /\ next = 2 /\ gain = "one"
            \/ s.offset = 2 /\ next = 0 /\ gain = "up"
      \/ interface.cycle = FlatCycle /\ gain = "one"
  <2>1. s.offset = 0 \/ s.offset = 1 \/ s.offset = 2
    OBVIOUS
  <2> HIDE DEF next, gain
  <2> QED
    BY <1>1, <1>2, <2>1
<1>4. UpdateGainCyclePhase(s, e) \in {s, [s EXCEPT !.offset = next, !.pacing_gain = g]}
  BY DEF UpdateGainCyclePhase
<1> DEFINE r == [s EXCEPT !.offset = next, !.pacing_gain = g]
<1> HIDE DEF next, gain
<1>5. /\ AtOffset(r)
      /\ r.pacing_gain = "down" => s.pacing_gain \in {"up", "down"}
  <2>1. r.offset = next /\ r.pacing_gain = g
    <3> HIDE DEF g
    <3> QED
      BY DEF Fields
  <2>0. DefaultCycle # FlatCycle
    BY <1>1
  <2>2. \/ /\ interface.cycle = DefaultCycle
           /\ \/ next = 1 /\ s.pacing_gain = "up" /\ g = "down"
              \/ next = 2 /\ g \in {"one", "down"} /\ s.pacing_gain = "down"
              \/ next = 0 /\ g = "up"
        \/ interface.cycle = FlatCycle /\ g = "one"
    BY <1>3, <2>0 DEF AtOffset
  <2> HIDE DEF g, r
  <2> QED
    BY <2>1, <2>2 DEF AtOffset
<1> HIDE DEF r
<1> QED
  BY <1>4, <1>5 DEF r, AtOffset

\* What comes before the gain cycle, and the check for full bandwidth, leave the
\* cycle alone.
LEMMA CycleFrame ==
  ASSUME NEW s, NEW e, DOMAIN s = Fields, NEW round_start,
         NEW t \in {UpdateRecoveryState(UpdateBandwidthAndMinRtt(UpdateRoundTripCounter(s, e), e),
                                        e, round_start),
                    CheckIfFullBandwidthReached(s, e)}
  PROVE  t.mode = s.mode /\ t.offset = s.offset /\ t.pacing_gain = s.pacing_gain
<1> USE DEF Fields
<1> DEFINE Same(x) == /\ DOMAIN x = Fields
                      /\ x.mode = s.mode /\ x.offset = s.offset /\ x.pacing_gain = s.pacing_gain
           u == UpdateRoundTripCounter(s, e)
           v == UpdateBandwidthAndMinRtt(u, e)
<1>1. Same(u)
  BY DEF UpdateRoundTripCounter
<1> HIDE DEF u
<1>2. Same(v)
  BY <1>1 DEF UpdateBandwidthAndMinRtt
<1> HIDE DEF v
<1>3. Same(UpdateRecoveryState(v, e, round_start))
  BY <1>2 DEF UpdateRecoveryState
<1>4. Same(CheckIfFullBandwidthReached(s, e))
  BY DEF CheckIfFullBandwidthReached, Fail
<1> QED
  BY <1>3, <1>4 DEF u, v

\* An event of target.cc starts to drain only from the gain above one.
LEMMA EventDrainsAfterUp ==
  ASSUME BbrInv, TargetInv, cc = "target", NEW e, Event(e), NEW flight
  PROVE  LET t == Congestion(bbr, e, flight)
         IN  /\ AtOffset(t)
             /\ t.pacing_gain = "down" /\ bbr.pacing_gain # "down"
                  => bbr.mode = "PROBE_BW" /\ bbr.pacing_gain = "up"
<1> DEFINE round_start == IsRoundStart(bbr, e)
           expired     == MinRttExpired(bbr, e)
           input       == IF e.acked = {} THEN bbr
                          ELSE UpdateRecoveryState(
                                 UpdateBandwidthAndMinRtt(UpdateRoundTripCounter(bbr, e), e),
                                 e, round_start)
           cycled      == IF input.mode # "PROBE_BW" THEN input
                          ELSE IF cc = "gap" THEN UpdateGainCyclePhaseGap(input, e)
                          ELSE UpdateGainCyclePhase(input, e)
           checked     == IF round_start /\ ~cycled.is_at_full_bandwidth
                          THEN CheckIfFullBandwidthReached(cycled, e) ELSE cycled
           left        == MaybeExitStartupOrDrain(checked, e)
           probed      == MaybeEnterOrExitProbeRtt(left, e, flight, round_start, expired)
           Drains(t)   == /\ AtOffset(t)
                          /\ t.pacing_gain = "down" /\ bbr.pacing_gain # "down"
                               => bbr.mode = "PROBE_BW" /\ bbr.pacing_gain = "up"
<1>1. Congestion(bbr, e, flight) = CalculateRecoveryWindow(probed)
  BY DEF Congestion
<1>2. interface.cycle \in {DefaultCycle, FlatCycle} /\ AtOffset(bbr) /\ Sound(bbr)
  BY DEF TargetInv, BbrInv, Settled
<1>3. /\ Sound(input)
      /\ input.mode = bbr.mode /\ input.offset = bbr.offset /\ input.pacing_gain = bbr.pacing_gain
  <2>1. Sound(input)
    BY <1>2, InputSound
  <2>2. DOMAIN bbr = Fields
    BY <1>2 DEF Sound
  <2> QED
    BY <2>1, <2>2, CycleFrame
<1> HIDE DEF input
<1>4. Sound(cycled) /\ Drains(cycled)
  <2>1. Sound(cycled)
    BY <1>3, GainCycleSound
  <2>2. CASE input.mode # "PROBE_BW"
    BY <1>3, <2>2 DEF AtOffset
  <2>3. CASE input.mode = "PROBE_BW"
    <3>1. cycled = UpdateGainCyclePhase(input, e)
      BY <2>3
    <3>2. AtOffset(input) /\ DOMAIN input = Fields /\ input.offset \in 0 .. 2
      BY <1>2, <1>3 DEF AtOffset, Sound
    <3> HIDE DEF cycled
    <3>3. AtOffset(cycled) /\ (cycled.pacing_gain = "down" => input.pacing_gain \in {"up", "down"})
      BY <1>2, <2>3, <3>1, <3>2, CycleDrainsAfterUp
    <3> QED
      BY <1>3, <2>1, <2>3, <3>3
  <2> QED
    BY <2>1, <2>2, <2>3
<1> HIDE DEF cycled
<1>5. Sound(checked) /\ Drains(checked)
  <2>1. CASE cycled.is_at_full_bandwidth = TRUE
    BY <1>4, <2>1
  <2>2. CASE cycled.is_at_full_bandwidth = FALSE
    <3>1. Sound(CheckIfFullBandwidthReached(cycled, e))
      BY <1>4, <2>2, FullBandwidthSound
    <3>2. Drains(CheckIfFullBandwidthReached(cycled, e))
      <4>1. DOMAIN cycled = Fields
        BY <1>4 DEF Sound
      <4> QED
        BY <1>4, <4>1, CycleFrame DEF AtOffset
    <3> QED
      BY <1>4, <3>1, <3>2
  <2> QED
    BY <1>4, <2>1, <2>2 DEF Sound, Flags
<1> HIDE DEF checked
<1>6. Sound(left) /\ (left.mode = "STARTUP" => left.is_at_full_bandwidth = FALSE) /\ Drains(left)
  <2>1. Sound(left) /\ (left.mode = "STARTUP" => left.is_at_full_bandwidth = FALSE)
    BY <1>5, ExitStartupSound
  <2>2. NoDrain(checked, left)
    BY <1>2, <1>5, ModesWithoutDrain
  <2> HIDE DEF left
  <2> QED
    BY <1>5, <2>1, <2>2 DEF NoDrain
<1> HIDE DEF left
<1>7. Sound(probed) /\ Drains(probed)
  <2>1. Sound(probed)
    BY <1>6, ProbeRttSound
  <2>2. NoDrain(left, probed)
    BY <1>2, <1>6, ModesWithoutDrain
  <2> HIDE DEF probed
  <2> QED
    BY <1>6, <2>1, <2>2 DEF NoDrain
<1> HIDE DEF probed
<1>8. Drains(CalculateRecoveryWindow(probed))
  <2>1. NoDrain(probed, CalculateRecoveryWindow(probed))
    BY <1>2, <1>7, ModesWithoutDrain
  <2> QED
    BY <1>7, <2>1 DEF NoDrain
<1> QED
  BY <1>1, <1>8

\* Every step of target.cc keeps the gain at its offset, and starts to drain only
\* from the gain above one.
LEMMA NextTarget ==
  ASSUME BbrInv, TargetInv, [Next]_vars
  PROVE  /\ TargetInv'
         /\ cc = "target" /\ bbr'.pacing_gain = "down" /\ bbr.pacing_gain # "down"
              => bbr.mode = "PROBE_BW" /\ bbr.pacing_gain = "up"
<1> DEFINE Step == /\ TargetInv'
                   /\ cc = "target" /\ bbr'.pacing_gain = "down" /\ bbr.pacing_gain # "down"
                        => bbr.mode = "PROBE_BW" /\ bbr.pacing_gain = "up"
<1>1. ASSUME NEW acked, NEW lost, OnCongestionEvent(acked, lost) PROVE Step
  <2>1. PICK e : Taken(e, acked, lost)
    BY <1>1, EventTaken
  <2>2. cc' = cc
    BY <1>1 DEF OnCongestionEvent
  <2> SUFFICES ASSUME cc = "target" PROVE Step
    BY <2>2 DEF TargetInv
  <2> DEFINE s == Congestion(bbr, e, inflight \ (acked \cup lost))
  <2>3. Sound(s) /\ Event(e)
    BY <2>1, CongestionSettles DEF Taken, Settled
  <2>4. /\ AtOffset(s)
        /\ s.pacing_gain = "down" /\ bbr.pacing_gain # "down"
             => bbr.mode = "PROBE_BW" /\ bbr.pacing_gain = "up"
    BY <2>3, EventDrainsAfterUp
  <2>5. bbr'.mode = s.mode /\ bbr'.offset = s.offset /\ bbr'.pacing_gain = s.pacing_gain
    <3>1. \E a, b, c, d : bbr' = [s EXCEPT !.lossy = a, !.acks = b, !.round_trip_end = c,
                                           !.end_recovery_at = d]
      BY <2>1 DEF Taken
    <3> HIDE DEF s
    <3> QED
      BY <2>3, <3>1 DEF Sound, Fields
  <2>6. interface' = interface
    BY <2>1 DEF Taken
  <2> QED
    BY <2>2, <2>4, <2>5, <2>6 DEF TargetInv, AtOffset
<1>2. CASE Ack \/ Lose
  BY <1>1, <1>2 DEF Ack, Lose
<1>3. ASSUME UNCHANGED cc, cc = "target" => UNCHANGED interface,
             bbr'.mode = bbr.mode, bbr'.offset = bbr.offset,
             bbr'.pacing_gain = bbr.pacing_gain
      PROVE  Step
  BY <1>3 DEF TargetInv, AtOffset
<1>4. DOMAIN bbr = Fields
  BY DEF BbrInv, Settled, Sound
<1>5. CASE OnPacketSent \/ SetFromConfig
  BY <1>3, <1>4, <1>5 DEF OnPacketSent, SetFromConfig, Fields
<1>6. CASE AdjustNetworkParameters
  BY <1>3, <1>4, <1>6 DEF AdjustNetworkParameters, Fields
<1>7. CASE SetRttProbing
  BY <1>3, <1>7 DEF SetRttProbing
<1>8. CASE MinRttExpires \/ ProbeRttTimePasses
  BY <1>3, <1>4, <1>8 DEF MinRttExpires, ProbeRttTimePasses, Fields
<1>9. CASE UNCHANGED vars
  BY <1>3, <1>9 DEF vars
<1> QED
  BY <1>2, <1>5, <1>6, <1>7, <1>8, <1>9 DEF Next

\* PROBE_BW of target.cc drains only after it probed (comment at gap.cc:675).
THEOREM DrainFollowsProbe == Spec => DownFollowsUp
<1>1. Init => TargetInv
  BY DEF Init, InitialCycles, EnterStartupMode, Fail, TargetInv, AtOffset
<1>2. BbrInv /\ TargetInv /\ [Next]_vars => TargetInv'
  BY NextTarget
<1>3. Spec => []TargetInv
  BY <1>1, <1>2, BbrInvariant, PTL DEF Spec
<1> DEFINE Drain == cc = "target" /\ bbr'.pacing_gain = "down" /\ bbr.pacing_gain # "down"
                      => bbr.mode = "PROBE_BW" /\ bbr.pacing_gain = "up"
<1>4. BbrInv /\ TargetInv /\ [Next]_vars => [Drain]_vars
  BY NextTarget
<1> QED
  BY <1>3, <1>4, BbrInvariant, PTL DEF Spec, DownFollowsUp
=============================================================================
