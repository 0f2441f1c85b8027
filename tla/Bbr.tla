-------------------------------- MODULE Bbr --------------------------------
(***************************************************************************)
(* The congestion controller of one connection: BBR as modified in         *)
(* cc/gap.cc, cc/target.cc and cc/bbr_adapter.cc.  The three share the     *)
(* mode machine (STARTUP, DRAIN, PROBE_BW, PROBE_RTT), the recovery states *)
(* and the order in which an event updates them; they differ in the gain   *)
(* cycle of PROBE_BW and in when PROBE_RTT may be entered.                 *)
(*                                                                         *)
(* A packet is as long as a segment, and windows count packets.  Packet    *)
(* numbers are only compared: after an event they are counted from the     *)
(* oldest packet in flight.  Rates and durations are reduced to the        *)
(* comparisons the code makes of them, which an event carries as inputs;   *)
(* the bandwidth sampler and the clock are external.                       *)
(***************************************************************************)
EXTENDS Integers, FiniteSets, FiniteSetsExt, Sequences

CONSTANTS
  Algorithms,     \* the controllers CCSelector may choose
  OptionSets,     \* the sets of connection options a client may ask for
  NumStartupRtts, \* kRoundTripsWithoutGrowthBeforeExitingStartup
  MinWindow,      \* min_congestion_window_, in packets
  MaxSpan         \* bound on the packets between the oldest in flight and the last

\* The pacing gain cycles: the first three of their eight gains.  The others are one,
\* but for 0.8 at offsets 3 and 4, after an up, of WorthedAbr and at 3 of TargetAbr.
DefaultCycle == <<"up", "down", "one">>

\* RemoteAbr has the controller of target.cc pace at one from the start.
FlatCycle == <<"one", "one", "one">>

\* The cycles WorthedAbr and TargetAbr propose to the adapter, and FlatCycle.
Cycles == {DefaultCycle, <<"up", "down", "up">>, <<"up", "one", "up">>,
           <<"one", "down", "one">>, FlatCycle}

ASSUME AlgorithmsAssumption == Algorithms \subseteq {"gap", "target", "adapter"}
ASSUME OptionsAssumption ==
  OptionSets \subseteq SUBSET {"LRTT", "1RTT", "2RTT", "BBR3", "BBS1"}
ASSUME BoundsAssumption ==
  /\ NumStartupRtts \in Nat \ {0, 1}
  /\ MinWindow \in Nat \ {0}
  /\ MaxSpan \in Nat

VARIABLES
  cc,          \* the algorithm CCSelector chose
  options,     \* connection options taken from the configuration
  interface,   \* BbrInterface, shared with the ABR thread: gain cycle, canProbeRtt
  inflight,    \* packets in flight
  last_sent,   \* last_sent_packet_
  bbr          \* the members of the controller

vars == <<cc, options, interface, inflight, last_sent, bbr>>

\* The DCHECKs of EnterStartupMode, OnExitStartup and CheckIfFullBandwidthReached.
Checks == {"start_time", "exit_mode", "exit_time", "full_sample"}

State == [
  mode                 : {"STARTUP", "DRAIN", "PROBE_BW", "PROBE_RTT"},
  recovery_state       : {"NOT_IN_RECOVERY", "CONSERVATION", "GROWTH"},
  recovery_window      : {"zero", "set"},
  round_trip_end       : 0..MaxSpan,  \* zero: no round has started
  end_recovery_at      : 0..MaxSpan,
  is_at_full_bandwidth : BOOLEAN,
  rounds_without_gain  : 0..NumStartupRtts,
  last_round_nonzero   : BOOLEAN,     \* bandwidth_at_last_round_
  bandwidth_nonzero    : BOOLEAN,     \* the bandwidth estimate
  has_full_sample      : BOOLEAN,     \* has_non_app_limited_sample_
  last_app_limited     : BOOLEAN,     \* last_sample_is_app_limited_
  exiting_quiescence   : BOOLEAN,
  min_rtt              : {"zero", "fresh", "expired"},
  exit_probe_rtt_at    : {"zero", "future", "passed"},
  probe_rtt_round      : BOOLEAN,     \* probe_rtt_round_passed_
  pacing_gain          : {"high", "drain", "one", "up", "down"},
  window_gain          : {"high", "constant"},
  offset               : 0..2,        \* cycle_current_offset_
  slowstart            : BOOLEAN,     \* stats_->slowstart_start_time is set
  injected             : BOOLEAN,     \* history: the first bandwidth was injected
  lossy                : BOOLEAN,     \* history: losses in recovery
  acks                 : BOOLEAN,     \* history: flips when packets are acknowledged
  failed               : SUBSET Checks]  \* history

\* The type invariant.
TypeOK ==
  /\ cc \in Algorithms
  /\ options \in OptionSets \cup {{}}
  /\ interface \in [cycle : Cycles, canProbeRtt : BOOLEAN]
  /\ last_sent \in 0..MaxSpan
  /\ inflight \subseteq 1..last_sent
  /\ bbr \in State

Fail(s, check, ok) == IF ok THEN s ELSE [s EXCEPT !.failed = @ \cup {check}]

-----------------------------------------------------------------------------
(* The functions of the controller, from a state s and an event e.         *)

InRecovery(s) == s.recovery_state # "NOT_IN_RECOVERY"

EnterStartupMode(s) ==
  [Fail(s, "start_time", ~s.slowstart) EXCEPT
    !.slowstart = TRUE, !.mode = "STARTUP",
    !.pacing_gain = "high", !.window_gain = "high"]

OnExitStartup(s) ==
  [Fail(Fail(s, "exit_mode", s.mode = "STARTUP"), "exit_time", s.slowstart)
    EXCEPT !.slowstart = FALSE]

\* Mutant: does not exclude the draining gain.
RandomOffsetAny(random) == random

\* A random number below the length of the cycle less one, with 1 left out.
RandomOffset(random) == IF random >= 1 THEN random + 1 ELSE random

EnterProbeBandwidthMode(s, e) ==
  LET offset == RandomOffset(e.random)
  IN [s EXCEPT !.mode = "PROBE_BW", !.window_gain = "constant",
               !.offset = offset, !.pacing_gain = interface.cycle[offset + 1]]

LastAcked(e) == Max(e.acked)

IsRoundStart(s, e) == e.acked # {} /\ LastAcked(e) > s.round_trip_end

UpdateRoundTripCounter(s, e) ==
  IF IsRoundStart(s, e) THEN [s EXCEPT !.round_trip_end = last_sent] ELSE s

\* e.sample tells the valid samples apart: are there any, is one of them not
\* app limited, is the last one?
UpdateBandwidthAndMinRtt(s, e) ==
  IF e.sample = "none" THEN s
  ELSE [s EXCEPT !.bandwidth_nonzero = TRUE,
                 !.has_full_sample   = @ \/ e.sample # "limited",
                 !.last_app_limited  = e.sample # "full",
                 !.min_rtt           = "fresh"]

MinRttExpired(s, e) ==
  e.acked # {} /\ e.sample # "none" /\ s.min_rtt = "expired"

\* Mutant: extends the recovery without losses.
EndRecoveryAtAlways(s, e) == last_sent

EndRecoveryAt(s, e) == IF e.lost # {} THEN last_sent ELSE s.end_recovery_at

UpdateRecoveryState(s, e, round_start) ==
  LET has_losses == e.lost # {}
      t == [s EXCEPT !.end_recovery_at = EndRecoveryAt(s, e)]
      state == IF t.recovery_state = "CONSERVATION" /\ round_start
               THEN "GROWTH" ELSE t.recovery_state
  IN IF ~InRecovery(s)
     THEN IF has_losses
          THEN [t EXCEPT !.recovery_state = "CONSERVATION",
                         !.recovery_window = "zero",
                         !.round_trip_end = last_sent]
          ELSE t
     ELSE [t EXCEPT !.recovery_state =
             IF ~has_losses /\ LastAcked(e) > t.end_recovery_at
             THEN "NOT_IN_RECOVERY" ELSE state]

\* gap.cc registers a sample and goes on at gain one.
UpdateGainCyclePhaseGap(s, e) ==
  IF e.advance \/ e.drained THEN [s EXCEPT !.pacing_gain = "one"] ELSE s

NextOffset(s) == (s.offset + 1) % Len(interface.cycle)

\* bbr_adapter.cc looks at the proposals of the ABR when a cycle ends.
CycleAfter(s, e) ==
  IF cc = "adapter" /\ NextOffset(s) = 0 THEN e.vote ELSE interface.cycle

Advances(s, e) == e.advance \/ (s.pacing_gain = "down" /\ e.drained)

UpdateGainCyclePhase(s, e) ==
  LET gain == CycleAfter(s, e)[NextOffset(s) + 1]
      stay_low == "BBR3" \in options /\ s.pacing_gain = "down" /\ gain = "one"
                  /\ ~e.drained
  IN IF ~Advances(s, e) THEN s
     ELSE [s EXCEPT !.offset = NextOffset(s),
                    !.pacing_gain = IF stay_low THEN @ ELSE gain]

StartupRtts == IF "2RTT" \in options THEN 2
               ELSE IF "1RTT" \in options THEN 1 ELSE NumStartupRtts

\* Mutant: waits for one round more.
StalledLonger(rounds) == rounds > StartupRtts

Stalled(rounds) == rounds >= StartupRtts

CheckIfFullBandwidthReached(s, e) ==
  LET stalled == s.rounds_without_gain + 1
      reached == Stalled(stalled) \/ ("LRTT" \in options /\ InRecovery(s))
  IN IF s.last_app_limited THEN s
     ELSE IF e.gain \/ ~s.last_round_nonzero
     THEN [s EXCEPT !.last_round_nonzero = s.bandwidth_nonzero,
                    !.rounds_without_gain = 0]
     ELSE [(IF reached THEN Fail(s, "full_sample", s.has_full_sample) ELSE s)
            EXCEPT !.rounds_without_gain = stalled,
                   !.is_at_full_bandwidth = reached]

MaybeExitStartupOrDrain(s, e) ==
  LET t == IF s.mode = "STARTUP" /\ s.is_at_full_bandwidth
           THEN [OnExitStartup(s) EXCEPT !.mode = "DRAIN", !.pacing_gain = "drain",
                                         !.window_gain = "high"]
           ELSE s
  IN IF t.mode = "DRAIN" /\ e.drained THEN EnterProbeBandwidthMode(t, e) ELSE t

AllowRttProbing == cc # "adapter" \/ interface.canProbeRtt

ProbeRttCongestionWindow == MinWindow

\* Mutant: enters while it is already there.
EntersProbeRttAgain(s, expired) ==
  expired /\ ~s.exiting_quiescence /\ AllowRttProbing

EntersProbeRtt(s, expired) ==
  expired /\ ~s.exiting_quiescence /\ s.mode # "PROBE_RTT" /\ AllowRttProbing

\* Mutant: leaves the clock of STARTUP running.
EnterProbeRttInStartup(s) ==
  [s EXCEPT !.mode = "PROBE_RTT", !.pacing_gain = "one", !.exit_probe_rtt_at = "zero"]

EnterProbeRtt(s) ==
  [(IF s.mode = "STARTUP" THEN OnExitStartup(s) ELSE s) EXCEPT
     !.mode = "PROBE_RTT", !.pacing_gain = "one", !.exit_probe_rtt_at = "zero"]

\* Mutant: forgets that full bandwidth was reached.
ExitProbeRttToStartup(s, e) == EnterStartupMode([s EXCEPT !.min_rtt = "fresh"])

ExitProbeRtt(s, e) ==
  LET t == [s EXCEPT !.min_rtt = "fresh"]
  IN IF t.is_at_full_bandwidth THEN EnterProbeBandwidthMode(t, e) ELSE EnterStartupMode(t)

\* What an event does in PROBE_RTT; flight is what it leaves in flight.
InProbeRtt(s, e, flight, round_start) ==
  LET t == [s EXCEPT !.probe_rtt_round = @ \/ round_start]
  IN IF s.exit_probe_rtt_at = "zero"
     THEN IF Cardinality(flight) < ProbeRttCongestionWindow + 1
          THEN [s EXCEPT !.exit_probe_rtt_at = "future", !.probe_rtt_round = FALSE]
          ELSE s
     ELSE IF t.exit_probe_rtt_at = "passed" /\ t.probe_rtt_round
          THEN ExitProbeRtt(t, e) ELSE t

MaybeEnterOrExitProbeRtt(s, e, flight, round_start, expired) ==
  LET t == IF EntersProbeRtt(s, expired) THEN EnterProbeRtt(s) ELSE s
      u == IF t.mode = "PROBE_RTT" THEN InProbeRtt(t, e, flight, round_start) ELSE t
  IN [u EXCEPT !.exiting_quiescence = FALSE]

RateBasedStartup(s) == "BBS1" \in options /\ s.mode = "STARTUP"

\* Mutant: the option keeps the window closed in every mode.
CalculateRecoveryWindowLater(s) ==
  IF "BBS1" \in options \/ ~InRecovery(s) THEN s
  ELSE [s EXCEPT !.recovery_window = "set"]

\* Every window it computes is at least the minimum window.
CalculateRecoveryWindow(s) ==
  IF RateBasedStartup(s) \/ ~InRecovery(s) THEN s
  ELSE [s EXCEPT !.recovery_window = "set"]

\* GetCongestionWindow is the recovery window, or at least the minimum window.
WindowIsOpen(s) ==
  \/ s.mode = "PROBE_RTT" \/ ~InRecovery(s) \/ RateBasedStartup(s)
  \/ s.recovery_window = "set"

CanSend(s) ==
  /\ WindowIsOpen(s)
  /\ s.mode = "PROBE_RTT" => Cardinality(inflight) < ProbeRttCongestionWindow

-----------------------------------------------------------------------------
(* What happens to the controller.                                         *)

InitialCycles == IF cc = "target" THEN {DefaultCycle, FlatCycle} ELSE {DefaultCycle}

Init ==
  /\ cc \in Algorithms
  /\ options = {}
  /\ interface \in [cycle : InitialCycles, canProbeRtt : {TRUE}]
  /\ inflight = {} /\ last_sent = 0
  /\ bbr = EnterStartupMode(
       [mode |-> "STARTUP", recovery_state |-> "NOT_IN_RECOVERY",
        recovery_window |-> "set", round_trip_end |-> 0, end_recovery_at |-> 0,
        is_at_full_bandwidth |-> FALSE, rounds_without_gain |-> 0,
        last_round_nonzero |-> FALSE, bandwidth_nonzero |-> FALSE,
        has_full_sample |-> FALSE, last_app_limited |-> FALSE,
        exiting_quiescence |-> FALSE, min_rtt |-> "zero",
        exit_probe_rtt_at |-> "zero", probe_rtt_round |-> FALSE,
        pacing_gain |-> "one", window_gain |-> "high", offset |-> 0,
        slowstart |-> FALSE, injected |-> FALSE, lossy |-> FALSE,
        acks |-> FALSE, failed |-> {}])

\* Whether the sampler is app limited is external to the controller.
OnPacketSent ==
  /\ CanSend(bbr) /\ last_sent < MaxSpan
  /\ last_sent' = last_sent + 1
  /\ inflight' = inflight \cup {last_sent + 1}
  /\ \E app_limited \in BOOLEAN :
       bbr' = [bbr EXCEPT !.exiting_quiescence = @ \/ (inflight = {} /\ app_limited)]
  /\ UNCHANGED <<cc, options, interface>>

Congestion(s, e, flight) ==
  LET round_start == IsRoundStart(s, e)
      expired     == MinRttExpired(s, e)
      input       == IF e.acked = {} THEN s
                     ELSE UpdateRecoveryState(
                            UpdateBandwidthAndMinRtt(UpdateRoundTripCounter(s, e), e),
                            e, round_start)
      cycled      == IF input.mode # "PROBE_BW" THEN input
                     ELSE IF cc = "gap" THEN UpdateGainCyclePhaseGap(input, e)
                     ELSE UpdateGainCyclePhase(input, e)
      checked     == IF round_start /\ ~cycled.is_at_full_bandwidth
                     THEN CheckIfFullBandwidthReached(cycled, e) ELSE cycled
  IN CalculateRecoveryWindow(
       MaybeEnterOrExitProbeRtt(MaybeExitStartupOrDrain(checked, e),
                                e, flight, round_start, expired))

\* Counts packet numbers from the oldest packet of flight.
Rebase(n, flight) ==
  LET base == Min(flight \cup {last_sent + 1}) - 1
  IN IF n > base THEN n - base ELSE 0

Relevant(condition) == IF condition THEN BOOLEAN ELSE {FALSE}

\* The event removes what was acknowledged and what is declared lost.
OnCongestionEvent(acked, lost) ==
  LET flight == inflight \ (acked \cup lost)
      full   == bbr.is_at_full_bandwidth
      cycling == bbr.mode = "PROBE_BW"
  IN /\ acked \cup lost # {}
     /\ \E sample \in {"none"} \cup
                      (IF acked = {} THEN {} ELSE {"limited", "full_then_limited", "full"}),
          gain \in Relevant(~full), advance \in Relevant(cycling),
          drained \in IF Cardinality(flight) <= MinWindow THEN {TRUE} ELSE BOOLEAN,
          random \in IF cycling THEN {0} ELSE 0..1,
          vote \in IF cycling /\ cc = "adapter" /\ NextOffset(bbr) = 0 THEN Cycles \ {FlatCycle}
                  ELSE {DefaultCycle} :
          LET e == [acked |-> acked, lost |-> lost, sample |-> sample, gain |-> gain,
                    advance |-> advance, drained |-> drained, random |-> random,
                    vote |-> vote]
              s == Congestion(bbr, e, flight)
          IN /\ bbr' = [s EXCEPT !.lossy = lost # {} /\ InRecovery(bbr),
                         !.acks = (@ # (acked # {})),
                         !.round_trip_end = Rebase(@, flight),
                         !.end_recovery_at = Rebase(@, flight)]
             /\ interface' = IF bbr.mode = "PROBE_BW" /\ cc = "adapter" /\ Advances(bbr, e)
                             THEN [interface EXCEPT !.cycle = CycleAfter(bbr, e)]
                             ELSE interface
     /\ inflight' = {Rebase(n, flight) : n \in flight}
     /\ last_sent' = Rebase(last_sent, flight)
     /\ UNCHANGED <<cc, options>>

SetFromConfig ==
  /\ options = {}
  /\ options' \in OptionSets \ {{}}
  /\ UNCHANGED <<cc, interface, inflight, last_sent, bbr>>

\* min_rtt_timestamp_ is left alone: the first min rtt given here is expired.
AdjustNetworkParameters ==
  /\ \E bandwidth, rtt \in BOOLEAN :
       bbr' = [bbr EXCEPT !.bandwidth_nonzero = @ \/ bandwidth,
                          !.injected = @ \/ (bandwidth /\ ~bbr.bandwidth_nonzero),
                          !.min_rtt = IF rtt /\ @ = "zero" THEN "expired" ELSE @]
  /\ UNCHANGED <<cc, options, interface, inflight, last_sent>>

\* The ABR thread allows or forbids the probing of the rtt.
SetRttProbing ==
  /\ cc = "adapter"
  /\ interface' = [interface EXCEPT !.canProbeRtt = ~@]
  /\ UNCHANGED <<cc, options, inflight, last_sent, bbr>>

\* kMinRttExpiry has passed since the min rtt was taken.
MinRttExpires ==
  /\ bbr.min_rtt = "fresh"
  /\ bbr' = [bbr EXCEPT !.min_rtt = "expired"]
  /\ UNCHANGED <<cc, options, interface, inflight, last_sent>>

\* kProbeRttTime has passed since the window was reached.
ProbeRttTimePasses ==
  /\ bbr.exit_probe_rtt_at = "future"
  /\ bbr' = [bbr EXCEPT !.exit_probe_rtt_at = "passed"]
  /\ UNCHANGED <<cc, options, interface, inflight, last_sent>>

Ack  == \E acked, lost \in SUBSET inflight :
          acked # {} /\ acked \cap lost = {} /\ OnCongestionEvent(acked, lost)
Lose == \E lost \in SUBSET inflight : OnCongestionEvent({}, lost)

Next ==
  \/ OnPacketSent \/ Ack \/ Lose
  \/ SetFromConfig \/ AdjustNetworkParameters \/ SetRttProbing
  \/ MinRttExpires \/ ProbeRttTimePasses

Spec == Init /\ [][Next]_vars

\* The sender has data, time passes, and of the packets sent again and again
\* some are acknowledged (SF_vars(Ack), with its ENABLED and its steps spelt
\* out for TLC).
FairSpec ==
  /\ Spec
  /\ WF_vars(OnPacketSent) /\ WF_vars(ProbeRttTimePasses)
  /\ []<>(inflight # {}) => []<><<bbr'.acks # bbr.acks>>_vars

-----------------------------------------------------------------------------
(* What should hold.                                                       *)

\* The DCHECKs of the controller hold: STARTUP is never entered while its
\* clock runs nor left while it does not, and full bandwidth is only
\* concluded from a sample that was not app limited, unless a bandwidth was
\* injected (gap.cc:663, 845, 864, 866).
AssertionsHold ==
  /\ bbr.failed \subseteq {"full_sample"}
  /\ "full_sample" \in bbr.failed => bbr.injected

\* Between two events the connection may send: whatever losses, options and
\* modes came in between, it never stays behind the zero recovery window that
\* UpdateRecoveryState leaves to CalculateRecoveryWindow.
WindowOpen == WindowIsOpen(bbr)

\* The gains are those of the mode, STARTUP is left for good once full
\* bandwidth is reached, and DRAIN and PROBE_BW are only entered after it.
GainsMatchMode ==
  /\ bbr.mode = "STARTUP" => /\ bbr.pacing_gain = "high" /\ bbr.window_gain = "high"
                             /\ ~bbr.is_at_full_bandwidth
  /\ bbr.mode = "DRAIN" => /\ bbr.pacing_gain = "drain" /\ bbr.window_gain = "high"
                           /\ bbr.is_at_full_bandwidth
  /\ bbr.mode = "PROBE_BW" => /\ bbr.pacing_gain \in {"up", "down", "one"}
                              /\ bbr.window_gain = "constant"
                              /\ bbr.is_at_full_bandwidth
  /\ bbr.mode = "PROBE_RTT" => bbr.pacing_gain = "one"

\* With the cycles of target.cc, a gain below one always follows a gain
\* above one: PROBE_BW never starts by draining (comment at gap.cc:675).
DownFollowsUp ==
  [][cc = "target" /\ bbr'.pacing_gain = "down" /\ bbr.pacing_gain # "down"
     => bbr.mode = "PROBE_BW" /\ bbr.pacing_gain = "up"]_vars

\* PROBE_RTT is always left: its small window lets the flight drain, and its
\* end is scheduled even though the window is checked before a packet is sent.
ProbeRttEnds == []<>(bbr.mode # "PROBE_RTT")

\* Recovery ends once there are no more losses (comment at gap.cc:923).
RecoveryEnds == <>[](~bbr.lossy) => []<>(~InRecovery(bbr))
=============================================================================
