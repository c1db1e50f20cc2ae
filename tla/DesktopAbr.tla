------------------------------- MODULE DesktopAbr -------------------------------
(***************************************************************************)
(* The adaptive bitrate of a video session: the one-second controller of   *)
(* desktop_abr.rs, the watch channel through which it, the RTCP reader and *)
(* the session's tier changes set the encoder's bitrate, and the stats     *)
(* stream of desktop_stats_sse.rs, which folds the same observations.      *)
(***************************************************************************)
EXTENDS Integers

CONSTANTS Floor, Ceiling,  \* of the session, in kbps; fixed when it starts
          CutPct,          \* cut on entering Recovery (30)
          StepPct,         \* step of a probe (10)
          ProbeInterval,   \* seconds between probes (5)
          AntiThrash,      \* seconds between transitions (4)
          Hysteresis,      \* agreeing ticks before a transition (2)
          OtherRates,      \* what bandwidth estimates and tier changes ask for
          MaxFrames        \* frames counted in a stats window (a bound)

AbrAssumption ==
  /\ Floor \in Nat /\ Ceiling \in Nat /\ Floor <= Ceiling
  /\ CutPct \in 5..90 /\ StepPct \in 1..50
  /\ {ProbeInterval, AntiThrash, Hysteresis} \subseteq Nat \ {0}

VARIABLES ctl,   \* the controller: zone, target, seconds (at the next tick) since its last
                 \* transition and probe, the candidate zone and its streak
          win,   \* the worst of this second's observations
          rate,  \* the watch channel the encoder reads
          stats, \* the stats stream: frames of the window, network values seen
          good   \* seconds in a row whose window was healthy

vars == <<ctl, win, rate, stats, good>>

Init ==
  /\ ctl = [zone |-> "comfort", kbps |-> Ceiling, since |-> 1, probe |-> 1,
            pending |-> "none", streak |-> 0]
  /\ win = "none" /\ rate = Ceiling
  /\ stats = [frames |-> 0, seen |-> FALSE, open |-> TRUE]
  /\ good = 0

-----------------------------------------------------------------------------
\* observe: a window is as bad as its worst report.  A report without loss and
\* round-trip values (a bandwidth estimate) makes an empty window a good one.
Rank == [none |-> 0, good |-> 1, band |-> 2, bad |-> 3]

Observe ==
  /\ \E w \in {"good", "band", "bad"} : win' = IF Rank[w] > Rank[win] THEN w ELSE win
  /\ stats' = [stats EXCEPT !.seen = stats.open]
  /\ UNCHANGED <<ctl, rate, good>>

\* classify_window
Classified ==
  CASE win = "bad" -> "recovery"
    [] win = "good" ->
         IF ctl.zone = "comfort" /\ ctl.kbps < Ceiling /\ ctl.probe >= ProbeInterval
         THEN "probe" ELSE "comfort"
    [] OTHER -> ctl.zone

\* apply_hysteresis: the zone to move to, or none, and the streak after it.
Stay == [to |-> "none", pending |-> "none", streak |-> 0]

\* Faulty variant: a tick that disagrees does not end the streak.
ApplyHysteresisLoosely(seen) ==
  LET n == IF ctl.pending = seen THEN ctl.streak + 1 ELSE 1 IN
  CASE seen = ctl.zone \/ (seen # "recovery" /\ ctl.since < AntiThrash) ->
         [to |-> "none", pending |-> ctl.pending, streak |-> ctl.streak]
    [] seen = "recovery" \/ n >= Hysteresis -> [Stay EXCEPT !.to = seen]
    [] OTHER -> [to |-> "none", pending |-> seen, streak |-> n]

\* Congestion is acted on at once; what raises the bitrate waits for the
\* anti-thrash gate and for consecutive ticks.
ApplyHysteresis(seen) ==
  LET n == IF ctl.pending = seen THEN ctl.streak + 1 ELSE 1 IN
  CASE seen = ctl.zone -> Stay
    [] seen # ctl.zone /\ seen = "recovery" ->
         [to |-> seen, pending |-> ctl.pending, streak |-> ctl.streak]
    [] seen # ctl.zone /\ seen # "recovery" /\ ctl.since < AntiThrash ->
         [to |-> "none", pending |-> ctl.pending, streak |-> ctl.streak]
    [] OTHER -> IF n >= Hysteresis THEN [Stay EXCEPT !.to = seen]
                ELSE [to |-> "none", pending |-> seen, streak |-> n]

\* transition_to: a cut, a step, or the ceiling.
Clamp(k) == IF k < Floor THEN Floor ELSE IF k > Ceiling THEN Ceiling ELSE k

Target(zone) ==
  CASE zone = "recovery" -> Clamp(ctl.kbps - (ctl.kbps * CutPct) \div 100)
    [] zone = "probe" -> Clamp(ctl.kbps + (ctl.kbps * StepPct) \div 100)
    [] OTHER -> Ceiling

Later(n, most) == IF n < most THEN n + 1 ELSE n

\* tick: the decision, which is written to the watch every second, and a new
\* window.  A probe that reaches the ceiling is over.
Tick ==
  LET h == ApplyHysteresis(Classified)
      probing == h.to = "none" /\ ctl.zone = "probe"
      k == IF h.to # "none" THEN Target(h.to) ELSE IF probing THEN Target("probe") ELSE ctl.kbps
      done == probing /\ k >= Ceiling IN
  /\ ctl' = [zone |-> IF done THEN "comfort" ELSE IF h.to = "none" THEN ctl.zone ELSE h.to,
             kbps |-> k,
             since |-> IF done \/ h.to # "none" THEN 1 ELSE Later(ctl.since, AntiThrash),
             probe |-> IF done \/ h.to = "probe" THEN 1 ELSE Later(ctl.probe, ProbeInterval),
             pending |-> h.pending, streak |-> h.streak]
  /\ rate' = k
  /\ win' = "none"
  /\ good' = IF win = "good" THEN Later(good, Hysteresis) ELSE 0
  /\ UNCHANGED stats

\* The RTCP reader's clamped estimate, or the session's arm for a new tier: the
\* next tick overwrites either.
SetRate ==
  /\ \E r \in OtherRates : rate' = r
  /\ UNCHANGED <<ctl, win, stats, good>>

\* The stats stream: an encoded frame, the snapshot of the second, the end of the
\* producers, after which a last snapshot is sent.
FrameEncoded ==
  /\ stats.open /\ stats.frames < MaxFrames
  /\ stats' = [stats EXCEPT !.frames = @ + 1]
  /\ UNCHANGED <<ctl, win, rate, good>>

EmitStats ==
  /\ stats.open
  /\ \E closed \in BOOLEAN : stats' = [stats EXCEPT !.frames = 0, !.open = ~closed]
  /\ UNCHANGED <<ctl, win, rate, good>>

Next == Observe \/ Tick \/ SetRate \/ FrameEncoded \/ EmitStats

Spec == Init /\ [][Next]_vars

-----------------------------------------------------------------------------
(* Properties                                                              *)

\* The controller never raises its target before the anti-thrash time is over
\* and the last seconds were healthy without exception, whatever mixture of bad,
\* ambiguous and silent seconds came before.
RaiseEarned ==
  [][ctl'.kbps > ctl.kbps => ctl.since >= AntiThrash /\ good' >= Hysteresis]_vars
=============================================================================
