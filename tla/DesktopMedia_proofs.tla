---------------------------- MODULE DesktopMedia_proofs ----------------------------
(***************************************************************************)
(* Two results about the media of a desktop session.                       *)
(*                                                                         *)
(* The bitrate: the controller's zone is only ever comfort, at the         *)
(* ceiling, or recovery: Probe asks for a comfortable controller below its *)
(* ceiling, which does not exist, so the step of a probe is never taken.   *)
(* What is left that raises the target is the end of a recovery, and its   *)
(* streak is never longer than the row of healthy seconds.                 *)
(*                                                                         *)
(* The JPEG frames: until its first frame the diff of a capture holds      *)
(* every tile and the channel is empty, so that frame finds room; from     *)
(* then on each tile is followed from the channel through the task and     *)
(* the wire to the screen, and only an encoding that failed, a loss or a   *)
(* late tile of an older size breaks the chain.                            *)
(***************************************************************************)
EXTENDS MCDesktopMedia, Integers, TLAPS

-----------------------------------------------------------------------------
(* The parts                                                               *)

Steps == InVideo(Next) \/ InJpeg(J!Next) \/ InAbr(A!Next)

\* A step of the run is a step of the controller, or leaves it alone.
LEMMA AbrPart == [Steps]_all => [A!Next]_aVars
  BY DEF Steps, all, InVideo, InJpeg, InAbr

\* A step of the run is a step of the JPEG session, or leaves it alone.
LEMMA JpegPart == [Steps]_all => [J!Next]_jVars
  BY DEF Steps, all, InVideo, InJpeg, InAbr

-----------------------------------------------------------------------------
(* The bitrate                                                             *)

Zones == {"comfort", "recovery"}

AbrTypes ==
  /\ ctl \in [zone : Zones, kbps : Nat, since : Nat, probe : Nat,
              pending : Zones \cup {"none"}, streak : Nat]
  /\ win \in {"none", "good", "band", "bad"}
  /\ good \in 0..Hysteresis

AbrInv ==
  /\ AbrTypes
  /\ Floor <= ctl.kbps /\ ctl.kbps <= Ceiling
  /\ ctl.zone = "comfort" => ctl.kbps = Ceiling /\ ctl.streak = 0
  /\ ctl.streak <= good

LEMMA AbrInvInit == A!Init => AbrInv
  BY MediaAssumption DEF A!Init, AbrInv, AbrTypes, Zones, A!AbrAssumption

\* A window is classified as a probe only below the ceiling, in comfort.
LEMMA NeverProbes ==
  ASSUME AbrInv
  PROVE /\ A!Classified \in Zones
        /\ A!Classified # "recovery" /\ ctl.zone = "recovery" => win = "good"
        /\ A!Classified = "comfort" /\ A!Classified # ctl.zone => win = "good"
  <1>1. CASE win = "bad"
    BY <1>1 DEF A!Classified, Zones
  <1>2. CASE win = "good"
    <2>1. ~ (ctl.zone = "comfort" /\ ctl.kbps < Ceiling /\ ctl.probe >= ProbeInterval)
      BY MediaAssumption DEF AbrInv, AbrTypes, A!AbrAssumption
    <2>2. A!Classified = "comfort"
      BY <1>2, <2>1 DEF A!Classified
    <2> QED BY <1>2, <2>2 DEF Zones
  <1>3. CASE win \notin {"bad", "good"}
    <2>1. A!Classified = ctl.zone
      BY <1>3 DEF A!Classified
    <2> QED BY <2>1 DEF AbrInv, AbrTypes, Zones
  <1> QED BY <1>1, <1>2, <1>3

\* What a tick decides, and what it has to show for it.
LEMMA Decision ==
  ASSUME AbrInv, NEW h, h = A!ApplyHysteresis(A!Classified),
         NEW g, g = IF win = "good" THEN A!Later(good, Hysteresis) ELSE 0
  PROVE /\ h.to \in Zones \cup {"none"}
        /\ h.pending \in Zones \cup {"none"} /\ h.streak \in Nat
        /\ g \in 0..Hysteresis /\ h.streak <= g
        /\ h.to = "comfort" => h.streak = 0 /\ ctl.since >= AntiThrash /\ g >= Hysteresis
        /\ h.to = "none" /\ ctl.zone = "comfort" => h.streak = 0
  <1> DEFINE seen == A!Classified
             n == IF ctl.pending = seen THEN ctl.streak + 1 ELSE 1
  <1>1. /\ ctl.zone \in Zones /\ ctl.pending \in Zones \cup {"none"}
        /\ ctl.streak \in Nat /\ ctl.since \in Nat /\ good \in 0..Hysteresis
        /\ ctl.streak <= good /\ Hysteresis \in Nat \ {0} /\ AntiThrash \in Nat \ {0}
    BY MediaAssumption DEF AbrInv, AbrTypes, A!AbrAssumption
  <1>2. g \in 0..Hysteresis /\ (win = "good" => g >= 1 /\ (g > good \/ g >= Hysteresis))
    BY <1>1 DEF A!Later
  <1>3. CASE seen = ctl.zone
    <2>1. h = [to |-> "none", pending |-> "none", streak |-> 0]
      BY <1>3 DEF A!ApplyHysteresis, A!Stay
    <2> QED BY <2>1, <1>2, <1>1
  <1>4. CASE seen # ctl.zone /\ seen = "recovery"
    <2>1. h = [to |-> "recovery", pending |-> ctl.pending, streak |-> ctl.streak]
      BY <1>4 DEF A!ApplyHysteresis
    <2>2. ctl.streak = 0
      BY <1>4, <1>1 DEF AbrInv, Zones
    <2> QED BY <2>1, <2>2, <1>2, <1>1 DEF Zones
  <1>5. CASE seen # ctl.zone /\ seen # "recovery"
    <2>1. seen = "comfort" /\ win = "good" /\ ctl.zone = "recovery"
      BY <1>5, <1>1, NeverProbes DEF Zones
    <2>2. CASE ctl.since < AntiThrash
      <3>1. h = [to |-> "none", pending |-> ctl.pending, streak |-> ctl.streak]
        BY <1>5, <2>2 DEF A!ApplyHysteresis
      <3> QED BY <3>1, <2>1, <1>2, <1>1
    <2>3. CASE ~ (ctl.since < AntiThrash)
      <3>1. h = IF n >= Hysteresis THEN [to |-> "comfort", pending |-> "none", streak |-> 0]
                ELSE [to |-> "none", pending |-> "comfort", streak |-> n]
        BY <1>5, <2>1, <2>3 DEF A!ApplyHysteresis, A!Stay
      <3>2. n \in Nat /\ n <= good + 1 /\ n >= 1
        BY <1>1
      <3>3. n <= g \/ n > Hysteresis
        BY <3>2, <1>1, <1>2, <2>1
      <3>4. CASE n >= Hysteresis
        <4>1. h = [to |-> "comfort", pending |-> "none", streak |-> 0]
          BY <3>1, <3>4
        <4>2. g >= Hysteresis
          BY <3>2, <3>4, <1>1, <1>2, <2>1
        <4> QED BY <4>1, <4>2, <1>1, <1>2, <2>3 DEF Zones
      <3>5. CASE ~ (n >= Hysteresis)
        <4>1. h = [to |-> "none", pending |-> "comfort", streak |-> n]
          BY <3>1, <3>5
        <4>2. n <= g
          BY <3>2, <3>3, <3>5, <1>1
        <4> HIDE DEF n
        <4> QED BY <4>1, <4>2, <3>2, <1>1, <1>2, <2>1 DEF Zones
      <3> QED BY <3>4, <3>5
    <2> QED BY <2>2, <2>3
  <1> QED BY <1>3, <1>4, <1>5

\* The target of a transition is in the session's band, and the cut is no raise.
LEMMA TargetInBand ==
  ASSUME AbrInv, NEW zone \in Zones
  PROVE /\ A!Target(zone) \in Nat
        /\ Floor <= A!Target(zone) /\ A!Target(zone) <= Ceiling
        /\ zone = "recovery" => A!Target(zone) <= ctl.kbps
        /\ zone = "comfort" => A!Target(zone) = Ceiling
  <1>1. /\ Floor \in Nat /\ Ceiling \in Nat /\ Floor <= Ceiling /\ CutPct \in Nat
        /\ ctl.kbps \in Nat /\ Floor <= ctl.kbps /\ ctl.kbps <= Ceiling
    BY MediaAssumption DEF AbrInv, AbrTypes, A!AbrAssumption
  <1>2. CASE zone = "comfort"
    BY <1>1, <1>2 DEF A!Target
  <1>3. CASE zone = "recovery"
    <2>1. PICK m \in Nat : m = ctl.kbps * CutPct
      BY <1>1
    <2>2. PICK cut \in Nat : cut = m \div 100
      BY <2>1
    <2>3. A!Target(zone) = A!Clamp(ctl.kbps - cut)
      BY ONLY <1>3, <2>1, <2>2 DEF A!Target
    <2>4. ctl.kbps - cut \in Int /\ ctl.kbps - cut <= ctl.kbps
      BY <1>1
    <2> QED BY ONLY <1>1, <1>3, <2>3, <2>4 DEF A!Clamp
  <1> QED BY <1>2, <1>3 DEF Zones

\* A second of the controller: the parts of the next state, case by case.
LEMMA TickKeeps ==
  ASSUME AbrInv, A!Tick
  PROVE AbrInv' /\ (ctl'.kbps > ctl.kbps => ctl.since >= AntiThrash /\ good' >= Hysteresis)
  <1> DEFINE d == A!ApplyHysteresis(A!Classified)
             probing == d.to = "none" /\ ctl.zone = "probe"
             target == IF d.to # "none" THEN A!Target(d.to)
                       ELSE IF probing THEN A!Target("probe") ELSE ctl.kbps
             done == probing /\ target >= Ceiling
  <1>1. PICK h : h = d
    OBVIOUS
  <1>2. PICK g : g = IF win = "good" THEN A!Later(good, Hysteresis) ELSE 0
    OBVIOUS
  <1>3. /\ h.to \in Zones \cup {"none"}
        /\ h.pending \in Zones \cup {"none"} /\ h.streak \in Nat
        /\ g \in 0..Hysteresis /\ h.streak <= g
        /\ h.to = "comfort" => h.streak = 0 /\ ctl.since >= AntiThrash /\ g >= Hysteresis
        /\ h.to = "none" /\ ctl.zone = "comfort" => h.streak = 0
    BY <1>1, <1>2, Decision
  <1>4. /\ ctl.zone \in Zones /\ ctl.kbps \in Nat /\ ctl.since \in Nat /\ ctl.probe \in Nat
        /\ Floor <= ctl.kbps /\ ctl.kbps <= Ceiling /\ Ceiling \in Nat /\ Floor \in Nat
        /\ ctl.zone = "comfort" => ctl.kbps = Ceiling
        /\ AntiThrash \in Nat /\ ProbeInterval \in Nat
    BY MediaAssumption DEF AbrInv, AbrTypes, A!AbrAssumption
  <1>5. ~ probing
    BY <1>4 DEF Zones
  <1>6. /\ ctl'.zone = IF h.to = "none" THEN ctl.zone ELSE h.to
        /\ ctl'.kbps = IF h.to = "none" THEN ctl.kbps ELSE A!Target(h.to)
        /\ ctl'.since = IF h.to # "none" THEN 1 ELSE A!Later(ctl.since, AntiThrash)
        /\ ctl'.probe = IF h.to = "probe" THEN 1 ELSE A!Later(ctl.probe, ProbeInterval)
        /\ ctl'.pending = h.pending /\ ctl'.streak = h.streak
        /\ ctl' = [zone |-> ctl'.zone, kbps |-> ctl'.kbps, since |-> ctl'.since,
                   probe |-> ctl'.probe, pending |-> ctl'.pending, streak |-> ctl'.streak]
        /\ win' = "none" /\ good' = g
    BY <1>1, <1>2, <1>5 DEF A!Tick
  <1>7. ctl'.since \in Nat /\ ctl'.probe \in Nat
    BY <1>4, <1>6 DEF A!Later
  <1>8. CASE h.to = "none"
    <2>1. AbrTypes'
      BY <1>3, <1>4, <1>6, <1>7, <1>8 DEF AbrTypes
    <2> QED BY <2>1, <1>3, <1>4, <1>6, <1>8 DEF AbrInv
  <1>9. CASE h.to # "none"
    <2>1. PICK k \in Nat : /\ k = A!Target(h.to) /\ Floor <= k /\ k <= Ceiling
                           /\ h.to = "recovery" => k <= ctl.kbps
                           /\ h.to = "comfort" => k = Ceiling
      BY <1>3, <1>9, TargetInBand
    <2>2. ctl'.zone = h.to /\ ctl'.kbps = k /\ h.to \in Zones
      BY <1>3, <1>6, <1>9, <2>1
    <2>3. AbrTypes'
      BY <1>3, <1>6, <1>7, <2>2 DEF AbrTypes
    <2>4. AbrInv'
      BY <2>1, <2>2, <2>3, <1>3, <1>6 DEF AbrInv
    <2>5. ctl'.kbps > ctl.kbps => ctl.since >= AntiThrash /\ good' >= Hysteresis
      BY <2>1, <2>2, <1>3, <1>4, <1>6 DEF Zones
    <2> QED BY <2>4, <2>5
  <1> QED BY <1>8, <1>9

LEMMA AbrStep ==
  ASSUME AbrInv, [A!Next]_aVars
  PROVE AbrInv' /\ (ctl'.kbps > ctl.kbps => ctl.since >= AntiThrash /\ good' >= Hysteresis)
  <1>0. ctl.kbps \in Nat /\ win \in {"none", "good", "band", "bad"}
    BY DEF AbrInv, AbrTypes
  <1>1. CASE A!Tick
    BY <1>1, TickKeeps
  <1>2. CASE A!Observe
    <2>1. UNCHANGED <<ctl, good>> /\ win' \in {"none", "good", "band", "bad"}
      BY <1>0, <1>2 DEF A!Observe
    <2> QED BY <2>1, <1>0 DEF AbrInv, AbrTypes
  <1>3. CASE A!SetRate \/ A!FrameEncoded \/ A!EmitStats \/ UNCHANGED aVars
    <2>1. UNCHANGED <<ctl, win, good>>
      BY <1>3 DEF A!SetRate, A!FrameEncoded, A!EmitStats, aVars
    <2> QED BY <2>1, <1>0 DEF AbrInv, AbrTypes
  <1> QED BY <1>1, <1>2, <1>3 DEF A!Next

\* The controller is only ever comfortable at its ceiling or recovering: the zone
\* Probe of desktop_abr.rs, and the steps it takes, cannot be reached.
THEOREM ProbeIsDead ==
  MediaSpec => [](ctl.zone # "probe" /\ (ctl.zone = "comfort" => ctl.kbps = Ceiling))
  <1>1. MediaInit => AbrInv
    BY AbrInvInit DEF MediaInit
  <1>2. AbrInv /\ [Steps]_all => AbrInv'
    BY AbrPart, AbrStep
  <1>3. AbrInv => ctl.zone # "probe" /\ (ctl.zone = "comfort" => ctl.kbps = Ceiling)
    BY DEF AbrInv, AbrTypes, Zones
  <1> QED BY <1>1, <1>2, <1>3, PTL DEF MediaSpec, Steps

\* tick of desktop_abr.rs raises the target only when the anti-thrash time is over
\* and Hysteresis seconds in a row were healthy.
THEOREM RaisesEarned == MediaSpec => RaiseEarned
  <1>1. MediaInit => AbrInv
    BY AbrInvInit DEF MediaInit
  <1>2. AbrInv /\ [Steps]_all => AbrInv'
    BY AbrPart, AbrStep
  <1>3. AbrInv /\ [Steps]_all =>
          [ctl'.kbps > ctl.kbps => ctl.since >= AntiThrash /\ good' >= Hysteresis]_aVars
    BY AbrPart, AbrStep
  <1> QED BY <1>1, <1>2, <1>3, PTL DEF MediaSpec, Steps, RaiseEarned, A!RaiseEarned, A!vars, aVars

-----------------------------------------------------------------------------
(* The JPEG frames                                                         *)

JpegTypes ==
  /\ run \in 0..(MaxRestarts + 1)
  /\ thread \in [J!Runs -> {"none", "live", "gone"}]
  /\ changed \in [J!Runs -> SUBSET Tiles]
  /\ first \in [J!Runs -> BOOLEAN]
  /\ frames \in Seq(SUBSET Tiles)
  /\ sending \in SUBSET Tiles
  /\ flight \in [Tiles -> [J!Runs -> Nat]]
  /\ viewer \in [Tiles -> Nat]
  /\ torn \in SUBSET Tiles /\ astray \in SUBSET Tiles

\* A capture that has not started has not used up its first frame.
Untouched == \A r \in J!Runs : r > run => thread[r] = "none" /\ first[r]

\* Before its first frame the diff of a capture holds every tile, and nothing that
\* could keep the frame out of the channel.
Fresh == first[run] => changed[run] = Tiles /\ frames = <<>>

\* One tile of the current capture is accounted for.
Owed(t) == t \in torn \/ t \in astray \/ viewer[t] = run \/ J!UnderWay(t)

JpegInv ==
  /\ JpegTypes
  /\ run # 0 => Untouched /\ Fresh /\ (~ first[run] => \A t \in Tiles : Owed(t))

LEMMA RunsAre == J!Runs = 1..(MaxRestarts + 1) /\ MaxRestarts \in Nat /\ Tiles # {}
                 /\ FrameCap \in Nat \ {0} /\ MaxFlight \in Nat
  BY MediaAssumption DEF J!JpegAssumption, J!Runs

LEMMA JpegInvInit == J!Init => JpegInv
  <1> SUFFICES ASSUME J!Init PROVE JpegInv
    OBVIOUS
  <1>1. 1 \in J!Runs /\ MaxRestarts \in Nat
    BY RunsAre
  <1>2. JpegTypes
    BY <1>1 DEF J!Init, JpegTypes
  <1>3. Untouched
    BY <1>1, RunsAre DEF J!Init, Untouched
  <1>4. Fresh /\ first[run]
    BY <1>1 DEF J!Init, Fresh
  <1> QED BY <1>2, <1>3, <1>4 DEF JpegInv

\* A turn of a capture loop, as far as the current capture's frames go.
LEMMA CaptureKeeps ==
  ASSUME JpegInv, NEW r \in J!Runs, J!Capture(r)
  PROVE JpegInv'
  <1> DEFINE room == r = run /\ Len(frames) < FrameCap
  <1>0. PICK tiles \in J!Diff(r) : \E failed \in SUBSET tiles :
          /\ changed' = [changed EXCEPT ![r] = @ \ tiles]
          /\ first' = [first EXCEPT ![r] = FALSE]
          /\ frames' = IF tiles \ failed # {} /\ room
                       THEN Append(frames, tiles \ failed) ELSE frames
          /\ torn' = J!Torn(r, failed, IF room THEN tiles \ failed ELSE {})
          /\ thread' = [thread EXCEPT ![r] =
               IF tiles \ failed # {} /\ r # run THEN "gone" ELSE @]
    BY DEF J!Capture
  <1>1. PICK failed \in SUBSET tiles :
          /\ changed' = [changed EXCEPT ![r] = @ \ tiles]
          /\ first' = [first EXCEPT ![r] = FALSE]
          /\ frames' = IF tiles \ failed # {} /\ room
                       THEN Append(frames, tiles \ failed) ELSE frames
          /\ torn' = J!Torn(r, failed, IF room THEN tiles \ failed ELSE {})
          /\ thread' = [thread EXCEPT ![r] =
               IF tiles \ failed # {} /\ r # run THEN "gone" ELSE @]
    BY <1>0
  <1>2. /\ UNCHANGED <<run, sending, flight, viewer, astray>> /\ thread[r] = "live"
        /\ JpegTypes
    BY DEF J!Capture, J!wire, JpegInv
  <1>3. tiles \in SUBSET changed[r] /\ tiles \in SUBSET Tiles
    BY <1>1, <1>2 DEF J!Diff, JpegTypes
  <1>4. frames' \in Seq(SUBSET Tiles)
    BY <1>1, <1>2, <1>3 DEF JpegTypes
  <1>5. torn' \in SUBSET Tiles
    BY <1>1, <1>2, <1>3 DEF JpegTypes, J!Torn
  <1>6. /\ changed' \in [J!Runs -> SUBSET Tiles] /\ first' \in [J!Runs -> BOOLEAN]
        /\ thread' \in [J!Runs -> {"none", "live", "gone"}]
    BY <1>1, <1>2 DEF JpegTypes
  <1>7. JpegTypes'
    BY <1>2, <1>4, <1>5, <1>6 DEF JpegTypes
  <1> SUFFICES ASSUME run # 0
               PROVE Untouched' /\ Fresh' /\ (~ first'[run] => \A t \in Tiles : Owed(t)')
    BY <1>2, <1>7 DEF JpegInv
  <1>8. /\ run \in J!Runs /\ run \in Nat /\ Untouched /\ Fresh
        /\ ~ first[run] => \A t \in Tiles : Owed(t)
    BY <1>2, RunsAre DEF JpegInv, JpegTypes
  <1>9. ~ (r > run)
    BY <1>2, <1>8 DEF Untouched
  <1>10. Untouched'
    <2> SUFFICES ASSUME NEW later \in J!Runs, later > run
                 PROVE thread'[later] = "none" /\ first'[later]
      BY <1>2 DEF Untouched
    <2>1. later # r
      BY <1>9
    <2> QED BY <2>1, <1>1, <1>2, <1>8 DEF Untouched, JpegTypes
  <1>11. CASE r # run
    <2>1. /\ frames' = frames /\ first'[run] = first[run] /\ changed'[run] = changed[run]
          /\ torn' = torn
      BY <1>1, <1>2, <1>8, <1>11 DEF JpegTypes, J!Torn
    <2>2. \A t \in Tiles : Owed(t)' <=> Owed(t)
      BY <2>1, <1>2 DEF Owed, J!UnderWay
    <2> QED BY <2>1, <2>2, <1>2, <1>8, <1>10 DEF Fresh
  <1>12. CASE r = run
    <2>1. ~ first'[run] /\ Fresh'
      BY <1>1, <1>2, <1>8, <1>12 DEF Fresh, JpegTypes
    <2> SUFFICES ASSUME NEW t \in Tiles PROVE Owed(t)'
      BY <2>1, <1>10
    <2>2. CASE room /\ t \in tiles \ failed
      <3>1. frames' = Append(frames, tiles \ failed)
        BY <1>1, <2>2
      <3>2. /\ Len(frames) + 1 \in DOMAIN frames'
            /\ frames'[Len(frames) + 1] = tiles \ failed
        BY <3>1, <1>2, <1>3 DEF JpegTypes
      <3> QED BY <3>2, <2>2 DEF Owed, J!UnderWay
    <2>3. CASE ~ (room /\ t \in tiles \ failed) /\ first[run]
      <3>1. tiles = Tiles /\ room
        BY <1>1, <1>8, <1>12, <2>3, RunsAre DEF J!Diff, Fresh
      <3>2. t \in failed /\ t \notin tiles \ failed
        BY <3>1, <2>3
      <3>3. t \in torn'
        BY <1>1, <1>12, <2>3, <3>1, <3>2 DEF J!Torn
      <3> QED BY <3>3 DEF Owed
    <2>4. CASE ~ (room /\ t \in tiles \ failed) /\ ~ first[run]
      <3>1. t \in torn => t \in torn'
        BY <1>1, <1>12, <2>4 DEF J!Torn
      <3>2. \A i \in DOMAIN frames : i \in DOMAIN frames' /\ frames'[i] = frames[i]
        BY <1>1, <1>2, <1>3 DEF JpegTypes
      <3>3. J!UnderWay(t) => J!UnderWay(t)'
        BY <3>2, <1>2 DEF J!UnderWay
      <3> QED BY <3>1, <3>3, <1>2, <1>8, <2>4 DEF Owed
    <2> QED BY <2>2, <2>3, <2>4
  <1> QED BY <1>11, <1>12

\* The task takes the oldest frame over: its tiles are no longer queued but sent.
LEMMA ReceiveKeeps ==
  ASSUME JpegInv, J!Receive
  PROVE JpegInv'
  <1>1. /\ run # 0 /\ sending = {} /\ frames # <<>>
        /\ sending' = Head(frames) /\ frames' = Tail(frames)
        /\ UNCHANGED <<run, thread, changed, first, torn, flight, viewer, astray>>
    BY DEF J!Receive, J!Draining, J!wire
  <1>2. /\ JpegTypes /\ Untouched /\ Fresh /\ ~ first[run]
        /\ \A t \in Tiles : Owed(t)
    BY <1>1 DEF JpegInv, Fresh
  <1>3. frames' \in Seq(SUBSET Tiles) /\ sending' \in SUBSET Tiles
    BY <1>1, <1>2 DEF JpegTypes
  <1>4. JpegTypes'
    BY <1>1, <1>2, <1>3 DEF JpegTypes
  <1>5. ASSUME NEW t \in Tiles PROVE Owed(t)'
    <2>1. ASSUME NEW i \in DOMAIN frames, t \in frames[i]
          PROVE t \in sending' \/ \E j \in DOMAIN frames' : t \in frames'[j]
      <3>1. CASE i = 1
        BY <3>1, <2>1, <1>1, <1>2 DEF JpegTypes
      <3>2. CASE i # 1
        <4>1. i - 1 \in DOMAIN frames' /\ frames'[i - 1] = frames[i]
          BY <3>2, <2>1, <1>1, <1>2 DEF JpegTypes
        <4> QED BY <4>1, <2>1
      <3> QED BY <3>1, <3>2
    <2> QED BY <2>1, <1>1, <1>2 DEF Owed, J!UnderWay
  <1> QED BY <1>1, <1>2, <1>4, <1>5 DEF JpegInv, Untouched, Fresh

LEMMA SendKeeps ==
  ASSUME JpegInv, J!SendTile
  PROVE JpegInv'
  <1>1. PICK t \in sending : /\ flight' = [flight EXCEPT ![t][run] = @ + 1]
                             /\ sending' = sending \ {t}
    BY DEF J!SendTile
  <1>2. UNCHANGED <<run, thread, changed, first, frames, viewer, torn, astray>>
    BY DEF J!SendTile
  <1>3. JpegTypes /\ t \in Tiles
    BY DEF JpegInv, JpegTypes
  <1>4. flight' \in [Tiles -> [J!Runs -> Nat]]
    <2> DEFINE counts == [flight[t] EXCEPT ![run] = @ + 1]
    <2>1. flight[t] \in [J!Runs -> Nat]
      BY <1>3 DEF JpegTypes
    <2>2. run \in J!Runs => flight[t][run] + 1 \in Nat
      BY <2>1
    <2>3. counts \in [J!Runs -> Nat]
      BY <2>1, <2>2
    <2>4. flight' = [flight EXCEPT ![t] = counts]
      BY <1>1, <1>3 DEF JpegTypes
    <2> HIDE DEF counts
    <2> QED BY <2>3, <2>4, <1>3 DEF JpegTypes
  <1>5. JpegTypes'
    BY <1>1, <1>2, <1>3, <1>4 DEF JpegTypes
  <1>6. ASSUME run # 0, NEW u \in Tiles, Owed(u) PROVE Owed(u)'
    <2>1. run \in J!Runs
      BY <1>3, <1>6, RunsAre DEF JpegTypes
    <2>2. flight'[t][run] = flight[t][run] + 1 /\ flight[t][run] \in Nat
      BY <1>1, <1>3, <2>1 DEF JpegTypes
    <2>3. u # t => flight'[u] = flight[u]
      BY <1>1, <1>3 DEF JpegTypes
    <2>4. flight'[t][run] > 0
      BY <2>2
    <2>5. CASE u = t
      BY <2>4, <2>5, <1>2 DEF Owed, J!UnderWay
    <2>6. CASE u # t
      BY <2>3, <2>6, <1>1, <1>2, <1>6 DEF Owed, J!UnderWay
    <2> QED BY <2>5, <2>6
  <1> QED BY <1>2, <1>5, <1>6 DEF JpegInv, Untouched, Fresh

\* The new capture starts with a fresh diff and an empty channel.
LEMMA RestartKeeps ==
  ASSUME JpegInv, J!Restart
  PROVE JpegInv'
  <1>1. /\ run # 0 /\ run < MaxRestarts + 1 /\ run' = run + 1
        /\ thread' = [thread EXCEPT ![run + 1] = "live"]
        /\ changed' = [changed EXCEPT ![run + 1] = Tiles]
        /\ frames' = <<>> /\ torn' = {} /\ astray' = {}
        /\ UNCHANGED <<first, sending, flight, viewer>>
    BY DEF J!Restart, J!Draining, J!FreshDiff
  <1>2. JpegTypes /\ Untouched
    BY <1>1 DEF JpegInv
  <1>3. run + 1 \in J!Runs /\ run \in Nat /\ run' \in 0..(MaxRestarts + 1) /\ run' # 0
    BY <1>1, <1>2, RunsAre DEF JpegTypes
  <1>4. JpegTypes'
    BY <1>1, <1>2, <1>3 DEF JpegTypes
  <1>5. Untouched'
    <2> SUFFICES ASSUME NEW later \in J!Runs, later > run + 1
                 PROVE thread'[later] = "none" /\ first'[later]
      BY <1>1 DEF Untouched
    <2>1. later > run /\ later # run + 1
      BY <1>3, RunsAre
    <2> QED BY <2>1, <1>1, <1>2, <1>3 DEF Untouched, JpegTypes
  <1>6. first[run + 1]
    BY <1>2, <1>3 DEF Untouched
  <1>7. Fresh' /\ first'[run']
    BY <1>1, <1>2, <1>3, <1>6 DEF Fresh, JpegTypes
  <1> QED BY <1>4, <1>5, <1>7 DEF JpegInv

\* What lands is drawn or lost: the current capture's tile is on the screen, or it
\* counts as astray; another capture's tile hides nothing but what it counts.
LEMMA LandKeeps ==
  ASSUME JpegInv, NEW t \in Tiles, NEW r \in J!Runs, J!Draw(t, r) \/ J!Lose(t, r)
  PROVE JpegInv'
  <1>1. /\ UNCHANGED <<run, thread, changed, first, frames, sending, torn>>
        /\ flight' = [flight EXCEPT ![t][r] = @ - 1] /\ flight[t][r] > 0
    BY DEF J!Draw, J!Lose, J!Rest, J!Lands
  <1>2. JpegTypes
    BY DEF JpegInv
  <1>3. flight[t][r] \in Nat /\ r \in Nat
    BY <1>2, RunsAre DEF JpegTypes
  <1>4. flight[t][r] - 1 \in Nat
    BY <1>1, <1>3
  <1>5. flight' \in [Tiles -> [J!Runs -> Nat]]
    BY <1>1, <1>2, <1>4 DEF JpegTypes
  <1>6. viewer' \in [Tiles -> Nat] /\ astray' \in SUBSET Tiles
    BY <1>2, <1>3 DEF JpegTypes, J!Draw, J!Lose
  <1>7. JpegTypes'
    BY <1>1, <1>2, <1>5, <1>6 DEF JpegTypes
  <1>8. ASSUME run # 0, NEW u \in Tiles, Owed(u) PROVE Owed(u)'
    <2>1. CASE u # t
      <3>1. /\ flight'[u] = flight[u] /\ viewer'[u] = viewer[u]
            /\ u \in astray => u \in astray'
        BY <2>1, <1>1, <1>2 DEF JpegTypes, J!Draw, J!Lose
      <3> QED BY <3>1, <1>1, <1>8 DEF Owed, J!UnderWay
    <2>2. CASE u = t /\ r = run
      <3>1. viewer'[t] = run \/ t \in astray'
        BY <2>2, <1>2 DEF JpegTypes, J!Draw, J!Lose
      <3> QED BY <3>1, <2>2, <1>1 DEF Owed
    <2>3. CASE u = t /\ r # run
      <3>1. flight'[t][run] = flight[t][run]
        BY <2>3, <1>1, <1>2, <1>8, RunsAre DEF JpegTypes
      <3>2. viewer[t] = run => viewer'[t] = run \/ t \in astray'
        BY <2>3, <1>2 DEF JpegTypes, J!Draw, J!Lose
      <3>3. t \in astray => t \in astray'
        BY <2>3 DEF J!Draw, J!Lose
      <3> QED BY <3>1, <3>2, <3>3, <2>3, <1>1, <1>8 DEF Owed, J!UnderWay
    <2> QED BY <2>1, <2>2, <2>3
  <1> QED BY <1>1, <1>7, <1>8 DEF JpegInv, Untouched, Fresh

LEMMA JpegStep ==
  ASSUME JpegInv, [J!Next]_jVars
  PROVE JpegInv'
  <1>0. JpegTypes
    BY DEF JpegInv
  <1>1. CASE J!ScreenChanges
    <2>1. PICK t \in Tiles : changed' = [r \in J!Runs |-> changed[r] \cup {t}]
      BY <1>1 DEF J!ScreenChanges
    <2>2. UNCHANGED <<run, thread, first, frames, sending, flight, viewer, torn, astray>>
      BY <1>1 DEF J!ScreenChanges, J!wire
    <2>3. JpegTypes'
      BY <2>1, <2>2, <1>0 DEF JpegTypes
    <2>4. ASSUME run # 0, Fresh PROVE Fresh'
      BY <2>1, <2>2, <2>4, <1>0, RunsAre DEF Fresh, JpegTypes
    <2> QED BY <2>2, <2>3, <2>4 DEF JpegInv, Untouched, Owed, J!UnderWay
  <1>2. CASE \E r \in J!Runs : J!Capture(r)
    BY <1>2, CaptureKeeps
  <1>3. CASE \E r \in J!Runs : J!SckTimesOut(r) \/ J!CaptureEnds(r)
    <2>1. PICK r \in J!Runs : thread[r] = "live" /\ thread' = [thread EXCEPT ![r] = "gone"]
      BY <1>3 DEF J!SckTimesOut, J!CaptureEnds
    <2>2. UNCHANGED <<run, changed, first, frames, sending, flight, viewer, torn, astray>>
      BY <1>3 DEF J!SckTimesOut, J!CaptureEnds, J!wire
    <2>3. JpegTypes'
      BY <2>1, <2>2, <1>0 DEF JpegTypes
    <2>4. ASSUME Untouched PROVE Untouched'
      BY <2>1, <2>2, <2>4, <1>0 DEF Untouched, JpegTypes
    <2> QED BY <2>2, <2>3, <2>4 DEF JpegInv, Fresh, Owed, J!UnderWay
  <1>4. CASE J!Receive
    BY <1>4, ReceiveKeeps
  <1>5. CASE J!SendTile
    BY <1>5, SendKeeps
  <1>6. CASE J!Restart
    BY <1>6, RestartKeeps
  <1>7. CASE J!PipelineEnds
    <2>1. /\ run' = 0 /\ frames' = <<>> /\ sending' = {}
          /\ UNCHANGED <<thread, changed, first, torn, flight, viewer, astray>>
      BY <1>7 DEF J!PipelineEnds, J!wire
    <2>2. JpegTypes'
      BY <2>1, <1>0, RunsAre DEF JpegTypes
    <2> QED BY <2>1, <2>2 DEF JpegInv
  <1>8. CASE \E t \in Tiles, r \in J!Runs : J!Draw(t, r) \/ J!Lose(t, r)
    BY <1>8, LandKeeps
  <1>9. CASE UNCHANGED jVars
    BY <1>9 DEF jVars, JpegInv, JpegTypes, Untouched, Fresh, Owed, J!UnderWay
  <1> QED BY <1>1, <1>2, <1>3, <1>4, <1>5, <1>6, <1>7, <1>8, <1>9 DEF J!Next

\* From a capture's first frame on, every tile shows a picture of this capture or has
\* one on its way, unless it could not be encoded, was lost by the data channel or was
\* overtaken by a tile of an older size; for any number of tiles, restarts, places in
\* the frame channel and tiles on the wire.
THEOREM FramesWhole == MediaSpec => []OldTilesRepainted
  <1>1. MediaInit => JpegInv
    BY JpegInvInit DEF MediaInit
  <1>2. JpegInv /\ [Steps]_all => JpegInv'
    BY JpegPart, JpegStep
  <1>3. JpegInv => OldTilesRepainted
    BY DEF JpegInv, OldTilesRepainted, J!OldTilesRepainted, Owed
  <1> QED BY <1>1, <1>2, <1>3, PTL DEF MediaSpec, Steps
=============================================================================
