------------------------------ MODULE MCDesktopMedia ------------------------------
(***************************************************************************)
(* The threads of a video session, the frames of a JPEG session and the    *)
(* adaptive bitrate, model-checked in one run.  They share no state: a     *)
(* behaviour is one of them, as `part` says, and the others stay where     *)
(* they started.                                                           *)
(***************************************************************************)
EXTENDS VideoPipeline, Sequences

CONSTANTS Backends, Tiles, Sinks, FrameCap, MaxRestarts, MaxFlight,
          Floor, Ceiling, CutPct, StepPct, ProbeInterval, AntiThrash, Hysteresis,
          OtherRates, MaxFrames

VARIABLES part, via, sink, run, thread, changed, first, frames, sending, flight,
          viewer, torn, astray, ctl, win, rate, stats, good

J == INSTANCE JpegCapture
A == INSTANCE DesktopAbr

jVars == <<via, sink, run, thread, changed, first, frames, sending, flight, viewer,
           torn, astray>>
aVars == <<ctl, win, rate, stats, good>>
all == <<part, vars, jVars, aVars>>

ASSUME MediaAssumption == J!JpegAssumption /\ A!AbrAssumption

\* VideoToolbox and ScreenCaptureKit are macOS; the rest is anywhere.
MCHosts == {[via |-> "sck", codec |-> "vt"], [via |-> "xcap", codec |-> "openh264"],
            [via |-> "xcap", codec |-> "vp9"], [via |-> "sck", codec |-> "av1"]}

Still == enc.codec = "vp9"

\* The fallback sink only lacks a step of the data channel, and the polling backend
\* only a step of the other (a poll that finds nothing changed does nothing): each
\* sink is taken with one backend.
MediaInit ==
  /\ Init /\ J!Init /\ A!Init
  /\ \/ part = "video" /\ via = "xcap" /\ sink = "dc"
     \/ part = "jpeg" /\ Still /\ (sink = "ws") = (via = "xcap")
     \/ part = "abr" /\ Still /\ via = "xcap" /\ sink = "dc"

InVideo(Step) == part = "video" /\ Step /\ UNCHANGED <<part, jVars, aVars>>
InJpeg(Step) == part = "jpeg" /\ Step /\ UNCHANGED <<part, vars, aVars>>
InAbr(Step) == part = "abr" /\ Step /\ UNCHANGED <<part, vars, jVars>>

\* The fairness is that of the video pipeline.
MediaSpec ==
  /\ MediaInit /\ [][InVideo(Next) \/ InJpeg(J!Next) \/ InAbr(A!Next)]_all
  /\ WF_all(InVideo(CaptureLoop)) /\ WF_all(InVideo(EncoderLoop))
  /\ WF_all(InVideo(WriterLoop)) /\ WF_all(InVideo(PliArrives))
  /\ WF_all(InVideo(SecondPasses))

OldTilesRepainted == J!OldTilesRepainted
RaiseEarned == A!RaiseEarned
=============================================================================
