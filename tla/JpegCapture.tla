------------------------------ MODULE JpegCapture ------------------------------
(***************************************************************************)
(* Frames of a JPEG session: CaptureLoop::run of capture.rs on its         *)
(* blocking thread, the tile diff and the encoder of encode.rs, the task   *)
(* of desktop_ws_capture.rs that drains the frame channel into the         *)
(* viewer's sink and starts a new capture when the size changes, and the   *)
(* way to the browser's canvas.  Only changed tiles travel, so what a      *)
(* frame leaves out must have reached the viewer before.  A tile is known  *)
(* by the capture it came from.                                            *)
(***************************************************************************)
EXTENDS Naturals, Sequences

CONSTANTS Tiles,
          Backends,    \* "xcap" polls, "sck" delivers what moves
          Sinks,       \* "dc", the data channel, or "ws", the fallback
          FrameCap,    \* frames in the channel (2 in the code)
          MaxRestarts, \* size changes (a bound)
          MaxFlight    \* copies of a tile of one capture under way (a bound)

JpegAssumption ==
  /\ Tiles # {} /\ FrameCap \in Nat \ {0}
  /\ MaxRestarts \in Nat /\ MaxFlight \in Nat

VARIABLES via,      \* the capture backend
          sink,     \* what the tiles travel on
          run,      \* the capture the pipeline drains, 0 when it has ended
          thread,   \* per capture: "none", "live" or "gone"
          changed,  \* per capture: the tiles its diff has not seen the last change of
          first,    \* per capture: whether its next frame must not be skipped
          frames,   \* the frame channel, a sequence of sets of tiles
          sending,  \* tiles of the frame that is being sent
          flight,   \* per tile and capture: how many are under way to the canvas
          viewer,   \* per tile: the capture of the picture drawn last
          torn,     \* tiles the encoder lost of this capture's first frame, not sent since
          astray    \* tiles of this capture that were lost or overtaken, not drawn since

vars == <<via, sink, run, thread, changed, first, frames, sending, flight, viewer,
          torn, astray>>
wire == <<flight, viewer, astray>>

Runs == 1..(MaxRestarts + 1)

Init ==
  /\ via \in Backends /\ sink \in Sinks
  /\ run = 1
  /\ thread = [r \in Runs |-> IF r = 1 THEN "live" ELSE "none"]
  /\ changed = [r \in Runs |-> Tiles]
  /\ first = [r \in Runs |-> TRUE]
  /\ frames = <<>> /\ sending = {}
  /\ flight = [t \in Tiles |-> [r \in Runs |-> 0]]
  /\ viewer = [t \in Tiles |-> 0]
  /\ torn = {} /\ astray = {}

-----------------------------------------------------------------------------
\* Something moves on the screen.
ScreenChanges ==
  /\ \E t \in Tiles : changed' = [r \in Runs |-> changed[r] \cup {t}]
  /\ UNCHANGED <<via, sink, run, thread, first, frames, sending, torn, wire>>

\* Faulty variant: the first frame is compared with what the loop before saw.
FreshDiffKept(r) == changed' = [changed EXCEPT ![r] = changed[r - 1]]

\* A fresh diff, and the force-iframe signal that resets it: every tile differs.
FreshDiff(r) == changed' = [changed EXCEPT ![r] = Tiles]

\* TileDiff::diff_bytes: a frame whose thumbnail looks like the last one is taken
\* to be idle; otherwise every tile with another hash is reported, and noted as
\* reported whatever becomes of the frame.
Diff(r) == IF first[r] THEN {changed[r]} ELSE {changed[r], {}}

\* Does the loop get a frame?  ScreenCaptureKit delivers what moves.
Delivered(r) == via = "xcap" \/ changed[r] # {}

\* What the capture has put into the channel is not torn any more.
Torn(r, failed, queued) ==
  IF r # run THEN torn ELSE (IF first[r] THEN failed ELSE torn) \ queued

\* One turn of the loop of capture r.  A tile that cannot be encoded is left out,
\* though the diff has noted it.  An empty frame is not sent at all; a full channel
\* drops the newest frame, a closed one ends the loop.
Capture(r) ==
  /\ thread[r] = "live" /\ Delivered(r)
  /\ \E tiles \in Diff(r) : \E failed \in SUBSET tiles :
       LET coded == tiles \ failed
           room == r = run /\ Len(frames) < FrameCap
       IN /\ changed' = [changed EXCEPT ![r] = @ \ tiles]
          /\ first' = [first EXCEPT ![r] = FALSE]
          /\ frames' = IF coded # {} /\ room THEN Append(frames, coded) ELSE frames
          /\ torn' = Torn(r, failed, IF room THEN coded ELSE {})
          /\ thread' = [thread EXCEPT ![r] = IF coded # {} /\ r # run THEN "gone" ELSE @]
  /\ UNCHANGED <<via, sink, run, sending, wire>>

\* The bounded wait for a ScreenCaptureKit frame runs out: the loop asks whether
\* its receiver is gone.
SckTimesOut(r) ==
  /\ thread[r] = "live" /\ via = "sck" /\ r # run
  /\ thread' = [thread EXCEPT ![r] = "gone"]
  /\ UNCHANGED <<via, sink, run, changed, first, frames, sending, torn, wire>>

\* The monitor cannot be opened, or the stream ends.
CaptureEnds(r) ==
  /\ thread[r] = "live"
  /\ thread' = [thread EXCEPT ![r] = "gone"]
  /\ UNCHANGED <<via, sink, run, changed, first, frames, sending, torn, wire>>

-----------------------------------------------------------------------------
(* The pipeline task: its select! only runs between two frames             *)

Draining == run # 0 /\ sending = {}

Receive ==
  /\ Draining /\ frames # <<>>
  /\ sending' = Head(frames)
  /\ frames' = Tail(frames)
  /\ UNCHANGED <<via, sink, run, thread, changed, first, torn, wire>>

SendTile ==
  /\ \E t \in sending :
       /\ flight[t][run] < MaxFlight
       /\ flight' = [flight EXCEPT ![t][run] = @ + 1]
       /\ sending' = sending \ {t}
  /\ UNCHANGED <<via, sink, run, thread, changed, first, frames, viewer, torn, astray>>

\* The new tier or HiDPI setting: the receiver is dropped with what it held, and
\* a capture at the new size starts.
Restart ==
  /\ Draining /\ run < MaxRestarts + 1
  /\ run' = run + 1
  /\ thread' = [thread EXCEPT ![run + 1] = "live"]
  /\ FreshDiff(run + 1)
  /\ frames' = <<>> /\ torn' = {} /\ astray' = {}
  /\ UNCHANGED <<via, sink, first, sending, flight, viewer>>

\* The shutdown signal, a closed sink in the middle of a frame, or an ended
\* capture whose channel is empty: the task returns.
PipelineEnds ==
  /\ run # 0
  /\ run' = 0
  /\ frames' = <<>> /\ sending' = {}
  /\ UNCHANGED <<via, sink, thread, changed, first, torn, wire>>

-----------------------------------------------------------------------------
(* The way to the canvas.  A tile carries its place and nothing else, and is *)
(* decoded and drawn on its own: on either sink a late one is drawn over a   *)
(* newer one.                                                              *)

Rest == <<via, sink, run, thread, changed, first, frames, sending, torn>>

Lands(t, r) == flight[t][r] > 0 /\ flight' = [flight EXCEPT ![t][r] = @ - 1]

Draw(t, r) ==
  /\ Lands(t, r)
  /\ viewer' = [viewer EXCEPT ![t] = r]
  /\ astray' = CASE r = run         -> astray \ {t}
                 [] viewer[t] = run -> astray \cup {t}
                 [] OTHER           -> astray
  /\ UNCHANGED Rest

\* The data channel is unordered and never sends again.
Lose(t, r) ==
  /\ sink = "dc" /\ Lands(t, r)
  /\ astray' = IF r = run /\ viewer[t] # run THEN astray \cup {t} ELSE astray
  /\ UNCHANGED <<viewer, Rest>>

Next ==
  \/ ScreenChanges \/ Receive \/ SendTile \/ Restart \/ PipelineEnds
  \/ \E r \in Runs : Capture(r) \/ SckTimesOut(r) \/ CaptureEnds(r)
  \/ \E t \in Tiles, r \in Runs : Draw(t, r) \/ Lose(t, r)

\* The threads and the task run, what was sent arrives or is lost; the end of a
\* capture ends its pipeline.
Fairness ==
  /\ WF_vars(Receive) /\ WF_vars(SendTile)
  /\ WF_vars(PipelineEnds /\ Draining /\ frames = <<>> /\ thread[run] = "gone")
  /\ \A r \in Runs : WF_vars(Capture(r)) /\ WF_vars(SckTimesOut(r))
  /\ \A t \in Tiles, r \in Runs : WF_vars(Draw(t, r) \/ Lose(t, r))

Spec == Init /\ [][Next]_vars /\ Fairness

-----------------------------------------------------------------------------
(* Properties                                                              *)

UnderWay(t) ==
  \/ t \in sending \/ flight[t][run] > 0
  \/ \E i \in DOMAIN frames : t \in frames[i]

\* Once a capture has looked at the screen, every tile shows a picture of that
\* capture or has one on its way, in the frame channel, in the task or on the wire:
\* a diff of the old size leaves none out.  The exceptions are the code's: a tile
\* that could not be encoded, that the data channel lost, or that a late tile of the
\* old size was drawn over keeps the old picture until it changes again.
OldTilesRepainted ==
  run # 0 /\ ~ first[run] =>
    \A t \in Tiles \ (torn \cup astray) : viewer[t] = run \/ UnderWay(t)
=============================================================================
