----------------------------- MODULE VideoPipeline -----------------------------
(***************************************************************************)
(* The threads behind a video session: the capture loop (capture.rs,       *)
(* sck.rs), the encoder thread and the RTP writer (video_pipeline.rs for   *)
(* H.264, vp9_pipeline.rs, av1_pipeline.rs), the four encoders, and the    *)
(* picture loss indications that come back.  A frame is what matters to a  *)
(* decoder: a key frame, a plain frame, or one whose predecessor was lost. *)
(* DesktopSession sees of all this the first key frame and the end.        *)
(***************************************************************************)
EXTENDS Naturals

CONSTANTS Hosts,    \* pairs of a capture backend ("xcap" polls, "sck" delivers only what
                    \* changes) and an encoder ("vt" or "openh264", both H.264, "vp9", "av1")
          QueueCap  \* frames between capture and encoder (2 in the code)

ASSUME CapAssumption == QueueCap \in Nat \ {0}

VARIABLES cap,   \* capture: thread, backend, the session's forced key frame, movement
          q,     \* frames for the encoder: how many, and whether one is forced
          enc,   \* encoder thread: see EncInit
          late,  \* a frame VideoToolbox has not handed out yet
          slot,  \* the sample channel, which holds one frame
          wr,    \* the writer and the frame in its hands
          dec,   \* whether the browser's decoder shows the stream
          pli,   \* an indication is queued for the encoder thread
          calm,  \* from now on nothing fails, is lost or comes too fast
          stop   \* whether the session sent the shutdown signal

vars == <<cap, q, enc, late, slot, wr, dec, pli, calm, stop>>

Frames == {"key", "plain", "broken"}
H264 == {"vt", "openh264"}

\* pli: an indication is pending; old: the last key frame is at least a second
\* old; new: the encoder starts a stream, or owes an intra frame; gap: what came
\* last was dropped.
EncInit(codec) == [thread |-> "live", at |-> "top", codec |-> codec, pli |-> FALSE,
                   old |-> TRUE, new |-> TRUE, gap |-> FALSE]

Init ==
  /\ \E h \in Hosts :
       /\ cap = [thread |-> "live", via |-> h.via, force |-> TRUE, moving |-> TRUE]
       /\ enc = EncInit(h.codec)
  /\ q = [n |-> 0, force |-> FALSE]
  /\ late = "none" /\ slot = "none"
  /\ wr = [task |-> "live", hold |-> "none"]
  /\ dec = FALSE /\ pli = FALSE /\ calm = FALSE /\ stop = FALSE

-----------------------------------------------------------------------------
(* Capture (run_bgra and its two drivers)                                  *)

\* The first frame carries the session's forced key frame.  A full channel drops
\* the newest frame, a closed one ends the loop.
Deliver ==
  IF enc.thread = "gone" THEN cap' = [cap EXCEPT !.thread = "gone"] /\ UNCHANGED q
  ELSE /\ q' = IF q.n < QueueCap THEN [n |-> q.n + 1, force |-> q.force \/ cap.force] ELSE q
       /\ cap' = [cap EXCEPT !.force = FALSE]

\* xcap polls; an error is retried without a look at the channel.
CaptureXcap ==
  /\ cap.thread = "live" /\ cap.via = "xcap"
  /\ Deliver
  /\ UNCHANGED <<enc, late, slot, wr, dec, pli, calm, stop>>

\* ScreenCaptureKit delivers while the screen moves; frames that come sooner
\* than the tier's interval are dropped, unless one is forced.
CaptureSck ==
  /\ cap.thread = "live" /\ cap.via = "sck" /\ cap.moving
  /\ Deliver
  /\ UNCHANGED <<enc, late, slot, wr, dec, pli, calm, stop>>

\* The bounded wait: on a static screen the loop asks whether its consumer is
\* gone.
SckTimesOut ==
  /\ cap.thread = "live" /\ cap.via = "sck" /\ enc.thread = "gone"
  /\ cap' = [cap EXCEPT !.thread = "gone"]
  /\ UNCHANGED <<q, enc, late, slot, wr, dec, pli, calm, stop>>

\* The stream ends, or no backend could be opened.
CaptureEnds ==
  /\ cap.thread = "live"
  /\ cap' = [cap EXCEPT !.thread = "gone"]
  /\ UNCHANGED <<q, enc, late, slot, wr, dec, pli, calm, stop>>

\* What ScreenCaptureKit sees of the screen comes to rest or moves again.
ScreenRests ==
  /\ cap.thread = "live" /\ cap.via = "sck"
  /\ cap' = [cap EXCEPT !.moving = ~@]
  /\ UNCHANGED <<q, enc, late, slot, wr, dec, pli, calm, stop>>

-----------------------------------------------------------------------------
(* The encoders: what one call hands out, keeps back and still owes        *)

Coded(force) ==
  IF force \/ enc.new THEN "key" ELSE IF enc.gap THEN "broken" ELSE "plain"

Out(f) == [out |-> f, late |-> "none", new |-> FALSE]

\* VideoToolbox calls back on its own thread: the call hands out the oldest
\* completed frame, which is the new one only if it was quick.  It and OpenH264
\* make key frames of their own accord, too.
VtEncode(force) ==
  UNION {IF late # "none" THEN {[Out(late) EXCEPT !.late = f]}
         ELSE {Out(f), [Out("none") EXCEPT !.late = f]} : f \in {Coded(force), "key"}}

\* OpenH264 may skip a frame to keep its bitrate, and remembers that an intra
\* frame was asked of it.
OpenH264Encode(force) ==
  {Out(Coded(force)), Out("key")}
    \cup (IF calm THEN {} ELSE {[Out("none") EXCEPT !.new = force \/ enc.new]})

\* libvpx and libaom, configured without lookahead and frame dropping, make key
\* frames only on request.
Vp9Encode(force) == {Out(Coded(force))}
Av1Encode(force) == {Out(Coded(force))}

Encode(force) ==
  CASE enc.codec = "vt" -> VtEncode(force)
    [] enc.codec = "openh264" -> OpenH264Encode(force)
    [] enc.codec = "vp9" -> Vp9Encode(force)
    [] OTHER -> Av1Encode(force)

\* A bandwidth estimate, the controller or a new tier may have set the bitrate.
\* OpenH264 has no call to change it and is built anew, with a new stream.
SetBitrate == {enc.new} \cup (IF enc.codec = "openh264" THEN {TRUE} ELSE {})

-----------------------------------------------------------------------------
(* The encoder thread                                                      *)

\* Faulty variant: the indications are taken and not remembered.
LoopTopDeaf ==
  /\ enc.thread = "live" /\ enc.at = "top"
  /\ IF stop
     THEN /\ enc' = [EncInit(enc.codec) EXCEPT !.thread = "gone"]
          /\ q' = [n |-> 0, force |-> FALSE] /\ late' = "none"
     ELSE /\ \E n \in SetBitrate : enc' = [enc EXCEPT !.at = "wait", !.new = n]
          /\ UNCHANGED <<q, late>>
  /\ pli' = FALSE
  /\ UNCHANGED <<cap, slot, wr, dec, calm, stop>>

\* Top of the loop: the shutdown signal, all queued indications, the bitrate.
LoopTop ==
  /\ enc.thread = "live" /\ enc.at = "top"
  /\ IF stop
     THEN /\ enc' = [EncInit(enc.codec) EXCEPT !.thread = "gone"]
          /\ q' = [n |-> 0, force |-> FALSE] /\ late' = "none" /\ pli' = FALSE
     ELSE /\ \E n \in SetBitrate :
               enc' = [enc EXCEPT !.at = "wait", !.pli = @ \/ pli, !.new = n]
          /\ pli' = FALSE
          /\ UNCHANGED <<q, late>>
  /\ UNCHANGED <<cap, slot, wr, dec, calm, stop>>

\* Faulty variant: an unbounded wait.
WaitEndsOnClose ==
  /\ enc.thread = "live" /\ enc.at = "wait" /\ q.n = 0 /\ cap.thread = "gone"
  /\ enc' = [enc EXCEPT !.thread = "gone"]
  /\ UNCHANGED <<cap, q, late, slot, wr, dec, pli, calm, stop>>

\* No frame within 250 ms: back to the top.  A closed channel ends the thread.
WaitEnds ==
  /\ enc.thread = "live" /\ enc.at = "wait" /\ q.n = 0
  /\ IF cap.thread = "gone"
     THEN enc' = [EncInit(enc.codec) EXCEPT !.thread = "gone"] /\ late' = "none"
     ELSE enc' = [enc EXCEPT !.at = "top"] /\ UNCHANGED late
  /\ UNCHANGED <<cap, q, slot, wr, dec, pli, calm, stop>>

\* A dropped frame breaks the one that follows it: the next in line, or else
\* the one the encoder will make.
Break(f) == IF f = "plain" THEN "broken" ELSE f

\* An indication counts when the last key frame is at least a second old.
Honoured == enc.pli /\ enc.old

\* One frame through the encoder and into the sample channel, which drops the
\* new frame when it is full.  An indication is answered when a frame comes
\* out; a failing call keeps it pending.
Through(r) ==
  LET some == r.out # "none"
      full == some /\ slot # "none" IN
  /\ slot' = IF slot = "none" THEN r.out ELSE slot
  /\ late' = IF full THEN Break(r.late) ELSE r.late
  /\ enc' = [enc EXCEPT !.at = "top", !.new = r.new,
                        !.pli = @ /\ ~(Honoured /\ some),
                        !.old = @ /\ r.out # "key",
                        !.gap = IF r.late # "none" THEN FALSE
                                ELSE IF some THEN full ELSE @]

\* The writer has nothing to do.
Idle == slot = "none" /\ wr.hold = "none"

\* The freshest of the queued frames, forced if any of them was; by a new
\* encoder if its dimensions changed.
EncodeFrame ==
  /\ enc.thread = "live" /\ enc.at = "wait" /\ q.n > 0 /\ (calm => Idle)
  /\ q' = [n |-> 0, force |-> FALSE]
  /\ \/ \E r \in Encode(q.force \/ Honoured) : Through(r)
     \/ ~calm /\ Through(Out("key"))
     \/ \* The rebuild or the call fails.
        ~calm /\ enc' = [enc EXCEPT !.at = "top"] /\ UNCHANGED <<late, slot>>
  /\ UNCHANGED <<cap, wr, dec, pli, calm, stop>>

-----------------------------------------------------------------------------
(* The writer, the network and the decoder                                 *)

WriterTakes ==
  /\ wr.task = "live" /\ wr.hold = "none" /\ slot # "none"
  /\ wr' = [wr EXCEPT !.hold = slot]
  /\ slot' = "none"
  /\ UNCHANGED <<cap, q, enc, late, dec, pli, calm, stop>>

\* H.264 looks again after its pacing sleep, and sends the newer frame.
Newer == slot # "none" /\ enc.codec \in H264

\* A frame reaches the decoder or is lost on the way.
Write ==
  /\ wr.hold # "none"
  /\ wr' = [wr EXCEPT !.hold = "none"]
  /\ LET f == IF Newer THEN Break(slot) ELSE wr.hold
         rest == IF Newer THEN "none" ELSE slot IN
     \/ /\ dec' = (f = "key" \/ (dec /\ f = "plain"))
        /\ slot' = rest
        /\ UNCHANGED <<late, enc>>
     \/ /\ ~calm
        /\ slot' = Break(rest)
        /\ late' = IF rest = "none" THEN Break(late) ELSE late
        /\ enc' = [enc EXCEPT !.gap = @ \/ (rest = "none" /\ late = "none")]
        /\ UNCHANGED dec
  /\ UNCHANGED <<cap, q, pli, calm, stop>>

WriterEnds ==
  /\ wr.task = "live" /\ enc.thread = "gone" /\ slot = "none" /\ wr.hold = "none"
  /\ wr' = [wr EXCEPT !.task = "gone"]
  /\ UNCHANGED <<cap, q, enc, late, slot, dec, pli, calm, stop>>

\* A decoder without a picture asks for a key frame, again and again, while the
\* stream arrives; the RTCP reader queues the first.
PliArrives ==
  /\ enc.thread = "live" /\ ~stop /\ ~dec /\ ~pli
  /\ pli' = TRUE
  /\ UNCHANGED <<cap, q, enc, late, slot, wr, dec, calm, stop>>

SecondPasses ==
  /\ enc.thread = "live" /\ ~enc.old
  /\ enc' = [enc EXCEPT !.old = TRUE]
  /\ UNCHANGED <<cap, q, late, slot, wr, dec, pli, calm, stop>>

Shutdown ==
  /\ ~stop
  /\ stop' = TRUE
  /\ UNCHANGED <<cap, q, enc, late, slot, wr, dec, pli, calm>>

\* The network and the load of the host settle.
Settles ==
  /\ ~calm /\ ~stop
  /\ calm' = TRUE
  /\ UNCHANGED <<cap, q, enc, late, slot, wr, dec, pli, stop>>

CaptureLoop == CaptureXcap \/ CaptureSck \/ SckTimesOut
\* The encoder threads of the three pipelines differ in their encoders only, the
\* writers in Newer.
Encoder == LoopTop \/ WaitEnds \/ EncodeFrame
H264Loop == enc.codec \in H264 /\ Encoder
Vp9Loop == enc.codec = "vp9" /\ Encoder
Av1Loop == enc.codec = "av1" /\ Encoder
EncoderLoop == H264Loop \/ Vp9Loop \/ Av1Loop

Writer == WriterTakes \/ Write \/ WriterEnds
H264Writer == enc.codec \in H264 /\ Writer
Vp9Writer == enc.codec = "vp9" /\ Writer
Av1Writer == enc.codec = "av1" /\ Writer
WriterLoop == H264Writer \/ Vp9Writer \/ Av1Writer

Next ==
  \/ CaptureLoop \/ EncoderLoop \/ WriterLoop
  \/ CaptureEnds \/ ScreenRests
  \/ PliArrives \/ SecondPasses \/ Settles
  \/ Shutdown

\* The loops run, time passes, and a decoder without a picture asks.
Fairness ==
  /\ WF_vars(CaptureLoop) /\ WF_vars(EncoderLoop) /\ WF_vars(WriterLoop)
  /\ WF_vars(PliArrives) /\ WF_vars(SecondPasses)

Spec == Init /\ [][Next]_vars /\ Fairness

-----------------------------------------------------------------------------
(* Properties                                                              *)

\* Whatever was dropped at the two full channels, skipped by the encoder,
\* throttled, held back by VideoToolbox or lost on the way: once things settle,
\* a decoder without a picture gets one, unless the screen rests or the session
\* ends.
DecoderRecovers ==
  (calm /\ ~dec) ~> (dec \/ ~cap.moving \/ stop \/ cap.thread = "gone")

\* The comment at the bounded wait: the shutdown signal ends all three loops,
\* also when the screen is static and no frame comes.
PipelineEnds ==
  stop ~> (enc.thread = "gone" /\ cap.thread = "gone" /\ wr.task = "gone")
=============================================================================
