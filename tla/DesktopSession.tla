---------------------------- MODULE DesktopSession ----------------------------
(***************************************************************************)
(* One remote-desktop WebSocket session: run_session of desktop_ws.rs and  *)
(* everything it spawns that can race with it (the ICE and data-channel    *)
(* callbacks of the peer connection, the capture pipeline of               *)
(* desktop_ws_capture.rs, the audio tasks, the macOS lock fan-out).  Which *)
(* session of a device is registered is the subject of DesktopRegistry;    *)
(* here the registry is the close signal it may fire at any time.  How     *)
(* frames are captured and encoded is the subject of VideoPipeline and     *)
(* JpegCapture; here the encoder either delivers its first key frame or    *)
(* dies without one.                                                       *)
(***************************************************************************)
EXTENDS Naturals

CONSTANTS Compiled,     \* the codecs the binary was built with
          Capabilities, \* what clients announce: [codecs, webcodecs]
          Preferences,  \* the operator's OXI_VIDEO_PIPELINE and ?force_pipeline= values
          Sizes, Default, \* encoder sizes: a quality tier with or without HiDPI
          OutCap,       \* slots of the outgoing text channel (32 in the code)
          MaxNotices,   \* ICE candidates, lock and permission notices (a bound)
          MaxInput      \* messages the client sends (a bound)

\* What can be queued before the event loop drains the channel fits into it.
SessionAssumption ==
  /\ Compiled \subseteq {"av1", "vp9", "h264"} /\ Default \in Sizes
  /\ {OutCap, MaxNotices, MaxInput} \subseteq Nat /\ MaxNotices + MaxInput + 4 <= OutCap

VARIABLES phase,  \* where run_session stands
          neg,    \* preference, capabilities, pipeline, the size asked for (a watch that
                  \* is fresh when unseen) and the size capture is locked to
          link,   \* peer connection, text channel (its length, and what is queued ahead
                  \* of the answer), whether the client was answered, the close signal
          vid,    \* first key frame, watchdog, encoder thread and audio-off detector
          aud,    \* the operator's switch, the gate, the audio pipeline and its events
          jpg,    \* data channel race and capture pipeline of a JPEG session
          env     \* what the bounds count

vars == <<phase, neg, link, vid, aud, jpg, env>>

VideoCodecs == {"av1", "vp9", "h264"}

-----------------------------------------------------------------------------
(* Pipeline selection (pipeline_selection.rs)                              *)

\* A WebCodecs client decodes H.264 whatever its codec list says.
Decodable(caps) ==
  (caps.codecs \cup IF caps.webcodecs THEN {"h264"} ELSE {}) \cap Compiled

\* A forced pipeline the client cannot decode is refused ("none"); auto takes
\* AV1, then VP9, then H.264, then JPEG.
Choose(pref, caps) ==
  LET can == Decodable(caps) IN
  CASE pref = "jpeg" -> "jpeg"
    [] pref \in VideoCodecs -> IF pref \in can THEN pref ELSE "none"
    [] OTHER -> IF "av1" \in can THEN "av1" ELSE IF "vp9" \in can THEN "vp9"
                ELSE IF "h264" \in can THEN "h264" ELSE "jpeg"

\* The lenient parser of the environment variable: what is unknown, or was not
\* compiled in, is auto.
ParsePreference(v) == IF v \in Compiled \cup {"jpeg"} THEN v ELSE "auto"

\* The strict parser of ?force_pipeline=: what is unknown is refused with a 400.
ParseForce(v) == IF v \in Compiled \cup {"jpeg", "auto"} THEN v ELSE "bad"

\* The query parameter overrides the operator only when the operator left auto.
Effective(force, operator) ==
  IF force # "absent" /\ operator = "auto" THEN force ELSE operator

\* What a session may start with: a refused parameter starts none.
InForce ==
  {Effective(f, ParsePreference(p)) :
     f \in ({ParseForce(v) : v \in Preferences} \ {"bad"}) \cup {"absent"}, p \in Preferences}

-----------------------------------------------------------------------------
Alive == phase \notin {"ended", "panicked"}
Room == link.out < OutCap
Push == link' = [link EXCEPT !.out = @ + 1]
NoCaps == [codecs |-> {}, webcodecs |-> FALSE]

Init ==
  /\ phase = "negotiate"
  /\ neg \in [pref : InForce, caps : {NoCaps}, pipeline : {"none"},
              size : {Default}, fresh : {FALSE}, locked : {Default}]
  /\ link = [pc |-> "none", out |-> 0, ahead |-> 0, answer |-> "none", close |-> FALSE]
  /\ vid = [params |-> "none", dog |-> "off", enc |-> "off", det |-> "off"]
  /\ aud \in [on : BOOLEAN, gate : {FALSE}, pipe : {"none"}, stop : {FALSE},
              started : {0}, stopped : {0}]
  /\ jpg = [dc |-> "none", cb |-> "idle", chosen |-> 0, won |-> FALSE, cap |-> "off",
            ended |-> FALSE]
  /\ env = [notices |-> 0, inputs |-> 0]

-----------------------------------------------------------------------------
(* Negotiation (await_offer_with_caps)                                     *)

\* Client capabilities, a HiDPI or tier preference.  Early ICE candidates are
\* buffered for the peer connection; an audio toggle is ignored.
NegotiationMessage ==
  /\ phase = "negotiate" /\ env.inputs < MaxInput
  /\ env' = [env EXCEPT !.inputs = @ + 1]
  /\ \/ \E c \in Capabilities : neg' = [neg EXCEPT !.caps = c]
     \/ \E z \in Sizes : neg' = [neg EXCEPT !.size = z, !.fresh = TRUE]
  /\ UNCHANGED <<phase, link, vid, aud, jpg>>

\* The offer: the pipeline is chosen and, for a video codec, must be among the
\* codecs of the SDP; otherwise the client is told why and the session ends.
Offer ==
  /\ phase = "negotiate"
  /\ LET p == Choose(neg.pref, neg.caps) IN
     \E sdp \in {{}, {p}} :
       IF p = "none" \/ p \in VideoCodecs \ sdp
       THEN phase' = "ended" /\ UNCHANGED neg
       ELSE phase' = "peer" /\ neg' = [neg EXCEPT !.pipeline = p]
  /\ UNCHANGED <<link, vid, aud, jpg, env>>

-----------------------------------------------------------------------------
(* Bring-up: run_session between the offer and its event loop.  The text   *)
(* channel is only drained by the loop, so every send here needs room.     *)

\* The peer connection with its "ctrl" and "cursor" channels; buffered ICE
\* candidates are applied to it.
BuildPeer ==
  /\ phase = "peer"
  /\ link' = [link EXCEPT !.pc = "new"]
  /\ phase' = "announce"
  /\ UNCHANGED <<neg, vid, aud, jpg, env>>

\* PipelineChosen to the client; the HiDPI preference seeds the settings watch.
AnnounceChoice ==
  /\ phase = "announce" /\ Room
  /\ Push
  /\ neg' = [neg EXCEPT !.fresh = TRUE]
  /\ phase' = "lockstate"
  /\ UNCHANGED <<vid, aud, jpg, env>>

\* The last known lock state, if the observer has one, is repeated to the
\* client.
RepeatLockState ==
  /\ phase = "lockstate" /\ Room
  /\ Push \/ UNCHANGED link
  /\ phase' = "tracks"
  /\ UNCHANGED <<neg, vid, aud, jpg, env>>

\* The audio gate: a video-RTP pipeline, the operator's setting and the probe.
\* The client's own choice only mutes.
PlanTracks ==
  /\ phase = "tracks"
  /\ \E probe \in BOOLEAN :
       aud' = [aud EXCEPT !.gate = neg.pipeline # "jpeg" /\ aud.on /\ probe]
  /\ phase' = "answer"
  /\ UNCHANGED <<neg, link, vid, jpg, env>>

\* Faulty variant: the answer is written to the socket at once.
CompleteAnswerAtOnce ==
  /\ phase = "answer"
  /\ link' = [link EXCEPT !.answer = "sent"]
  /\ phase' = IF neg.pipeline = "jpeg" THEN "race" ELSE "start"
  /\ jpg' = [jpg EXCEPT !.dc = IF neg.pipeline = "jpeg" THEN "opening" ELSE "none"]
  /\ UNCHANGED <<neg, vid, aud, env>>

\* Transceivers, remote description, answer.  The answer only enters the text
\* channel.  A JPEG session creates the "desktop" data channel; a failing
\* WebRTC call ends the session with the peer connection left to be dropped.
CompleteAnswer ==
  /\ phase = "answer"
  /\ \/ /\ Room
        /\ link' = [link EXCEPT !.out = @ + 1, !.ahead = @ + link.out, !.answer = "queued"]
        /\ phase' = IF neg.pipeline = "jpeg" THEN "race" ELSE "start"
        /\ jpg' = [jpg EXCEPT !.dc = IF neg.pipeline = "jpeg" THEN "opening" ELSE "none"]
     \/ phase' = "return" /\ UNCHANGED <<link, jpg>>
  /\ UNCHANGED <<neg, vid, aud, env>>

\* What other tasks queue: the ICE callback (gathering starts with the local
\* description), the lock fan-out and the accessibility check.
Notice ==
  /\ Alive /\ phase \notin {"negotiate", "peer", "announce", "lockstate"}
  /\ env.notices < MaxNotices /\ Room
  /\ env' = [env EXCEPT !.notices = @ + 1]
  /\ Push
  /\ UNCHANGED <<phase, neg, vid, aud, jpg>>

-----------------------------------------------------------------------------
(* Video sessions: run_h264_session, the VP9 and the AV1 block             *)

\* If the gate passed, the audio pipeline is spawned; a capture that cannot be
\* opened is reported as stopped at once.
SpawnAudio ==
  IF aud.gate
  THEN \/ aud' = [aud EXCEPT !.pipe = "live"]
       \/ aud' = [aud EXCEPT !.pipe = "none", !.stopped = @ + 1, !.stop = TRUE]
  ELSE UNCHANGED aud

\* Dimensions are locked, Capabilities queued; capture and encoder threads, the
\* RTCP reader and the audio pipeline are spawned.  Each codec has its copy.
Start(codec) ==
  /\ phase = "start" /\ neg.pipeline = codec /\ Room
  /\ Push
  /\ neg' = [neg EXCEPT !.locked = neg.size]
  /\ vid' = [vid EXCEPT !.params = "waiting", !.enc = "live"]
  /\ SpawnAudio
  /\ phase' = "wire"
  /\ UNCHANGED <<jpg, env>>

StartH264 == Start("h264")
StartVp9 == Start("vp9")
StartAv1 == Start("av1")

\* AudioStarted follows the spawn; the state-change callback and the watchdog
\* future are created, but neither is polled before the loop.
WireWatchdog ==
  /\ phase = "wire"
  /\ aud' = [aud EXCEPT !.started = IF aud.gate /\ ~aud.stop THEN 1 ELSE 0]
  /\ vid' = [vid EXCEPT !.dog = "idle",
                        !.det = IF neg.pipeline = "h264" /\ aud.gate THEN "polling" ELSE "off"]
  /\ phase' = "first"
  /\ UNCHANGED <<neg, link, jpg, env>>

\* The first select! polls the watchdog, which registers with the Notify,
\* before it reaches the arm that drains the text channel.
FirstPoll ==
  /\ phase = "first"
  /\ vid' = [vid EXCEPT !.dog = "armed"]
  /\ phase' = "loop"
  /\ UNCHANGED <<neg, link, aud, jpg, env>>

\* The peer connects once the client has the answer; notify_waiters wakes the
\* watchdog only if it is already registered.
PeerConnects ==
  /\ link.pc = "new" /\ link.answer = "sent"
  /\ link' = [link EXCEPT !.pc = "connected"]
  /\ vid' = [vid EXCEPT !.dog = IF @ = "armed" THEN "timing" ELSE @]
  /\ UNCHANGED <<phase, neg, aud, jpg, env>>

\* The encoder thread: the first key frame, an early death, the shutdown seen
\* at the top of its loop.
FirstKeyFrame ==
  /\ vid.enc \in {"live", "stopping"} /\ vid.params = "waiting"
  /\ vid' = [vid EXCEPT !.params = "ready"]
  /\ UNCHANGED <<phase, neg, link, aud, jpg, env>>

EncoderDies ==
  /\ vid.enc = "live"
  /\ vid' = [vid EXCEPT !.enc = "gone", !.params = IF @ = "waiting" THEN "dead" ELSE @]
  /\ UNCHANGED <<phase, neg, link, aud, jpg, env>>

EncoderStops ==
  /\ vid.enc = "stopping"
  /\ vid' = [vid EXCEPT !.enc = "gone"]
  /\ UNCHANGED <<phase, neg, link, aud, jpg, env>>

\* The audio encoder task leaves its loop on a capture failure or on the
\* shutdown signal, and emits AudioStopped once.
AudioEnds ==
  /\ aud.pipe = "live"
  /\ aud' = [aud EXCEPT !.pipe = "gone", !.stopped = @ + 1]
  /\ UNCHANGED <<phase, neg, link, vid, jpg, env>>

\* wait_params: the Pipeline message, or nothing when the encoder is gone.
ParamsArrive ==
  /\ phase = "loop" /\ vid.params \in {"ready", "dead"} /\ Room
  /\ IF vid.params = "ready" THEN Push ELSE UNCHANGED link
  /\ vid' = [vid EXCEPT !.params = "done"]
  /\ UNCHANGED <<phase, neg, aud, jpg, env>>

\* Five seconds after Connected.
WatchdogElapses ==
  /\ vid.dog = "timing"
  /\ vid' = [vid EXCEPT !.dog = "elapsed"]
  /\ UNCHANGED <<phase, neg, link, aud, jpg, env>>

\* The arm precedes the drain and needs an unanswered params receiver; the
\* parameter sets win when both are ready.
WatchdogFires ==
  /\ phase = "loop" /\ vid.dog = "elapsed" /\ vid.params = "waiting"
  /\ phase' = "teardown"
  /\ UNCHANGED <<neg, link, vid, aud, jpg, env>>

\* One queued text goes to the socket; a failing write ends the loop (and, in
\* the data channel race, the session).
Forward ==
  /\ phase \in {"loop", "race", "jpeg"} /\ link.out > 0
  /\ \/ /\ LET isAnswer == link.answer = "queued" /\ link.ahead = 0 IN
           link' = [link EXCEPT !.out = @ - 1,
                                !.ahead = IF link.answer = "queued" /\ @ > 0 THEN @ - 1 ELSE @,
                                !.answer = IF isAnswer THEN "sent" ELSE @]
        /\ UNCHANGED phase
     \/ /\ phase' = IF phase = "race" THEN "return" ELSE "teardown"
        /\ UNCHANGED link
  /\ UNCHANGED <<neg, vid, aud, jpg, env>>

\* A new tier or HiDPI setting: the encoder cannot be resized, so another size
\* ends the loop and the client reconnects; the same size may be a new bitrate
\* and Capabilities.
SizeChanges ==
  /\ phase = "loop" /\ neg.fresh /\ Room
  /\ neg' = [neg EXCEPT !.fresh = FALSE]
  /\ IF neg.size # neg.locked
     THEN phase' = "teardown" /\ UNCHANGED link
     ELSE (Push \/ UNCHANGED link) /\ UNCHANGED phase
  /\ UNCHANGED <<vid, aud, jpg, env>>

\* The operator's audio setting, and the H.264 detector that polls it every
\* two seconds: it stops the audio pipeline once.
OperatorTogglesAudio ==
  /\ Alive /\ aud.on
  /\ aud' = [aud EXCEPT !.on = FALSE]
  /\ UNCHANGED <<phase, neg, link, vid, jpg, env>>

DetectorResolves ==
  /\ phase = "loop" /\ vid.det = "polling" /\ ~aud.on
  /\ vid' = [vid EXCEPT !.det = "resolved"]
  /\ aud' = [aud EXCEPT !.stop = TRUE]
  /\ UNCHANGED <<phase, neg, link, jpg, env>>

\* The next select! that reaches the arm polls the finished async block again,
\* which panics: the channel ends are dropped (the encoder's try_recv only
\* understands a message), the code after the loop never runs.
DetectorPolledAgain ==
  /\ phase = "loop" /\ vid.det = "resolved"
  /\ phase' = "panicked"
  /\ UNCHANGED <<neg, link, vid, aud, jpg, env>>

-----------------------------------------------------------------------------
(* Client messages after the offer (on_incoming_text, dispatch_input)      *)

\* Over the socket or the ctrl channel: a tier or HiDPI change sets its watch
\* and queues Capabilities (the plain Settings message does not).  ICE
\* candidates, mute toggles and input events leave this state alone.
ClientMessage ==
  /\ phase \in {"loop", "jpeg"} /\ env.inputs < MaxInput /\ Room
  /\ env' = [env EXCEPT !.inputs = @ + 1]
  /\ \E z \in Sizes : neg' = [neg EXCEPT !.size = z, !.fresh = TRUE]
  /\ Push \/ UNCHANGED link
  /\ UNCHANGED <<phase, vid, aud, jpg>>

\* The registry fires the close signal.
CloseSignal ==
  /\ Alive /\ ~link.close
  /\ link' = [link EXCEPT !.close = TRUE]
  /\ UNCHANGED <<phase, neg, vid, aud, jpg, env>>

Close ==
  /\ phase' = IF phase \in {"negotiate", "race"} THEN "return" ELSE "teardown"
  /\ UNCHANGED <<neg, link, vid, aud, jpg, env>>

\* The first arm of every select!; nothing else looks at the signal.
CloseSeen == link.close /\ Close

\* The client closes the socket, or it breaks.
SocketEnds == phase \in {"negotiate", "loop", "race", "jpeg"} /\ Close

-----------------------------------------------------------------------------
(* JPEG sessions: the data channel race and the capture pipeline           *)

DcOpens ==
  /\ jpg.dc = "opening" /\ link.pc = "connected"
  /\ jpg' = [jpg EXCEPT !.dc = "open", !.cb = "called"]
  /\ UNCHANGED <<phase, neg, link, vid, aud, env>>

\* Faulty variant: the callback does not look at the choice.
OnOpenBlind ==
  /\ jpg.cb = "called"
  /\ jpg' = [jpg EXCEPT !.cb = "racing"]
  /\ UNCHANGED <<phase, neg, link, vid, aud, env>>

\* on_open: a channel that opens after the fallback was chosen is closed.
OnOpenLooks ==
  /\ jpg.cb = "called"
  /\ jpg' = IF jpg.chosen = 2 THEN [jpg EXCEPT !.cb = "done", !.dc = "closed"]
                              ELSE [jpg EXCEPT !.cb = "racing"]
  /\ UNCHANGED <<phase, neg, link, vid, aud, env>>

OnOpenSends ==
  /\ jpg.cb = "racing"
  /\ jpg' = [jpg EXCEPT !.cb = "done", !.won = TRUE]
  /\ UNCHANGED <<phase, neg, link, vid, aud, env>>

RaceWon ==
  /\ phase = "race" /\ jpg.won
  /\ jpg' = [jpg EXCEPT !.chosen = 1]
  /\ phase' = "capture"
  /\ UNCHANGED <<neg, link, vid, aud, env>>

\* The five seconds are over: the choice is published, Fallback sent.
RaceTimesOut ==
  /\ phase = "race" /\ ~jpg.won
  /\ jpg' = [jpg EXCEPT !.chosen = 2]
  /\ phase' = "closeDc"
  /\ UNCHANGED <<neg, link, vid, aud, env>>

\* Closing a channel that is mid-handshake may have no effect on it.
CloseDc ==
  /\ phase = "closeDc"
  /\ \/ jpg' = [jpg EXCEPT !.dc = "closed"]
     \/ jpg.dc = "opening" /\ UNCHANGED jpg
  /\ phase' = "capture"
  /\ UNCHANGED <<neg, link, vid, aud, env>>

StartCapture ==
  /\ phase = "capture" /\ Room
  /\ Push
  /\ jpg' = [jpg EXCEPT !.cap = "live"]
  /\ neg' = [neg EXCEPT !.locked = neg.size]
  /\ phase' = "jpeg"
  /\ UNCHANGED <<vid, aud, env>>

\* A new size drops the frame channel and starts a capture at it,
\* whose first frame is complete.
CaptureRestarts ==
  /\ jpg.cap = "live" /\ neg.fresh
  /\ neg' = [neg EXCEPT !.locked = neg.size, !.fresh = FALSE]
  /\ UNCHANGED <<phase, link, vid, aud, jpg, env>>

\* The capture thread ends: the reason is queued for ws_loop.  A sink that
\* fails ends the pipeline without one.
CaptureEnds ==
  /\ jpg.cap = "live"
  /\ \E told \in BOOLEAN : jpg' = [jpg EXCEPT !.cap = "gone", !.ended = told]
  /\ UNCHANGED <<phase, neg, link, vid, aud, env>>

CaptureStops ==
  /\ jpg.cap = "stopping"
  /\ jpg' = [jpg EXCEPT !.cap = "gone"]
  /\ UNCHANGED <<phase, neg, link, vid, aud, env>>

ReportCaptureEnd ==
  /\ phase = "jpeg" /\ jpg.ended
  /\ phase' = "teardown"
  /\ UNCHANGED <<neg, link, vid, aud, jpg, env>>

-----------------------------------------------------------------------------
(* The end of run_session                                                  *)

\* Faulty variant: the video shutdown channel is left to be dropped.
TeardownDropsSender ==
  /\ phase = "teardown"
  /\ aud' = [aud EXCEPT !.stop = TRUE]
  /\ jpg' = [jpg EXCEPT !.cap = IF @ = "live" THEN "stopping" ELSE @]
  /\ link' = [link EXCEPT !.pc = "closed"]
  /\ phase' = "return"
  /\ UNCHANGED <<neg, vid, env>>

\* Faulty variant: the session announces the end of the audio itself.
TeardownTellsTwice ==
  /\ phase = "teardown"
  /\ vid' = [vid EXCEPT !.enc = IF @ = "live" THEN "stopping" ELSE @]
  /\ aud' = [aud EXCEPT !.stop = TRUE, !.stopped = @ + 1]
  /\ jpg' = [jpg EXCEPT !.cap = IF @ = "live" THEN "stopping" ELSE @]
  /\ link' = [link EXCEPT !.pc = "closed"]
  /\ phase' = "return"
  /\ UNCHANGED <<neg, env>>

\* The shutdown signals of every task the session spawned, then pc.close().
Teardown ==
  /\ phase = "teardown"
  /\ vid' = [vid EXCEPT !.enc = IF @ = "live" THEN "stopping" ELSE @]
  /\ aud' = [aud EXCEPT !.stop = TRUE]
  /\ jpg' = [jpg EXCEPT !.cap = IF @ = "live" THEN "stopping" ELSE @]
  /\ link' = [link EXCEPT !.pc = "closed"]
  /\ phase' = "return"
  /\ UNCHANGED <<neg, env>>

\* run_session returns and drops what it holds.
Return ==
  /\ phase = "return"
  /\ phase' = "ended"
  /\ UNCHANGED <<neg, link, vid, aud, jpg, env>>

\* The arms of the select! loops that are the agent's own.
Negotiating == phase = "negotiate" /\ CloseSeen
VideoArms == CloseSeen \/ ParamsArrive \/ WatchdogFires \/ Forward \/ SizeChanges
H264Loop == phase = "loop" /\ neg.pipeline = "h264" /\ (VideoArms \/ DetectorPolledAgain)
Vp9Loop == phase = "loop" /\ neg.pipeline = "vp9" /\ VideoArms
Av1Loop == phase = "loop" /\ neg.pipeline = "av1" /\ VideoArms
Race == phase = "race" /\ (CloseSeen \/ Forward \/ RaceWon \/ RaceTimesOut)
WsLoop == phase = "jpeg" /\ (CloseSeen \/ Forward \/ ReportCaptureEnd)

BringUp ==
  \/ BuildPeer \/ AnnounceChoice \/ RepeatLockState \/ PlanTracks \/ CompleteAnswer
  \/ StartH264 \/ StartVp9 \/ StartAv1 \/ WireWatchdog \/ FirstPoll
  \/ CloseDc \/ StartCapture

Internal ==
  \/ Negotiating \/ BringUp \/ H264Loop \/ Vp9Loop \/ Av1Loop \/ Race \/ WsLoop
  \/ WatchdogElapses \/ OnOpenLooks \/ OnOpenSends \/ EncoderStops \/ CaptureStops
  \/ Teardown \/ Return

Next ==
  \/ Internal
  \/ NegotiationMessage \/ Offer \/ SocketEnds \/ Notice \/ PeerConnects
  \/ FirstKeyFrame \/ EncoderDies \/ AudioEnds \/ OperatorTogglesAudio
  \/ DetectorResolves \/ ClientMessage \/ CloseSignal \/ DcOpens \/ CaptureRestarts \/ CaptureEnds

\* The steps of the agent's own tasks; an audio task that was told to stop, or
\* whose channel was dropped, stops.
Fairness == WF_vars(Internal) /\ WF_vars(AudioEnds /\ aud.stop)

Spec == Init /\ [][Next]_vars /\ Fairness

-----------------------------------------------------------------------------
(* Properties                                                              *)

TypeOK ==
  /\ phase \in {"negotiate", "peer", "announce", "lockstate", "tracks", "answer",
                "start", "wire", "first", "loop", "race", "closeDc", "capture", "jpeg",
                "teardown", "return", "ended", "panicked"}
  /\ neg.pipeline \in VideoCodecs \cup {"jpeg", "none"} /\ {neg.size, neg.locked} \subseteq Sizes
  /\ link.pc \in {"none", "new", "connected", "closed"} /\ link.out \in 0..OutCap
  /\ vid.params \in {"none", "waiting", "ready", "dead", "done"}
  /\ vid.dog \in {"off", "idle", "armed", "timing", "elapsed"}
  /\ aud.started \in 0..1 /\ aud.stopped \in 0..1
  /\ env.notices \in 0..MaxNotices /\ env.inputs \in 0..MaxInput

\* A data channel that loses the race against the WebSocket fallback does not
\* stay open, whichever of on_open and the timer comes first: nothing would
\* ever drain it.
OrphanChannelClosed ==
  (phase = "jpeg" /\ jpg.chosen = 2 /\ jpg.cb \in {"idle", "done"}) => jpg.dc # "open"

\* A connected video session gets a verdict: its parameters arrive, its
\* encoder is gone, or the watchdog ends it.  The watchdog must not miss the
\* Connected notification, which is not stored.
VideoDecides ==
  (phase = "loop" /\ link.pc = "connected" /\ vid.params = "waiting")
    ~> ~(phase = "loop" /\ vid.params = "waiting")

\* A session that returned leaves no encoder thread, audio task or capture
\* pipeline behind, and no AudioStarted unanswered.
LeavesNothing ==
  (phase = "ended")
    ~> /\ vid.enc \in {"off", "gone"} /\ aud.pipe \in {"none", "gone"}
       /\ jpg.cap \in {"off", "gone"}
       /\ aud.started <= aud.stopped
=============================================================================
