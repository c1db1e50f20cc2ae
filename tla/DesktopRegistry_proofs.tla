------------------------- MODULE DesktopRegistry_proofs -------------------------
(***************************************************************************)
(* One viewer per device, for any number of devices and connections.       *)
(* The invariant is UntoldIsRegistered: an open session that was not told  *)
(* to close is its device's entry.  Whatever takes an entry out or puts    *)
(* another in its place tells the session it belonged to.                  *)
(*                                                                         *)
(* The life of one session, for any codecs, sizes, preferences and bounds: *)
(* its types, with at most one AudioStopped, because nobody announces it   *)
(* before the pipeline runs nor while it does; and the data channel that   *)
(* lost the race, which only a callback that has not looked yet may find   *)
(* open.                                                                   *)
(***************************************************************************)
EXTENDS MCDesktopSession, TLAPS

\* The stages and the answers of a close receiver, as TypeOK has them.
Stage == Open \cup {"new", "inserting", "returned", "gone"}
Close == {"no", "evicted", "kicked", "dropped"}
Session == [stage : Stage, dev : Devices, closed : Close]
Entry == [owner : Sessions \cup {None}, stats : Sessions \cup {None}]

IInv == TypeOK /\ UntoldIsRegistered

\* A session that is told stays what it is, and is not untold afterwards.
LEMMA ToldIsTold ==
  ASSUME ses \in [Sessions -> Session], NEW t \in Sessions, NEW how \in Close \ {"no"}
  PROVE  /\ Told(t, how) \in Session
         /\ Told(t, how).stage = ses[t].stage
         /\ Told(t, how).dev = ses[t].dev
         /\ Told(t, how).closed # "no"
<1>1. ses[t] \in Session
  OBVIOUS
<1>2. CASE ses[t].closed = "no"
  <2>1. Told(t, how) = [ses[t] EXCEPT !.closed = how]
    BY <1>2 DEF Told
  <2> QED BY <1>1, <2>1 DEF Session, Close
<1>3. CASE ses[t].closed # "no"
  <2>1. Told(t, how) = ses[t]
    BY <1>1, <1>3 DEF Told, Session
  <2> QED BY <1>1, <1>3, <2>1
<1> QED BY <1>2, <1>3

LEMMA TypeIs == TypeOK <=> ses \in [Sessions -> Session] /\ reg \in [Devices -> Entry]
BY DEF TypeOK, Session, Stage, Close, Entry

\* The step that takes a device's entry out, or puts s in its place, and tells
\* the session it belonged to, keeps the invariant; s moves to a stage that is
\* not open, or becomes the entry.
LEMMA Replaced ==
  ASSUME IInv, NEW s \in Sessions, NEW to \in Stage, NEW how \in Close \ {"no"},
         NEW owner \in Sessions \cup {None},
         to \in Open => owner = s,
         Replaces(s, to, how),
         reg' = [reg EXCEPT ![ses[s].dev] = [Empty EXCEPT !.owner = owner]]
  PROVE  IInv'
<1> DEFINE d == ses[s].dev
<1>0. ses \in [Sessions -> Session] /\ reg \in [Devices -> Entry]
  BY TypeIs DEF IInv
<1>1. d \in Devices
  BY <1>0 DEF Session
<1>2. [Empty EXCEPT !.owner = owner] \in Entry /\ [Empty EXCEPT !.owner = owner].owner = owner
  BY DEF Empty, Entry
<1>3. ASSUME NEW t \in Sessions
      PROVE  /\ ses'[t] \in Session /\ ses'[t].dev = ses[t].dev
             /\ Untold(t)' => reg'[ses[t].dev].owner = t
  <2>1. ses[t] \in Session /\ ses[t].dev \in Devices
    BY <1>0 DEF Session
  <2>2. Untold(t)' <=> (ses'[t].stage \in Open /\ ses'[t].closed = "no")
    BY DEF Untold, Open
  <2>3. CASE t = s
    <3>1. ses'[t] = [ses[t] EXCEPT !.stage = to]
      BY <2>3 DEF Replaces
    <3>2. ses'[t] \in Session /\ ses'[t].dev = ses[t].dev /\ ses'[t].stage = to
      BY <2>1, <3>1 DEF Session
    <3>3. reg'[d].owner = owner
      BY <1>0, <1>1, <1>2
    <3> QED BY <2>2, <2>3, <3>2, <3>3
  <2>4. CASE t # s /\ t = reg[d].owner
    <3>1. ses'[t] = Told(t, how)
      BY <2>4 DEF Replaces
    <3> QED BY <1>0, <2>2, <3>1, ToldIsTold
  <2>5. CASE t # s /\ t # reg[d].owner
    <3>1. ses'[t] = ses[t]
      BY <2>5 DEF Replaces
    <3>2. Untold(t)' => reg[ses[t].dev].owner = t
      BY <2>2, <3>1 DEF IInv, UntoldIsRegistered, Untold
    <3>3. CASE ses[t].dev = d
      BY <2>1, <2>5, <3>1, <3>2, <3>3
    <3>4. CASE ses[t].dev # d
      <4>1. reg'[ses[t].dev] = reg[ses[t].dev]
        BY <1>0, <2>1, <3>4
      <4> QED BY <2>1, <3>1, <3>2, <4>1
    <3> QED BY <3>3, <3>4
  <2> QED BY <2>3, <2>4, <2>5
<1>4. ses' \in [Sessions -> Session]
  BY <1>3 DEF Replaces
<1>5. reg' \in [Devices -> Entry]
  BY <1>0, <1>1, <1>2
<1>6. TypeOK'
  BY <1>4, <1>5 DEF TypeOK, Session, Stage, Close, Entry
<1>7. UntoldIsRegistered'
  BY <1>3 DEF UntoldIsRegistered
<1> QED BY <1>6, <1>7 DEF IInv

\* A session that moves from one stage to another and was open before keeps the
\* invariant: no entry changes hands.
LEMMA Moved ==
  ASSUME IInv, NEW s \in Sessions, NEW to \in Stage, ses[s].stage \in Open,
         ses' = [ses EXCEPT ![s].stage = to], UNCHANGED reg
  PROVE  IInv'
<1>0. ses \in [Sessions -> Session] /\ reg \in [Devices -> Entry]
  BY TypeIs DEF IInv
<1>1. ASSUME NEW t \in Sessions
      PROVE  /\ ses'[t] \in Session /\ ses'[t].dev = ses[t].dev
             /\ Untold(t)' => Untold(t)
  <2>1. ses[t] \in Session
    BY <1>0
  <2>2. CASE t = s
    <3>1. ses'[t] = [ses[t] EXCEPT !.stage = to]
      BY <1>0, <2>2
    <3>2. ses'[t] \in Session /\ ses'[t].dev = ses[t].dev /\ ses'[t].closed = ses[t].closed
      BY <2>1, <3>1 DEF Session
    <3> QED BY <2>2, <3>2 DEF Untold
  <2>3. CASE t # s
    <3>1. ses'[t] = ses[t]
      BY <1>0, <2>3
    <3> QED BY <2>1, <3>1 DEF Untold
  <2> QED BY <2>2, <2>3
<1>2. ses' \in [Sessions -> Session]
  BY <1>0, <1>1
<1>3. TypeOK'
  BY <1>0, <1>2 DEF TypeOK, Session, Stage, Close, Entry
<1>4. UntoldIsRegistered'
  BY <1>1 DEF UntoldIsRegistered, IInv
<1> QED BY <1>3, <1>4 DEF IInv

\* The operator's kick takes the entry out and tells its session.
LEMMA Kicked ==
  ASSUME IInv, NEW d \in Devices, Kick(d)
  PROVE  IInv'
<1> DEFINE old == reg[d].owner
<1>0. ses \in [Sessions -> Session] /\ reg \in [Devices -> Entry]
  BY TypeIs DEF IInv
<1>1. old \in Sessions
  BY <1>0 DEF Kick, Entry
<1>2. ses' = [ses EXCEPT ![old] = Told(old, "kicked")] /\ reg' = [reg EXCEPT ![d] = Empty]
  BY DEF Kick
<1>3. Told(old, "kicked") \in Session /\ Told(old, "kicked").dev = ses[old].dev
      /\ Told(old, "kicked").closed # "no"
  BY <1>0, <1>1, ToldIsTold DEF Close
<1>4. ASSUME NEW t \in Sessions, Untold(t)'
      PROVE  reg'[ses'[t].dev].owner = t
  <2>1. t # old
    BY <1>0, <1>1, <1>2, <1>3, <1>4 DEF Untold
  <2>2. ses'[t] = ses[t]
    BY <1>0, <1>2, <2>1
  <2>3. reg[ses[t].dev].owner = t /\ ses[t].dev \in Devices
    BY <1>0, <1>4, <2>2 DEF IInv, UntoldIsRegistered, Untold, Session
  <2>4. ses[t].dev # d
    BY <2>1, <2>3
  <2> QED BY <1>0, <1>2, <2>2, <2>3, <2>4
<1>5. ses' \in [Sessions -> Session]
  BY <1>0, <1>1, <1>2, <1>3
<1>6. reg' \in [Devices -> Entry]
  BY <1>0, <1>2 DEF Empty, Entry
<1>7. TypeOK'
  BY <1>5, <1>6 DEF TypeOK, Session, Stage, Close, Entry
<1> QED BY <1>4, <1>7 DEF IInv, UntoldIsRegistered

\* Statistics leave the owner of the entry alone.
LEMMA Attached ==
  ASSUME IInv, NEW s \in Sessions, AttachStats(s)
  PROVE  IInv'
<1>0. ses \in [Sessions -> Session] /\ reg \in [Devices -> Entry]
  BY TypeIs DEF IInv
<1>1. ses' = ses /\ reg' = [reg EXCEPT ![ses[s].dev].stats = s]
  BY DEF AttachStats
<1>2. \A d \in Devices : reg'[d] \in Entry /\ reg'[d].owner = reg[d].owner
  BY <1>0, <1>1 DEF Entry
<1>3. reg' \in [Devices -> Entry]
  BY <1>0, <1>1, <1>2
<1>4. TypeOK'
  BY <1>0, <1>1, <1>3 DEF TypeOK, Session, Stage, Close, Entry
<1>5. UntoldIsRegistered'
  BY <1>0, <1>1, <1>2 DEF IInv, UntoldIsRegistered, Untold, Session
<1> QED BY <1>4, <1>5 DEF IInv

LEMMA InitHolds == Init => IInv
BY IdleAssumption DEF Init, IInv, TypeOK, UntoldIsRegistered, Untold, Open, Empty

LEMMA StepHolds == IInv /\ [Next]_vars => IInv'
<1> SUFFICES ASSUME IInv, [Next]_vars PROVE IInv'
  OBVIOUS
<1>e. [Empty EXCEPT !.owner = None] = Empty
  BY DEF Empty
<1>1. ASSUME NEW s \in Sessions, Evict(s) PROVE IInv'
  <2>1. /\ Replaces(s, "inserting", "evicted")
        /\ reg' = [reg EXCEPT ![ses[s].dev] = [Empty EXCEPT !.owner = None]]
    BY <1>1, <1>e DEF Evict
  <2>2. "inserting" \in Stage /\ "inserting" \notin Open /\ "evicted" \in Close \ {"no"}
    BY DEF Stage, Open, Close
  <2> QED BY <2>1, <2>2, Replaced
<1>2. ASSUME NEW s \in Sessions, Insert(s) PROVE IInv'
  <2>1. /\ Replaces(s, "registered", "evicted")
        /\ reg' = [reg EXCEPT ![ses[s].dev] = [Empty EXCEPT !.owner = s]]
    BY <1>2 DEF Insert
  <2>2. "registered" \in Stage /\ "evicted" \in Close \ {"no"}
    BY DEF Stage, Open, Close
  <2> QED BY <2>1, <2>2, Replaced
<1>3. ASSUME NEW s \in Sessions, Upgrade(s) PROVE IInv'
  <2>1. ses[s].stage \in Open
    BY <1>3 DEF Upgrade, Open
  <2>2. PICK to \in {"running", "gone"} : ses' = [ses EXCEPT ![s].stage = to]
    BY <1>3 DEF Upgrade
  <2> QED BY <1>3, <2>1, <2>2, Moved DEF Upgrade, Stage, Open
<1>4. ASSUME NEW s \in Sessions, AcquireGuard(s) PROVE IInv'
  <2>1. ses[s].stage \in Open
    BY <1>4 DEF AcquireGuard, Open
  <2>2. PICK to \in {"guarded", "unguarded"} : ses' = [ses EXCEPT ![s].stage = to]
    BY <1>4 DEF AcquireGuard
  <2> QED BY <1>4, <2>1, <2>2, Moved DEF AcquireGuard, Stage, Open
<1>5. ASSUME NEW s \in Sessions, RunReturns(s) PROVE IInv'
  <2>1. ses[s].stage \in Open
    BY <1>5 DEF RunReturns, Open
  <2> QED BY <1>5, <2>1, Moved DEF RunReturns, Stage
<1>6. ASSUME NEW s \in Sessions, Remove(s) PROVE IInv'
  <2>1. /\ Replaces(s, "gone", "dropped")
        /\ reg' = [reg EXCEPT ![ses[s].dev] = [Empty EXCEPT !.owner = None]]
    BY <1>6, <1>e DEF Remove
  <2>2. "gone" \in Stage /\ "gone" \notin Open /\ "dropped" \in Close \ {"no"}
    BY DEF Stage, Open, Close
  <2> QED BY <2>1, <2>2, Replaced
<1>7. CASE UNCHANGED vars
  BY <1>7 DEF vars, IInv, TypeOK, UntoldIsRegistered, Untold
<1> QED BY <1>1, <1>2, <1>3, <1>4, <1>5, <1>6, <1>7, Attached, Kicked DEF Next

(* The sessions and the entries keep their types.                            *)
THEOREM TypeCorrect == Spec => []TypeOK
<1>1. Spec => []IInv
  BY InitHolds, StepHolds, PTL DEF Spec
<1>2. IInv => TypeOK
  BY DEF IInv
<1> QED BY <1>1, <1>2, PTL

(* One viewer per device (desktop_service.rs): of the open sessions of a     *)
(* device at most one has not been told to close.                            *)
THEOREM OneViewerHolds == Spec => []OneViewer
<1>1. Spec => []IInv
  BY InitHolds, StepHolds, PTL DEF Spec
<1>2. IInv => OneViewer
  BY DEF IInv, UntoldIsRegistered, OneViewer
<1> QED BY <1>1, <1>2, PTL

-----------------------------------------------------------------------------
(* The session                                                             *)

Early == {"negotiate", "peer", "announce", "lockstate", "tracks", "answer", "start"}
Phases == Early \cup {"wire", "first", "loop", "race", "closeDc", "capture", "jpeg",
                      "teardown", "return", "ended", "panicked"}

Neg == [pref : S!InForce, caps : Capabilities \cup {S!NoCaps},
        pipeline : S!VideoCodecs \cup {"jpeg", "none"},
        size : Sizes, fresh : BOOLEAN, locked : Sizes]
Link == [pc : {"none", "new", "connected", "closed"}, out : 0..OutCap, ahead : Nat,
         answer : {"none", "queued", "sent"}, close : BOOLEAN]
Vid == [params : {"none", "waiting", "ready", "dead", "done"},
        dog : {"off", "idle", "armed", "timing", "elapsed"},
        enc : {"off", "live", "stopping", "gone"}, det : {"off", "polling", "resolved"}]
Aud == [on : BOOLEAN, gate : BOOLEAN, pipe : {"none", "live", "gone"}, stop : BOOLEAN,
        started : 0..1, stopped : 0..1]
Jpg == [dc : {"none", "opening", "open", "closed"}, cb : {"idle", "called", "racing", "done"},
        chosen : 0..2, won : BOOLEAN, cap : {"off", "live", "stopping", "gone"},
        ended : BOOLEAN]
Env == [notices : 0..MaxNotices, inputs : 0..MaxInput]

STypes ==
  /\ phase \in Phases /\ neg \in Neg /\ link \in Link /\ vid \in Vid
  /\ aud \in Aud /\ jpg \in Jpg /\ env \in Env

\* Nobody has announced the end of the audio before its pipeline is spawned, nor
\* while it runs.
Quiet ==
  /\ phase \in Early => aud.pipe = "none" /\ aud.stopped = 0
  /\ aud.pipe = "live" => aud.stopped = 0

\* Once the loser was dealt with, only its callback that has not looked yet may find
\* the channel open.
Orphan ==
  jpg.chosen = 2 /\ phase # "closeDc" /\ jpg.dc = "open" => jpg.cb = "called"

SInv == STypes /\ Quiet /\ Orphan


\* The actions that change more than one record keep the invariant; the others are
\* steps of SessionStep.
LEMMA AnnounceChoiceKeeps ==
  ASSUME SInv, S!AnnounceChoice PROVE SInv'
<1>1. neg' \in Neg
  BY DEF S!AnnounceChoice, SInv, STypes, Neg
<1>2. link' \in Link
  BY SessionAssumption DEF S!AnnounceChoice, S!SessionAssumption, S!Push, S!Room, SInv, STypes, Link
<1>3. phase' \in Phases
  BY DEF S!AnnounceChoice, SInv, STypes, Phases, Early
<1>4. Quiet'
  BY DEF S!AnnounceChoice, SInv, STypes, Quiet, Early
<1>5. Orphan'
  BY DEF S!AnnounceChoice, SInv, STypes, Orphan
<1> QED BY <1>1, <1>2, <1>3, <1>4, <1>5 DEF S!AnnounceChoice, SInv, STypes

LEMMA PlanTracksKeeps ==
  ASSUME SInv, S!PlanTracks PROVE SInv'
<1>1. aud' \in Aud
  BY DEF S!PlanTracks, SInv, STypes, Aud
<1>2. phase' \in Phases
  BY DEF S!PlanTracks, SInv, STypes, Phases, Early
<1>3. Quiet'
  BY DEF S!PlanTracks, SInv, STypes, Quiet, Early, Aud
<1>4. Orphan'
  BY DEF S!PlanTracks, SInv, STypes, Orphan
<1> QED BY <1>1, <1>2, <1>3, <1>4 DEF S!PlanTracks, SInv, STypes

LEMMA CompleteAnswerKeeps ==
  ASSUME SInv, S!CompleteAnswer PROVE SInv'
<1>1. link' \in Link
  <2>1. link \in Link /\ OutCap \in Nat
    BY SessionAssumption DEF S!SessionAssumption, SInv, STypes
  <2>2. CASE UNCHANGED link
    BY <2>1, <2>2
  <2>3. CASE S!Room /\ link' = [link EXCEPT !.out = @ + 1, !.ahead = @ + link.out, !.answer = "queued"]
    <3>1. link.out + 1 \in 0..OutCap /\ link.ahead + link.out \in Nat
      BY <2>1, <2>3 DEF Link, S!Room
    <3> QED BY <2>1, <2>3, <3>1 DEF Link
  <2> QED BY <2>2, <2>3 DEF S!CompleteAnswer
<1>2. jpg' \in Jpg
  BY DEF S!CompleteAnswer, SInv, STypes, Jpg
<1>3. phase' \in Phases
  BY DEF S!CompleteAnswer, SInv, STypes, Phases, Early
<1>4. Quiet'
  BY DEF S!CompleteAnswer, SInv, STypes, Quiet, Early
<1>5. Orphan'
  BY DEF S!CompleteAnswer, SInv, STypes, Orphan, Jpg
<1> QED BY <1>1, <1>2, <1>3, <1>4, <1>5 DEF S!CompleteAnswer, SInv, STypes

LEMMA StartKeeps ==
  ASSUME SInv, NEW codec, S!Start(codec) PROVE SInv'
<1>1. neg' \in Neg
  BY DEF S!Start, SInv, STypes, Neg
<1>2. link' \in Link
  BY SessionAssumption DEF S!Start, S!SessionAssumption, S!Push, S!Room, SInv, STypes, Link
<1>3. vid' \in Vid
  BY DEF S!Start, SInv, STypes, Vid
<1>4. aud' \in Aud
  <2>1. aud \in Aud /\ aud.stopped = 0
    BY DEF SInv, STypes, Quiet, S!Start, Early
  <2>2. UNCHANGED aud \/ aud' = [aud EXCEPT !.pipe = "live"]
        \/ aud' = [aud EXCEPT !.pipe = "none", !.stopped = aud.stopped + 1, !.stop = TRUE]
    BY DEF S!Start, S!SpawnAudio
  <2>3. aud.stopped + 1 = 1
    BY <2>1
  <2>4. UNCHANGED aud \/ aud' = [aud EXCEPT !.pipe = "live"]
        \/ aud' = [on |-> aud.on, gate |-> aud.gate, pipe |-> "none", stop |-> TRUE,
                    started |-> aud.started, stopped |-> 1]
    BY <2>1, <2>2, <2>3 DEF Aud
  <2>5. CASE UNCHANGED aud
    BY <2>1, <2>5
  <2>6. CASE aud' = [aud EXCEPT !.pipe = "live"]
    BY <2>1, <2>6 DEF Aud
  <2>7. CASE aud' = [on |-> aud.on, gate |-> aud.gate, pipe |-> "none", stop |-> TRUE,
                     started |-> aud.started, stopped |-> 1]
    BY <2>1, <2>7 DEF Aud
  <2> QED BY <2>4, <2>5, <2>6, <2>7
<1>5. phase' \in Phases
  BY DEF S!Start, SInv, STypes, Phases, Early
<1>6. Quiet'
  BY DEF S!Start, S!SpawnAudio, SInv, STypes, Quiet, Early, Aud
<1>7. Orphan'
  BY DEF S!Start, S!SpawnAudio, SInv, STypes, Orphan
<1> QED BY <1>1, <1>2, <1>3, <1>4, <1>5, <1>6, <1>7 DEF S!Start, SInv, STypes

LEMMA WireWatchdogKeeps ==
  ASSUME SInv, S!WireWatchdog PROVE SInv'
<1>1. vid' \in Vid
  BY DEF S!WireWatchdog, SInv, STypes, Vid
<1>2. aud' \in Aud
  BY DEF S!WireWatchdog, SInv, STypes, Aud
<1>3. phase' \in Phases
  BY DEF S!WireWatchdog, SInv, STypes, Phases, Early
<1>4. Quiet'
  BY DEF S!WireWatchdog, SInv, STypes, Quiet, Early, Aud
<1>5. Orphan'
  BY DEF S!WireWatchdog, SInv, STypes, Orphan
<1> QED BY <1>1, <1>2, <1>3, <1>4, <1>5 DEF S!WireWatchdog, SInv, STypes

LEMMA ForwardKeeps ==
  ASSUME SInv, S!Forward PROVE SInv'
<1>1. link' \in Link
  <2>1. link \in Link /\ OutCap \in Nat
    BY SessionAssumption DEF S!SessionAssumption, SInv, STypes
  <2>2. CASE UNCHANGED link
    BY <2>1, <2>2
  <2>3. CASE ~ UNCHANGED link
    <3>1. PICK ahead \in Nat : ahead = IF link.answer = "queued" /\ link.ahead > 0
                                       THEN link.ahead - 1 ELSE link.ahead
      BY <2>1 DEF Link
    <3>2. PICK answer \in {"none", "queued", "sent"} :
            answer = IF link.answer = "queued" /\ link.ahead = 0 THEN "sent" ELSE link.answer
      BY <2>1 DEF Link
    <3>3. link' = [link EXCEPT !.out = @ - 1, !.ahead = ahead, !.answer = answer]
      BY <2>3, <3>1, <3>2 DEF S!Forward
    <3>4. link.out - 1 \in 0..OutCap
      BY <2>1 DEF S!Forward, Link
    <3> QED BY <2>1, <3>3, <3>4 DEF Link
  <2> QED BY <2>2, <2>3
<1>2. phase' \in Phases
  BY DEF S!Forward, SInv, STypes, Phases, Early
<1>3. Quiet'
  BY DEF S!Forward, SInv, STypes, Quiet, Early
<1>4. Orphan'
  BY DEF S!Forward, SInv, STypes, Orphan
<1> QED BY <1>1, <1>2, <1>3, <1>4 DEF S!Forward, SInv, STypes

LEMMA SizeChangesKeeps ==
  ASSUME SInv, S!SizeChanges PROVE SInv'
<1>1. neg' \in Neg
  BY DEF S!SizeChanges, SInv, STypes, Neg
<1>2. link' \in Link
  BY SessionAssumption DEF S!SizeChanges, S!SessionAssumption, S!Push, S!Room, SInv, STypes, Link
<1>3. phase' \in Phases
  BY DEF S!SizeChanges, SInv, STypes, Phases, Early
<1>4. Quiet'
  BY DEF S!SizeChanges, SInv, STypes, Quiet, Early
<1>5. Orphan'
  BY DEF S!SizeChanges, SInv, STypes, Orphan
<1> QED BY <1>1, <1>2, <1>3, <1>4, <1>5 DEF S!SizeChanges, SInv, STypes

LEMMA OnOpenLooksKeeps ==
  ASSUME SInv, S!OnOpenLooks PROVE SInv'
<1>1. jpg' \in Jpg
  BY DEF S!OnOpenLooks, SInv, STypes, Jpg
<1>2. Quiet'
  BY DEF S!OnOpenLooks, SInv, STypes, Quiet, Early
<1>3. Orphan'
  BY DEF S!OnOpenLooks, SInv, STypes, Orphan, Jpg
<1> QED BY <1>1, <1>2, <1>3 DEF S!OnOpenLooks, SInv, STypes

LEMMA OnOpenSendsKeeps ==
  ASSUME SInv, S!OnOpenSends PROVE SInv'
<1>1. jpg' \in Jpg
  BY DEF S!OnOpenSends, SInv, STypes, Jpg
<1>2. Quiet'
  BY DEF S!OnOpenSends, SInv, STypes, Quiet, Early
<1>3. Orphan'
  BY DEF S!OnOpenSends, SInv, STypes, Orphan, Jpg
<1> QED BY <1>1, <1>2, <1>3 DEF S!OnOpenSends, SInv, STypes

LEMMA TeardownKeeps ==
  ASSUME SInv, S!Teardown PROVE SInv'
<1>1. link' \in Link
  BY SessionAssumption DEF S!Teardown, S!SessionAssumption, S!Push, S!Room, SInv, STypes, Link
<1>2. vid' \in Vid
  BY DEF S!Teardown, SInv, STypes, Vid
<1>3. aud' \in Aud
  BY DEF S!Teardown, SInv, STypes, Aud
<1>4. jpg' \in Jpg
  BY DEF S!Teardown, SInv, STypes, Jpg
<1>5. phase' \in Phases
  BY DEF S!Teardown, SInv, STypes, Phases, Early
<1>6. Quiet'
  BY DEF S!Teardown, SInv, STypes, Quiet, Early, Aud
<1>7. Orphan'
  BY DEF S!Teardown, SInv, STypes, Orphan, Jpg
<1> QED BY <1>1, <1>2, <1>3, <1>4, <1>5, <1>6, <1>7 DEF S!Teardown, SInv, STypes

LEMMA NegotiationMessageKeeps ==
  ASSUME SInv, S!NegotiationMessage PROVE SInv'
<1>1. neg' \in Neg
  <2>1. neg \in Neg
    BY DEF SInv, STypes
  <2>2. CASE \E c \in Capabilities : neg' = [neg EXCEPT !.caps = c]
    BY <2>1, <2>2 DEF Neg
  <2>3. CASE \E z \in Sizes : neg' = [neg EXCEPT !.size = z, !.fresh = TRUE]
    BY <2>1, <2>3 DEF Neg
  <2> QED BY <2>2, <2>3 DEF S!NegotiationMessage
<1>2. env' \in Env
  <2>1. env \in Env /\ MaxInput \in Nat /\ env.inputs < MaxInput /\ env' = [env EXCEPT !.inputs = @ + 1]
    BY SessionAssumption DEF S!SessionAssumption, SInv, STypes, S!NegotiationMessage
  <2> QED BY <2>1 DEF Env
<1>3. Quiet'
  BY DEF S!NegotiationMessage, SInv, STypes, Quiet, Early
<1>4. Orphan'
  BY DEF S!NegotiationMessage, SInv, STypes, Orphan
<1> QED BY <1>1, <1>2, <1>3, <1>4 DEF S!NegotiationMessage, SInv, STypes

LEMMA OfferKeeps ==
  ASSUME SInv, S!Offer PROVE SInv'
<1>1. neg' \in Neg
  <2>1. PICK p : p = S!Choose(neg.pref, neg.caps)
    OBVIOUS
  <2>2. p \in S!VideoCodecs \cup {"jpeg", "none"}
    BY <2>1 DEF S!Choose, S!VideoCodecs
  <2>3. UNCHANGED neg \/ neg' = [neg EXCEPT !.pipeline = p]
    BY <2>1 DEF S!Offer
  <2>4. neg \in Neg
    BY DEF SInv, STypes
  <2> QED BY <2>2, <2>3, <2>4 DEF Neg
<1>2. phase' \in Phases
  BY DEF S!Offer, SInv, STypes, Phases, Early
<1>3. Quiet'
  BY DEF S!Offer, SInv, STypes, Quiet, Early
<1>4. Orphan'
  BY DEF S!Offer, SInv, STypes, Orphan
<1> QED BY <1>1, <1>2, <1>3, <1>4 DEF S!Offer, SInv, STypes

LEMMA EncoderDiesKeeps ==
  ASSUME SInv, S!EncoderDies PROVE SInv'
<1>1. vid' \in Vid
  BY DEF S!EncoderDies, SInv, STypes, Vid
<1>2. Quiet'
  BY DEF S!EncoderDies, SInv, STypes, Quiet, Early
<1>3. Orphan'
  BY DEF S!EncoderDies, SInv, STypes, Orphan
<1> QED BY <1>1, <1>2, <1>3 DEF S!EncoderDies, SInv, STypes

LEMMA AudioEndsKeeps ==
  ASSUME SInv, S!AudioEnds PROVE SInv'
<1>1. aud' \in Aud
  <2>1. aud \in Aud /\ aud.stopped = 0
    BY DEF SInv, STypes, Quiet, S!AudioEnds
  <2>2. aud.stopped + 1 = 1 /\ aud' = [aud EXCEPT !.pipe = "gone", !.stopped = aud.stopped + 1]
    BY <2>1 DEF S!AudioEnds
  <2>3. aud' = [on |-> aud.on, gate |-> aud.gate, pipe |-> "gone", stop |-> aud.stop,
                started |-> aud.started, stopped |-> 1]
    BY <2>1, <2>2 DEF Aud
  <2> QED BY <2>1, <2>3 DEF Aud
<1>2. Quiet'
  BY DEF S!AudioEnds, SInv, STypes, Quiet, Early, Aud
<1>3. Orphan'
  BY DEF S!AudioEnds, SInv, STypes, Orphan
<1> QED BY <1>1, <1>2, <1>3 DEF S!AudioEnds, SInv, STypes

LEMMA OperatorTogglesAudioKeeps ==
  ASSUME SInv, S!OperatorTogglesAudio PROVE SInv'
<1>1. aud' \in Aud
  BY DEF S!OperatorTogglesAudio, SInv, STypes, Aud
<1>2. Quiet'
  BY DEF S!OperatorTogglesAudio, SInv, STypes, Quiet, Early, Aud
<1>3. Orphan'
  BY DEF S!OperatorTogglesAudio, SInv, STypes, Orphan
<1> QED BY <1>1, <1>2, <1>3 DEF S!OperatorTogglesAudio, SInv, STypes

LEMMA DetectorResolvesKeeps ==
  ASSUME SInv, S!DetectorResolves PROVE SInv'
<1>1. vid' \in Vid
  BY DEF S!DetectorResolves, SInv, STypes, Vid
<1>2. aud' \in Aud
  BY DEF S!DetectorResolves, SInv, STypes, Aud
<1>3. Quiet'
  BY DEF S!DetectorResolves, SInv, STypes, Quiet, Early, Aud
<1>4. Orphan'
  BY DEF S!DetectorResolves, SInv, STypes, Orphan
<1> QED BY <1>1, <1>2, <1>3, <1>4 DEF S!DetectorResolves, SInv, STypes

LEMMA ClientMessageKeeps ==
  ASSUME SInv, S!ClientMessage PROVE SInv'
<1>1. neg' \in Neg
  BY DEF S!ClientMessage, SInv, STypes, Neg
<1>2. link' \in Link
  BY SessionAssumption DEF S!ClientMessage, S!SessionAssumption, S!Push, S!Room, SInv, STypes, Link
<1>3. env' \in Env
  BY SessionAssumption DEF S!ClientMessage, S!SessionAssumption, SInv, STypes, Env
<1>4. Quiet'
  BY DEF S!ClientMessage, SInv, STypes, Quiet, Early
<1>5. Orphan'
  BY DEF S!ClientMessage, SInv, STypes, Orphan
<1> QED BY <1>1, <1>2, <1>3, <1>4, <1>5 DEF S!ClientMessage, SInv, STypes

LEMMA CloseSignalKeeps ==
  ASSUME SInv, S!CloseSignal PROVE SInv'
<1>1. link' \in Link
  BY SessionAssumption DEF S!CloseSignal, S!SessionAssumption, S!Push, S!Room, SInv, STypes, Link
<1>2. Quiet'
  BY DEF S!CloseSignal, SInv, STypes, Quiet, Early
<1>3. Orphan'
  BY DEF S!CloseSignal, SInv, STypes, Orphan
<1> QED BY <1>1, <1>2, <1>3 DEF S!CloseSignal, SInv, STypes

LEMMA DcOpensKeeps ==
  ASSUME SInv, S!DcOpens PROVE SInv'
<1>1. jpg' \in Jpg
  BY DEF S!DcOpens, SInv, STypes, Jpg
<1>2. Quiet'
  BY DEF S!DcOpens, SInv, STypes, Quiet, Early
<1>3. Orphan'
  BY DEF S!DcOpens, SInv, STypes, Orphan, Jpg
<1> QED BY <1>1, <1>2, <1>3 DEF S!DcOpens, SInv, STypes

LEMMA CaptureRestartsKeeps ==
  ASSUME SInv, S!CaptureRestarts PROVE SInv'
<1>1. neg' \in Neg
  BY DEF S!CaptureRestarts, SInv, STypes, Neg
<1>2. Quiet'
  BY DEF S!CaptureRestarts, SInv, STypes, Quiet, Early
<1>3. Orphan'
  BY DEF S!CaptureRestarts, SInv, STypes, Orphan
<1> QED BY <1>1, <1>2, <1>3 DEF S!CaptureRestarts, SInv, STypes

LEMMA CaptureEndsKeeps ==
  ASSUME SInv, S!CaptureEnds PROVE SInv'
<1>1. jpg' \in Jpg
  BY DEF S!CaptureEnds, SInv, STypes, Jpg
<1>2. Quiet'
  BY DEF S!CaptureEnds, SInv, STypes, Quiet, Early
<1>3. Orphan'
  BY DEF S!CaptureEnds, SInv, STypes, Orphan, Jpg
<1> QED BY <1>1, <1>2, <1>3 DEF S!CaptureEnds, SInv, STypes

\* Every step of a session keeps its invariant.
LEMMA SessionStep ==
  ASSUME SInv, [S!Next]_sVars PROVE SInv'
<1> USE SessionAssumption DEF S!SessionAssumption
<1>1. CASE S!BuildPeer
  BY <1>1 DEF S!BuildPeer, SInv, STypes, Quiet, Orphan, Phases, Early, Link
<1>2. CASE S!RepeatLockState
  BY <1>2 DEF S!RepeatLockState, S!Push, S!Room, SInv, STypes, Quiet, Orphan, Phases, Early, Link
<1>3. CASE S!FirstPoll
  BY <1>3 DEF S!FirstPoll, SInv, STypes, Quiet, Orphan, Phases, Early, Vid
<1>4. CASE S!CloseDc
  BY <1>4 DEF S!CloseDc, SInv, STypes, Quiet, Orphan, Phases, Early, Jpg
<1>5. CASE S!StartCapture
  BY <1>5 DEF S!StartCapture, S!Push, S!Room, SInv, STypes, Quiet, Orphan, Phases, Early, Neg, Link, Jpg
<1>6. CASE S!ParamsArrive
  BY <1>6 DEF S!ParamsArrive, S!Push, S!Room, SInv, STypes, Quiet, Orphan, Phases, Early, Link, Vid
<1>7. CASE S!WatchdogFires
  BY <1>7 DEF S!WatchdogFires, SInv, STypes, Quiet, Orphan, Phases, Early
<1>8. CASE S!DetectorPolledAgain
  BY <1>8 DEF S!DetectorPolledAgain, SInv, STypes, Quiet, Orphan, Phases, Early
<1>9. CASE S!RaceWon
  BY <1>9 DEF S!RaceWon, SInv, STypes, Quiet, Orphan, Phases, Early, Jpg
<1>10. CASE S!RaceTimesOut
  BY <1>10 DEF S!RaceTimesOut, SInv, STypes, Quiet, Orphan, Phases, Early, Jpg
<1>11. CASE S!ReportCaptureEnd
  BY <1>11 DEF S!ReportCaptureEnd, SInv, STypes, Quiet, Orphan, Phases, Early
<1>12. CASE S!WatchdogElapses
  BY <1>12 DEF S!WatchdogElapses, SInv, STypes, Quiet, Orphan, Phases, Early, Vid
<1>13. CASE S!EncoderStops
  BY <1>13 DEF S!EncoderStops, SInv, STypes, Quiet, Orphan, Phases, Early, Vid
<1>14. CASE S!CaptureStops
  BY <1>14 DEF S!CaptureStops, SInv, STypes, Quiet, Orphan, Phases, Early, Jpg
<1>15. CASE S!Return
  BY <1>15 DEF S!Return, SInv, STypes, Quiet, Orphan, Phases, Early
<1>16. CASE S!Notice
  BY <1>16 DEF S!Notice, S!Push, S!Room, S!Alive, SInv, STypes, Quiet, Orphan, Phases, Early, Link, Env
<1>17. CASE S!PeerConnects
  BY <1>17 DEF S!PeerConnects, SInv, STypes, Quiet, Orphan, Phases, Early, Link, Vid
<1>18. CASE S!FirstKeyFrame
  BY <1>18 DEF S!FirstKeyFrame, SInv, STypes, Quiet, Orphan, Phases, Early, Vid
<1>19. CASE S!Close /\ phase # "closeDc"
  BY <1>19 DEF S!Close, SInv, STypes, Quiet, Orphan, Phases, Early
<1>20. CASE UNCHANGED sVars
  BY <1>20 DEF sVars, SInv, STypes, Quiet, Orphan
<1>21. CASE S!StartH264 \/ S!StartVp9 \/ S!StartAv1
  BY <1>21, StartKeeps DEF S!StartH264, S!StartVp9, S!StartAv1
<1>22. CASE S!Internal
  BY <1>22, <1>1, <1>2, <1>3, <1>4, <1>5, <1>6, <1>7, <1>8, <1>9, <1>10, <1>11, <1>12, <1>13, <1>14, <1>15, <1>16, <1>17, <1>18, <1>19, <1>20, <1>21,
     AnnounceChoiceKeeps, PlanTracksKeeps, CompleteAnswerKeeps, WireWatchdogKeeps, ForwardKeeps, SizeChangesKeeps, OnOpenLooksKeeps, OnOpenSendsKeeps, TeardownKeeps
  DEF S!Internal, S!Negotiating, S!BringUp, S!H264Loop, S!Vp9Loop, S!Av1Loop, S!Race, S!WsLoop,
      S!VideoArms, S!CloseSeen
<1> QED
  BY <1>1, <1>2, <1>3, <1>4, <1>5, <1>6, <1>7, <1>8, <1>9, <1>10, <1>11, <1>12, <1>13, <1>14, <1>15, <1>16, <1>17, <1>18, <1>19, <1>20, <1>21, <1>22,
     NegotiationMessageKeeps, OfferKeeps, EncoderDiesKeeps, AudioEndsKeeps, OperatorTogglesAudioKeeps, DetectorResolvesKeeps, ClientMessageKeeps, CloseSignalKeeps, DcOpensKeeps, CaptureRestartsKeeps, CaptureEndsKeeps
  DEF S!Next, S!SocketEnds

LEMMA SessionInit == S!Init => SInv
<1> SUFFICES ASSUME S!Init PROVE SInv
  OBVIOUS
<1>1. neg \in Neg
  <2>1. neg \in [pref : S!InForce, caps : {S!NoCaps}, pipeline : {"none"},
                size : {Default}, fresh : {FALSE}, locked : {Default}]
    BY Zenon DEF S!Init
  <2> QED BY <2>1, SessionAssumption DEF S!SessionAssumption, Neg
<1>2. aud \in Aud /\ aud.stopped = 0 /\ aud.pipe = "none"
  <2>1. aud \in [on : BOOLEAN, gate : {FALSE}, pipe : {"none"}, stop : {FALSE},
                started : {0}, stopped : {0}]
    BY Zenon DEF S!Init
  <2>2. /\ aud.on \in BOOLEAN /\ aud.gate = FALSE /\ aud.pipe = "none" /\ aud.stop = FALSE
        /\ aud.started = 0 /\ aud.stopped = 0
    BY Zenon, <2>1
  <2>3. aud = [on |-> aud.on, gate |-> FALSE, pipe |-> "none", stop |-> FALSE,
               started |-> 0, stopped |-> 0]
    BY <2>1
  <2>4. PICK on \in BOOLEAN : on = aud.on
    BY Zenon, <2>2
  <2>5. [on |-> on, gate |-> FALSE, pipe |-> "none", stop |-> FALSE,
         started |-> 0, stopped |-> 0] \in Aud
    BY <2>4 DEF Aud
  <2> QED BY <2>2, <2>3, <2>4, <2>5
<1>3. link \in Link /\ vid \in Vid /\ jpg \in Jpg /\ env \in Env /\ phase \in Phases
  BY SessionAssumption DEF S!SessionAssumption, S!Init, Link, Vid, Jpg, Env, Phases, Early
<1>4. jpg.chosen # 2
  BY DEF S!Init
<1> QED BY <1>1, <1>2, <1>3, <1>4 DEF SInv, STypes, Quiet, Orphan

LEMMA SessionTypes == SInv => S!TypeOK
BY DEF SInv, STypes, Neg, Link, Vid, Aud, Env, Phases, Early, S!TypeOK

LEMMA NoOrphan == SInv => OrphanChannelClosed
BY DEF SInv, Orphan, OrphanChannelClosed, S!OrphanChannelClosed

-----------------------------------------------------------------------------
(* Both, in one run                                                        *)

DesktopSteps == RegistryStep \/ InSession(S!Next)

LEMMA BothInit == DesktopInit => IInv /\ SInv
BY InitHolds, SessionInit DEF DesktopInit

LEMMA BothSteps == IInv /\ SInv /\ [DesktopSteps]_all => IInv' /\ SInv'
<1> SUFFICES ASSUME IInv, SInv, [DesktopSteps]_all PROVE IInv' /\ SInv'
  OBVIOUS
<1>1. [Next]_vars /\ [S!Next]_sVars
  BY DEF DesktopSteps, RegistryStep, InSession, all
<1> QED BY <1>1, StepHolds, SessionStep

(* The registry and every variable of a session keep their types: at most    *)
(* one AudioStopped is announced and the text channel is never overfull.     *)
THEOREM TypesHold == DesktopSpec => []Types
<1>1. IInv /\ SInv => Types
  BY SessionTypes DEF IInv, Types
<1> QED BY <1>1, BothInit, BothSteps, PTL DEF DesktopSpec, DesktopSteps

(* A data channel that lost the race against the fallback does not stay open *)
(* (desktop_ws.rs), in whatever order its callback, the timer and the close  *)
(* of a channel in mid-handshake come.                                       *)
THEOREM OrphanClosed == DesktopSpec => []OrphanChannelClosed
<1>1. IInv /\ SInv => OrphanChannelClosed
  BY NoOrphan
<1> QED BY <1>1, BothInit, BothSteps, PTL DEF DesktopSpec, DesktopSteps

(* The registry's property in the run that has both: one viewer per device.  *)
THEOREM OneViewerInRun == DesktopSpec => []OneViewer
<1>1. IInv /\ SInv => OneViewer
  BY DEF IInv, UntoldIsRegistered, OneViewer
<1> QED BY <1>1, BothInit, BothSteps, PTL DEF DesktopSpec, DesktopSteps
=============================================================================
