----------------------------- MODULE MCDesktopSession -----------------------------
(***************************************************************************)
(* The registry of the desktop sessions and the life of one session,       *)
(* model-checked in one run.  They share no state: a behaviour is one of   *)
(* the registry or one of a session, as `part` says, and the other stays   *)
(* where it started.                                                       *)
(***************************************************************************)
EXTENDS DesktopRegistry

CONSTANTS Compiled, Preferences, Sizes, Default, OutCap, MaxNotices, MaxInput

\* Clients whose best decoder is AV1 or VP9, and one that only has WebCodecs.
Capabilities == {[codecs |-> c, webcodecs |-> TRUE] : c \in {{"av1"}, {"vp9"}, {}}}

VARIABLES part, phase, neg, link, vid, aud, jpg, env

S == INSTANCE DesktopSession
sVars == <<phase, neg, link, vid, aud, jpg, env>>
all == <<part, vars, sVars>>

ASSUME SessionAssumption == S!SessionAssumption

DesktopInit ==
  /\ Init /\ S!Init
  /\ \/ part = "registry" /\ aud.on /\ neg.pref = "auto"
     \/ part = "session" /\ \A s, t \in Sessions : ses[s] = ses[t]

RegistryStep == part = "registry" /\ Next /\ UNCHANGED <<part, sVars>>
InSession(Step) == part = "session" /\ Step /\ UNCHANGED <<part, vars>>

\* The fairness is that of the session.
DesktopSpec ==
  /\ DesktopInit /\ [][RegistryStep \/ InSession(S!Next)]_all
  /\ WF_all(InSession(S!Internal)) /\ WF_all(InSession(S!AudioEnds /\ aud.stop))

Types == TypeOK /\ S!TypeOK
OrphanChannelClosed == S!OrphanChannelClosed
VideoDecides == S!VideoDecides
LeavesNothing == S!LeavesNothing
=============================================================================
