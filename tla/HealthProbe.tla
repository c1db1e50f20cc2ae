----------------------------- MODULE HealthProbe -----------------------------
(***************************************************************************)
(* The prober of a new tunnel URL: the task of agent/src/main.rs that takes*)
(* TunnelUrlChanged from the bus, and the loop of agent/src/health_check.rs*)
(* that resolves the host over HTTPS, asks the agent through the tunnel and*)
(* repeats within a window, raced against the first device that connects.  *)
(* Time is in seconds.                                                     *)
(***************************************************************************)
EXTENDS Integers, Sequences

CONSTANTS MaxUrl,  \* bound on the URLs announced
          ProbeCap \* events the bus keeps for the prober

ProbeAssumption == MaxUrl \in Nat \ {0} /\ ProbeCap \in Nat \ {0}

VARIABLES at,       \* waiting for an event, resolving, asking, pausing, judged or dead
          elapsed,  \* since the loop began
          pinned,   \* whether the client is built
          lastSeen, \* the last outcome
          nxOnly,   \* ghost: every answer of the resolver has been NXDOMAIN
          unread,   \* events of the bus the prober has not read
          behind,   \* whether some of them were overwritten
          announced \* URLs announced so far

probeVars == <<at, elapsed, pinned, lastSeen, nxOnly, unread, behind, announced>>

HEALTH_TIMEOUT == 8
PROBE_INTERVAL == 2
PER_ATTEMPT_TIMEOUT == 3
DOH_TIMEOUT == 3

\* doh_resolve: its client's timeout.
DohTakes == 0..DOH_TIMEOUT

Outcome == {"ok", "timeout", "nxdomain", "http_5xx", "http_4xx", "http_auth", "network"}

\* probe_once: how long an attempt may take to have this outcome.
AttemptTakes(o) == IF o = "timeout" THEN {PER_ATTEMPT_TIMEOUT} ELSE 0..PER_ATTEMPT_TIMEOUT

\* probe_outcome_to_step: what the dashboard is told.
Verdict(o) == IF o \in {"ok", "timeout", "http_4xx"} THEN "ready" ELSE "degraded"

-----------------------------------------------------------------------------
TypeOK ==
  /\ at \in {"waiting", "doh", "probe", "pause", "judged", "dead"}
  /\ elapsed \in Nat /\ pinned \in BOOLEAN /\ nxOnly \in BOOLEAN
  /\ lastSeen \in Outcome /\ unread \in Seq({"url", "other"}) /\ behind \in BOOLEAN
  /\ announced \in 0..MaxUrl

Init ==
  /\ at = "waiting" /\ elapsed = 0 /\ pinned = FALSE /\ lastSeen = "timeout" /\ nxOnly = FALSE
  /\ unread = <<>> /\ behind = FALSE /\ announced = 0

\* EventBus::send, to the prober's receiver: the oldest event is overwritten.
Arrive(e) ==
  /\ unread' = Append(IF Len(unread) = ProbeCap THEN Tail(unread) ELSE unread, e)
  /\ behind' = (behind \/ Len(unread) = ProbeCap)
  /\ UNCHANGED <<at, elapsed, pinned, lastSeen, nxOnly>>

AnnounceUrl ==
  /\ announced < MaxUrl
  /\ announced' = announced + 1
  /\ Arrive("url")

\* Log lines, probe results and everything else the bus carries.
OtherEvent == Arrive("other") /\ UNCHANGED announced

-----------------------------------------------------------------------------
\* recv: another event is skipped, a URL starts the loop.
Receive ==
  /\ at = "waiting" /\ unread # <<>> /\ ~behind
  /\ unread' = Tail(unread)
  /\ IF Head(unread) = "other"
     THEN UNCHANGED <<at, elapsed, pinned, lastSeen, nxOnly>>
     ELSE /\ at' = "doh" /\ elapsed' = 0 /\ pinned' = FALSE
          /\ lastSeen' = "timeout" /\ nxOnly' = TRUE
  /\ UNCHANGED <<behind, announced>>

\* recv returns Lagged: `while let Ok` ends the task.
ReceiveLagged ==
  /\ at = "waiting" /\ behind
  /\ at' = "dead"
  /\ UNCHANGED <<elapsed, pinned, lastSeen, nxOnly, unread, behind, announced>>

\* doh_resolve: an address, or no answer and the system's resolver.
Resolved ==
  /\ at = "doh"
  /\ \E t \in DohTakes : elapsed' = elapsed + t
  /\ pinned' = TRUE /\ nxOnly' = FALSE
  /\ at' = "probe"
  /\ UNCHANGED <<lastSeen, unread, behind, announced>>

\* (faulty variant: NXDOMAIN ends the loop)
NxdomainIsFinal ==
  /\ at = "doh"
  /\ \E t \in DohTakes : elapsed' = elapsed + t
  /\ lastSeen' = "nxdomain" /\ nxOnly' = FALSE
  /\ at' = "judged"
  /\ UNCHANGED <<pinned, unread, behind, announced>>

\* doh_resolve: the name does not exist, yet.
Nxdomain ==
  /\ at = "doh"
  /\ \E t \in DohTakes : elapsed' = elapsed + t
  /\ lastSeen' = "nxdomain"
  /\ at' = "pause"
  /\ UNCHANGED <<pinned, nxOnly, unread, behind, announced>>

\* probe_once: success and a server's error end the loop, anything else is
\* repeated.
Probed(o) ==
  /\ at = "probe" /\ o # "nxdomain"
  /\ \E t \in AttemptTakes(o) : elapsed' = elapsed + t
  /\ lastSeen' = o
  /\ at' = IF o \in {"ok", "http_5xx"} THEN "judged" ELSE "pause"
  /\ UNCHANGED <<pinned, nxOnly, unread, behind, announced>>

\* (faulty variant: the pause is over and the window is not looked at)
PauseOverEndless ==
  /\ at = "pause"
  /\ elapsed' = elapsed + PROBE_INTERVAL /\ elapsed < 30
  /\ at' = IF pinned THEN "probe" ELSE "doh"
  /\ UNCHANGED <<pinned, lastSeen, nxOnly, unread, behind, announced>>

PauseOver ==
  /\ at = "pause"
  /\ elapsed' = elapsed + PROBE_INTERVAL
  /\ at' = IF elapsed' < HEALTH_TIMEOUT THEN IF pinned THEN "probe" ELSE "doh" ELSE "judged"
  /\ UNCHANGED <<pinned, lastSeen, nxOnly, unread, behind, announced>>

\* A device got through first: that is as good as an answer.
ClientFirst ==
  /\ at \in {"doh", "probe", "pause"}
  /\ lastSeen' = "ok" /\ nxOnly' = FALSE
  /\ at' = "judged"
  /\ UNCHANGED <<elapsed, pinned, unread, behind, announced>>

\* The step of Verdict(lastSeen) is sent; the next event.
Report ==
  /\ at = "judged"
  /\ at' = "waiting" /\ elapsed' = 0
  /\ UNCHANGED <<pinned, lastSeen, nxOnly, unread, behind, announced>>

Probing ==
  \/ Receive \/ ReceiveLagged \/ Resolved \/ Nxdomain \/ (\E o \in Outcome : Probed(o))
  \/ PauseOver \/ Report

Next == AnnounceUrl \/ OtherEvent \/ Probing \/ ClientFirst

-----------------------------------------------------------------------------
(* The dashboard is told that the host is not registered only when every    *)
(* answer of the resolver within the window said so (health_check.rs:69:    *)
(* for a new tunnel it is transient), and the window was used up.           *)
NxdomainIsSustained ==
  at = "judged" /\ lastSeen = "nxdomain" => nxOnly /\ elapsed >= HEALTH_TIMEOUT

(* The verdict is given within the window and one attempt.                  *)
ProbeEndsInTime ==
  elapsed < HEALTH_TIMEOUT + DOH_TIMEOUT + PER_ATTEMPT_TIMEOUT + PROBE_INTERVAL

UrlUnread == \E i \in 1..Len(unread) : unread[i] = "url"
JudgedOrDead == at \in {"judged", "dead"}

(* A URL that was announced is judged, unless the prober fell behind and its*)
(* task is over: it does not get stuck with one URL.                        *)
AnnouncedIsJudged == UrlUnread ~> JudgedOrDead
=============================================================================
