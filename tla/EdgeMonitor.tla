---------------------------- MODULE EdgeMonitor ----------------------------
(***************************************************************************)
(* The edge-health monitor (agent/src/edge_health_monitor.rs): one task that *)
(* follows the bus, probes the public URL on a timer that backs off, and asks *)
(* the supervisor for a new cloudflared after three consecutive failures.     *)
(*                                                                            *)
(* Time is counted in units of 30 s (INITIAL_INTERVAL); Tick lets one unit    *)
(* pass whatever the task is doing, so a slow task only makes the gaps longer.*)
(* A probe is two steps, because events keep arriving on the bus while it is  *)
(* awaited.                                                                   *)
(*                                                                            *)
(* Tunnel URLs are numbered in the order in which they are announced.  The    *)
(* health-probe task of main.rs answers each of them once, in that order,     *)
(* with Ready or Degraded; its answer may come after a newer announcement.    *)
(* Disconnect and shutdown are modelled in TunnelSupervisor.                  *)
(***************************************************************************)
EXTENDS Integers, Sequences

CONSTANTS MaxUrls,     \* bound on the URLs announced
          MaxFlips,    \* bound on changes of the edge's health
          BusCapacity  \* EVENT_BUS_CAPACITY

ASSUME EdgeAssumption ==
    MaxUrls \in Nat /\ MaxFlips \in Nat /\ BusCapacity \in Nat \ {0}

INITIAL_INTERVAL == 1
MAX_INTERVAL     == 4
FAIL_THRESHOLD   == 3
RESPAWN_THROTTLE == 2
\* The last respawn is longer ago than anything the monitor looks at.
Long == 8

Url  == 1..MaxUrls
NoUrl == 0
Event == [type : {"url", "ready", "degraded"}, url : Url]

VARIABLES
    rx,          \* undelivered events of the monitor's receiver
    url,         \* current_url
    engaged,     \* engaged
    recovering,  \* degraded_pending_recovery
    failures,    \* consecutive_failures
    since,       \* units since last_respawn_at, at most Long
    interval,    \* interval
    timer,       \* units left of the sleep in progress
    probing,     \* the URL of the probe being awaited
    \* the rest of the agent and the network
    announced,   \* URLs announced so far
    verdicts,    \* URLs the health-probe task has answered
    edge,        \* whether a probe through the edge gets an answer
    flips,
    \* history
    counted      \* the URLs of the failures counted

monVars == <<url, engaged, recovering, failures, since, interval, timer, probing>>
envVars == <<announced, verdicts, edge, flips>>
vars == <<rx, monVars, envVars, counted>>

TypeOK ==
    /\ rx \in Seq(Event) /\ Len(rx) <= BusCapacity
    /\ url \in Url \cup {NoUrl}
    /\ engaged \in BOOLEAN /\ recovering \in BOOLEAN
    /\ failures \in 0..(FAIL_THRESHOLD - 1)
    /\ since \in 0..Long
    /\ interval \in INITIAL_INTERVAL..MAX_INTERVAL
    /\ timer \in 0..MAX_INTERVAL
    /\ probing \in Url \cup {NoUrl}
    /\ announced \in 0..MaxUrls /\ verdicts \in 0..MaxUrls
    /\ edge \in {"up", "down"} /\ flips \in 0..MaxFlips
    /\ counted \in SUBSET Url

Init ==
    /\ rx = <<>>
    /\ url = NoUrl /\ engaged = FALSE /\ recovering = FALSE
    /\ failures = 0 /\ since = Long
    /\ interval = INITIAL_INTERVAL /\ timer = INITIAL_INTERVAL
    /\ probing = NoUrl
    /\ announced = 0 /\ verdicts = 0 /\ edge = "up" /\ flips = 0
    /\ counted = {}

-----------------------------------------------------------------------------
\* A full receiver loses its oldest event; the Lagged arm just continues.
Push(e) == Append(IF Len(rx) < BusCapacity THEN rx ELSE Tail(rx), e)

\* (faulty variant: the interval stays at 30 s)
NextBackoffConstant(i) == i

NextBackoff(i) == IF 2 * i > MAX_INTERVAL THEN MAX_INTERVAL ELSE 2 * i

-----------------------------------------------------------------------------
(* Environment. *)
Announce ==
    /\ announced < MaxUrls
    /\ announced' = announced + 1
    /\ rx' = Push([type |-> "url", url |-> announced + 1])
    /\ UNCHANGED <<monVars, verdicts, edge, flips, counted>>

Verdict(step) ==
    /\ verdicts < announced
    /\ verdicts' = verdicts + 1
    /\ rx' = Push([type |-> step, url |-> verdicts + 1])
    /\ UNCHANGED <<monVars, announced, edge, flips, counted>>

EdgeFlips ==
    /\ flips < MaxFlips
    /\ flips' = flips + 1
    /\ edge' = IF edge = "up" THEN "down" ELSE "up"
    /\ UNCHANGED <<rx, monVars, announced, verdicts, counted>>

Tick ==
    /\ timer' = IF timer > 0 THEN timer - 1 ELSE 0
    /\ since' = IF since < Long THEN since + 1 ELSE Long
    /\ UNCHANGED <<rx, url, engaged, recovering, failures, interval, probing,
                   envVars, counted>>

-----------------------------------------------------------------------------
(* The monitor's loop. *)

\* (faulty variant: the counter survives a change of URL)
RecvKeepsFailures ==
    /\ probing = NoUrl /\ rx # <<>>
    /\ rx' = Tail(rx)
    /\ LET e == Head(rx) IN
       IF e.type = "url"
       THEN /\ url' = e.url
            /\ engaged' = FALSE /\ recovering' = FALSE
            /\ UNCHANGED <<failures, interval, counted>>
       ELSE /\ engaged' = TRUE
            /\ recovering' = (e.type = "degraded")
            /\ UNCHANGED <<url, failures, interval, counted>>
    /\ UNCHANGED <<since, timer, probing, envVars>>

\* The bus arm.  The sleep in progress is not restarted.
Recv ==
    /\ probing = NoUrl /\ rx # <<>>
    /\ rx' = Tail(rx)
    /\ LET e == Head(rx) IN
       IF e.type = "url"
       THEN /\ url' = e.url
            /\ failures' = 0 /\ counted' = {}
            /\ interval' = INITIAL_INTERVAL
            /\ engaged' = FALSE /\ recovering' = FALSE
       ELSE /\ engaged' = TRUE
            /\ recovering' = (e.type = "degraded")
            /\ UNCHANGED <<url, failures, interval, counted>>
    /\ UNCHANGED <<since, timer, probing, envVars>>

\* The sleep arm with nothing to probe.
SleepAgain ==
    /\ probing = NoUrl /\ timer = 0
    /\ url = NoUrl \/ ~engaged
    /\ timer' = interval
    /\ UNCHANGED <<rx, url, engaged, recovering, failures, since, interval, probing,
                   envVars, counted>>

\* The sleep arm, run_probe up to its await.
StartProbe ==
    /\ probing = NoUrl /\ timer = 0
    /\ url # NoUrl /\ engaged
    /\ probing' = url
    /\ UNCHANGED <<rx, url, engaged, recovering, failures, since, interval, timer,
                   envVars, counted>>

\* (faulty variant: a recovery is not announced)
ProbeOkSilently ==
    /\ probing # NoUrl /\ edge = "up"
    /\ failures' = 0 /\ counted' = {}
    /\ interval' = INITIAL_INTERVAL /\ timer' = INITIAL_INTERVAL
    /\ probing' = NoUrl
    /\ UNCHANGED <<rx, url, engaged, recovering, since, envVars>>

\* run_probe: the edge answered.  After a Degraded the monitor announces
\* Ready itself, on the bus it listens to.
ProbeOk ==
    /\ probing # NoUrl /\ edge = "up"
    /\ rx' = IF recovering THEN Push([type |-> "ready", url |-> probing]) ELSE rx
    /\ recovering' = FALSE
    /\ failures' = 0 /\ counted' = {}
    /\ interval' = INITIAL_INTERVAL /\ timer' = INITIAL_INTERVAL
    /\ probing' = NoUrl
    /\ UNCHANGED <<url, engaged, since, envVars>>

\* (faulty variant: the threshold is compared with > instead of >=)
ProbeFailsOneMore ==
    /\ probing # NoUrl /\ edge = "down"
    /\ failures + 1 <= FAIL_THRESHOLD
    /\ failures' = failures + 1 /\ counted' = counted \cup {probing}
    /\ interval' = NextBackoff(interval) /\ timer' = interval'
    /\ probing' = NoUrl
    /\ UNCHANGED <<rx, url, engaged, recovering, since, envVars>>

\* run_probe: a failure below the threshold.
ProbeFails ==
    /\ probing # NoUrl /\ edge = "down"
    /\ failures + 1 < FAIL_THRESHOLD
    /\ failures' = failures + 1 /\ counted' = counted \cup {probing}
    /\ interval' = NextBackoff(interval) /\ timer' = interval'
    /\ probing' = NoUrl
    /\ UNCHANGED <<rx, url, engaged, recovering, since, envVars>>

\* (faulty variant: the third failure asks for nothing)
ThresholdSilently ==
    /\ probing # NoUrl /\ edge = "down"
    /\ failures + 1 >= FAIL_THRESHOLD
    /\ failures' = 0 /\ counted' = {}
    /\ interval' = INITIAL_INTERVAL /\ timer' = INITIAL_INTERVAL
    /\ probing' = NoUrl
    /\ UNCHANGED <<rx, url, engaged, recovering, since, envVars>>

\* run_probe: the third failure; force_respawn unless throttled.  EdgeUnhealthy
\* does not concern the monitor's own receiver.
Threshold ==
    /\ probing # NoUrl /\ edge = "down"
    /\ failures + 1 >= FAIL_THRESHOLD
    /\ since' = IF since < RESPAWN_THROTTLE THEN since ELSE 0
    /\ failures' = 0 /\ counted' = {}
    /\ interval' = INITIAL_INTERVAL /\ timer' = INITIAL_INTERVAL
    /\ probing' = NoUrl
    /\ UNCHANGED <<rx, url, engaged, recovering, envVars>>

MonitorStep == Recv \/ SleepAgain \/ StartProbe \/ ProbeOk \/ ProbeFails \/ Threshold

Next ==
    \/ MonitorStep
    \/ Announce \/ (\E step \in {"ready", "degraded"} : Verdict(step))
    \/ EdgeFlips \/ Tick

Spec == Init /\ [][Next]_vars

\* The task is polled, time passes, and the sleep arm is not starved by the bus.
Fairness ==
    /\ WF_vars(Recv) /\ WF_vars(SleepAgain \/ StartProbe)
    /\ WF_vars(ProbeOk \/ ProbeFails \/ Threshold)
    /\ WF_vars(Tick)

LiveSpec == Spec /\ Fairness

-----------------------------------------------------------------------------
(* Properties. *)

(* Two respawns asked for by the monitor are at least 210 s apart, because    *)
(* its three probes wait 30, 60 and 120 s: the 60 s throttle never has to     *)
(* suppress one, whatever the order of URL changes, verdicts and probes.      *)
RespawnsApart == [][Threshold => since >= 7]_vars

(* The failures added up to the threshold are failures of one and the same    *)
(* URL, the one the monitor would probe next.                                 *)
CountedFailuresShareUrl == counted \subseteq {url}

(* The argument for RespawnsApart: the interval doubles with each counted     *)
(* failure, and the probes up to the next respawn cannot come earlier.        *)
NotBefore(n) == since + timer >= n \/ since = Long

Spacing ==
    /\ probing # NoUrl => timer = 0
    /\ \/ failures = 0 /\ interval = 1 /\ NotBefore(1)
       \/ failures = 1 /\ interval = 2 /\ NotBefore(3)
       \/ failures = 2 /\ interval = 4 /\ NotBefore(7)

(* Whoever is shown Degraded is shown Ready once the edge stays up.           *)
DegradedRecovers == (<>[](edge = "up")) => []<>(~recovering)

(* An edge that stays down under an engaged monitor is never settled for: the *)
(* supervisor is asked for a new cloudflared again and again.                 *)
ZombieRespawned == (<>[](edge = "down" /\ engaged)) => []<>(since = 0)
=============================================================================
