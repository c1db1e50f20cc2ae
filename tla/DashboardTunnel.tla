-------------------------- MODULE DashboardTunnel --------------------------
(***************************************************************************)
(* What the terminal dashboard shows of the tunnel                         *)
(* (agent/src/tui/dashboard): the checklist of five steps, the URL, the    *)
(* "tunnel down" overlay and the QR code, folded from the events of the    *)
(* bus by State::apply, or from the bus's snapshot when the operator       *)
(* enters the dashboard late.                                              *)
(*                                                                         *)
(* The events come from the supervisor and the scraper of cloudflared's    *)
(* output (`tun`), and from the health prober, a task of its own, which    *)
(* may still be busy with the URL of a tunnel that has gone (`prober`).    *)
(***************************************************************************)
EXTENDS Integers, Sequences

CONSTANTS MaxLaunch,  \* bound on the URLs of cloudflared
          MaxProbes,  \* bound on the failing probes of one URL
          MaxBacklog  \* capacity of the bus: what a slow receiver keeps

DashboardAssumption == MaxLaunch \in Nat \ {0} /\ MaxProbes \in Nat /\ MaxBacklog \in Nat \ {0}

VARIABLES tun,      \* [phase, url, dead]: the tunnel, its URLs numbered as they come
          prober,   \* [url, probes, todo]: the URL probed (0: none), the URLs announced since
          tunSnap,  \* the bus's TunnelSnapshot
          evs,      \* the dashboard's receiver: events sent and not yet applied
          open,     \* whether the operator is in the dashboard
          shown,    \* the dashboard's State
          missed    \* ghost: "url" and "ready", overwritten unread and not heard again

tuvVars == <<tun, prober, tunSnap, evs, open, shown, missed>>

Preparing == 1
Connecting == 2
Tunneling == 3
Verifying == 4
Ready == 5
Rows == Preparing..Ready

NoStep == 0
Failed == 6
Degraded == 7

StepEv(n) == [type |-> "step", step |-> n, url |-> 0]
StepWithUrl(n, u) == [type |-> "step", step |-> n, url |-> u]
UrlEv(u) == [type |-> "url", step |-> 0, url |-> u]
ProbeEv(ok) == [type |-> IF ok THEN "probe_ok" ELSE "probe_failed", step |-> 0, url |-> 0]
DownEv == [type |-> "down", step |-> 0, url |-> 0]
OtherEv == [type |-> "other", step |-> 0, url |-> 0]

-----------------------------------------------------------------------------
\* State::new: every row pending, nothing known.
Fresh == [rows |-> [n \in Rows |-> "pending"], url |-> 0, down |-> FALSE]

\* State::cascade_done_through.
CascadeDone(s, n) ==
  [s EXCEPT !.rows = [i \in Rows |-> IF i <= n THEN "done" ELSE s.rows[i]]]

\* apply(TunnelStepChanged): earlier rows done, this one active, later ones
\* pending; Failed and Degraded only change a text.  A URL in the text is
\* taken when none is known.
ApplyStep(s, e) ==
  LET known == IF s.url = 0 THEN [s EXCEPT !.url = e.url] ELSE s
  IN IF e.step \in {Failed, Degraded} THEN known
     ELSE [known EXCEPT !.rows = [i \in Rows |->
            CASE i < e.step -> "done"
              [] i = e.step -> IF i = Ready THEN "done" ELSE "active"
              [] i > e.step -> "pending"]]

\* apply(TunnelUrlChanged): the rows up to Tunneling are done, Verifying is
\* active; Ready and the overlay stay as they are.
ApplyUrl(s, e) ==
  [CascadeDone(s, Tunneling) EXCEPT !.url = e.url, !.rows[Verifying] = "active"]

\* apply(HealthProbe).
ApplyProbe(s, ok) ==
  IF ok THEN CascadeDone(s, Ready)
  ELSE [CascadeDone(s, Tunneling) EXCEPT !.rows[Verifying] = "active"]

\* apply(TunnelDown).
ApplyDown(s) ==
  [s EXCEPT !.down = TRUE, !.rows[Tunneling] = "active",
            !.rows[Verifying] = "pending", !.rows[Ready] = "pending"]

Apply(s, e) ==
  CASE e.type = "step" -> ApplyStep(s, e)
    [] e.type = "url" -> ApplyUrl(s, e)
    [] e.type = "probe_ok" -> ApplyProbe(s, TRUE)
    [] e.type = "probe_failed" -> ApplyProbe(s, FALSE)
    [] e.type = "down" -> ApplyDown(s)
    [] e.type = "other" -> s

\* State::is_ready: the full dashboard with its QR code, or the checklist.
IsReady(s) == ~s.down /\ s.rows[Ready] = "done"

\* run_dashboard before its loop: the state folded from the bus's snapshot.
Hydrated(snap) ==
  LET s1 == IF snap.url = 0 THEN Fresh
            ELSE CascadeDone([Fresh EXCEPT !.url = snap.url], Tunneling)
      s2 == IF snap.step = StepEv(NoStep) THEN s1 ELSE ApplyStep(s1, snap.step)
  IN IF snap.down THEN ApplyDown(s2) ELSE s2

\* What of the two an event tells.
Told(e) == IF e.type = "url" THEN {"url"}
           ELSE IF e.type = "step" /\ e.step = Ready THEN {"ready"} ELSE {}

\* EventBus::send: the snapshot of the tunnel events, then the broadcast,
\* which never waits: the oldest event of a receiver that is MaxBacklog events
\* behind is overwritten, and its next try_recv is Lagged, then goes on behind.
Mirrored(snap, e) ==
  CASE e.type = "url" -> [snap EXCEPT !.url = e.url, !.down = FALSE]
    [] e.type = "step" -> [snap EXCEPT !.step = e]
    [] e.type = "down" -> [snap EXCEPT !.down = TRUE]
    [] OTHER -> snap

Send(e) ==
  LET lags == Len(evs) >= MaxBacklog
  IN /\ tunSnap' = Mirrored(tunSnap, e)
     /\ evs' = IF ~open THEN evs ELSE Append(IF lags THEN Tail(evs) ELSE evs, e)
     /\ missed' = IF open /\ lags THEN missed \cup Told(Head(evs)) ELSE missed

-----------------------------------------------------------------------------
TypeOK ==
  /\ tun \in [phase : {"idle", "preparing", "connecting", "issued", "tunneling", "up", "rotated"},
              url : 0..MaxLaunch, dead : BOOLEAN]
  /\ prober \in [url : 0..MaxLaunch, probes : 0..MaxProbes,
                 at : {"idle", "probing", "verdict"}, todo : Seq(1..MaxLaunch)]
  /\ open \in BOOLEAN /\ (~open => evs = <<>>) /\ missed \subseteq {"url", "ready"}
  /\ shown \in [rows : [Rows -> {"pending", "active", "done"}], url : 0..MaxLaunch, down : BOOLEAN]

Init ==
  /\ tun = [phase |-> "idle", url |-> 0, dead |-> FALSE]
  /\ prober = [url |-> 0, probes |-> 0, at |-> "idle", todo |-> <<>>]
  /\ tunSnap = [url |-> 0, step |-> StepEv(NoStep), down |-> FALSE]
  /\ evs = <<>> /\ open = FALSE /\ shown = Fresh /\ missed = {}

\* ensure_quick_tunnel: Preparing, Connecting once cloudflared is spawned, and
\* Connecting again, with the URL, when its banner is read.
Launching ==
  /\ \/ /\ tun.phase = "idle" /\ tun.url < MaxLaunch
        /\ tun' = [phase |-> "preparing", url |-> tun.url + 1, dead |-> FALSE]
        /\ Send(StepEv(Preparing))
     \/ /\ tun.phase = "preparing"
        /\ tun' = [tun EXCEPT !.phase = "connecting"]
        /\ Send(StepEv(Connecting))
     \/ /\ tun.phase = "connecting"
        /\ tun' = [tun EXCEPT !.phase = "issued"]
        /\ Send(StepWithUrl(Connecting, tun.url))
  /\ UNCHANGED <<prober, open, shown>>

\* It is registered: Tunneling ...
Tunnels ==
  /\ tun.phase = "issued"
  /\ tun' = [tun EXCEPT !.phase = "tunneling"]
  /\ Send(StepWithUrl(Tunneling, tun.url))
  /\ UNCHANGED <<prober, open, shown>>

\* ... and the supervisor announces the URL.
Announce ==
  /\ tun.phase = "tunneling"
  /\ tun' = [tun EXCEPT !.phase = "up"]
  /\ prober' = [prober EXCEPT !.todo = Append(@, tun.url)]
  /\ Send(UrlEv(tun.url))
  /\ UNCHANGED <<open, shown>>

\* cloudflared goes on with another URL: the scraper announces it ...
Rotate ==
  /\ tun.phase = "up" /\ tun.url < MaxLaunch
  /\ tun' = [tun EXCEPT !.phase = "rotated", !.url = @ + 1]
  /\ prober' = [prober EXCEPT !.todo = Append(@, tun.url + 1)]
  /\ Send(UrlEv(tun.url + 1))
  /\ UNCHANGED <<open, shown>>

\* ... and says Tunneling.
Rotated ==
  /\ tun.phase = "rotated"
  /\ tun' = [tun EXCEPT !.phase = "up"]
  /\ Send(StepWithUrl(Tunneling, tun.url))
  /\ UNCHANGED <<prober, open, shown>>

\* The launch fails before registration: TunnelStep::Failed.
LaunchFails ==
  /\ tun.phase \in {"connecting", "issued"}
  /\ tun' = [tun EXCEPT !.phase = "idle"]
  /\ Send(StepEv(Failed))
  /\ UNCHANGED <<prober, open, shown>>

\* cloudflared of a registered tunnel exits: TunnelDown, from its own task and
\* perhaps before the supervisor has announced the URL.
Dies ==
  /\ tun.phase \in {"tunneling", "up"} /\ ~tun.dead
  /\ tun' = [tun EXCEPT !.dead = TRUE]
  /\ Send(DownEv)
  /\ UNCHANGED <<prober, open, shown>>

\* The supervisor has received TunnelDown.
Respawn ==
  /\ tun.phase = "up" /\ tun.dead
  /\ tun' = [tun EXCEPT !.phase = "idle"]
  /\ UNCHANGED <<prober, tunSnap, evs, open, shown, missed>>

-----------------------------------------------------------------------------
\* The prober takes the next URL and announces Verifying.
BeginProbe ==
  /\ prober.at = "idle" /\ prober.todo # <<>>
  /\ prober' = [url |-> Head(prober.todo), probes |-> 0, at |-> "probing", todo |-> Tail(prober.todo)]
  /\ Send(StepEv(Verifying))
  /\ UNCHANGED <<tun, open, shown>>

\* run_health_check: a probe that fails and is repeated.
ProbeAgain ==
  /\ prober.at = "probing" /\ prober.probes < MaxProbes
  /\ prober' = [prober EXCEPT !.probes = @ + 1]
  /\ Send(ProbeEv(FALSE))
  /\ UNCHANGED <<tun, open, shown>>

\* run_health_check: the probe that is answered.
ProbeAnswered ==
  /\ prober.at = "probing"
  /\ prober' = [prober EXCEPT !.at = "verdict"]
  /\ Send(ProbeEv(TRUE))
  /\ UNCHANGED <<tun, open, shown>>

\* probe_outcome_to_step after an answer, or after a device connected first.
ReportReady ==
  /\ prober.at \in {"probing", "verdict"}
  /\ prober' = [prober EXCEPT !.url = 0, !.probes = 0, !.at = "idle"]
  /\ Send(StepWithUrl(Ready, prober.url))
  /\ UNCHANGED <<tun, open, shown>>

\* probe_outcome_to_step of a probe that failed for good.
ReportDegraded ==
  /\ prober.at = "probing"
  /\ prober' = [prober EXCEPT !.url = 0, !.probes = 0, !.at = "idle"]
  /\ Send(StepWithUrl(Degraded, prober.url))
  /\ UNCHANGED <<tun, open, shown>>

\* Every other event of the bus (a log line, a device that comes or goes): the
\* tunnel's panel ignores it, and it takes room in the receiver.
Chatter ==
  /\ open
  /\ Send(OtherEv)
  /\ UNCHANGED <<tun, prober, open, shown>>

-----------------------------------------------------------------------------
\* (faulty variant: the snapshot's step is not applied, as before the bus
\* kept a snapshot)
EnterUnhydrated ==
  /\ ~open
  /\ open' = TRUE /\ evs' = <<>> /\ missed' = {}
  /\ shown' = Hydrated([tunSnap EXCEPT !.step = StepEv(NoStep)])
  /\ UNCHANGED <<tun, prober, tunSnap>>

\* "Terminal UI" in the menu: subscribe, then hydrate from the snapshot.
Enter ==
  /\ ~open
  /\ open' = TRUE /\ evs' = <<>> /\ missed' = {}
  /\ shown' = Hydrated(tunSnap)
  /\ UNCHANGED <<tun, prober, tunSnap>>

\* The dashboard's loop drains one event.
Drain ==
  /\ open /\ evs # <<>>
  /\ shown' = Apply(shown, Head(evs))
  /\ evs' = Tail(evs) /\ missed' = missed \ Told(Head(evs))
  /\ UNCHANGED <<tun, prober, tunSnap, open>>

\* q, b or Esc: back to the menu; receiver and state are dropped.
Leave ==
  /\ open
  /\ open' = FALSE /\ evs' = <<>> /\ shown' = Fresh /\ missed' = {}
  /\ UNCHANGED <<tun, prober, tunSnap>>

Next ==
  \/ Launching \/ Tunnels \/ Announce \/ Rotate \/ Rotated
  \/ LaunchFails \/ Dies \/ Respawn
  \/ BeginProbe \/ ProbeAgain \/ ProbeAnswered \/ ReportReady \/ ReportDegraded
  \/ Chatter \/ Enter \/ Drain \/ Leave

-----------------------------------------------------------------------------
\* The prober has told Ready of the tunnel that is up, and nothing is under way.
Serving ==
  /\ tun.phase = "up" /\ ~tun.dead /\ prober.at = "idle" /\ prober.todo = <<>>
  /\ tunSnap.step = StepWithUrl(Ready, tun.url)

(* An operator who enters the dashboard, or who entered it before the first  *)
(* TunnelDown, sees a serving tunnel as ready, however much was sent before  *)
(* the dashboard subscribed (dashboard/mod.rs:61), and with its own URL: but *)
(* for what the bus overwrote while the dashboard was behind and has not     *)
(* told again, which nothing tells it a second time (mod.rs:84 takes the     *)
(* Lagged for an empty receiver).                                            *)
ServingIsShown ==
  open /\ evs = <<>> /\ Serving /\ ~shown.down =>
    /\ "ready" \in missed \/ IsReady(shown)
    /\ "url" \in missed \/ shown.url = tun.url
=============================================================================
