------------------------------- MODULE MCHost -------------------------------
(***************************************************************************)
(* The edge-health monitor and the agent's other small services, checked in *)
(* one run: the event bus, the processes that compete for the port, the     *)
(* dashboard's keys, the health probe, the notifier and what watches the    *)
(* terminal sessions.  The parts share no state: a behaviour is one of      *)
(* them, as `part` says, and the others stay where they started.            *)
(***************************************************************************)
EXTENDS EdgeMonitor, FiniteSets

CONSTANTS Senders, Subscribers, Urls, Other, NoBusUrl, Capacity, MaxLog, \* EventBus
          Process, Free, MaxFile,                                        \* AgentProcess
          Device,                                    \* DashboardKeys and Notifier
          MaxKey, MaxRecent,                                             \* DashboardKeys
          MaxUrl, ProbeCap,                                              \* HealthProbe
          Sub, Window, MaxTime, MaxEvent, BusSize,                       \* Notifier
          Watched, Lit, MaxOutput, MaxAgent, MaxMiss                     \* SessionWatch

VARIABLES part,
          snapUrl, log, sending, cursor, hydrated, view, missed,
          step, mode, fd, locked, path, files, port, termed, raced,
          key, unsent, inbox, stale, shownKey, status, recent, posts, ui,
          at, elapsed, pinned, lastSeen, nxOnly, unread, behind, announcements,
          waiting, lag, sent, clock, last, subs, task, shownAt, hushed, tried,
          ses, light, det, row, chunks, agents, misses

busVars   == <<snapUrl, log, sending, cursor, hydrated, view, missed>>
procVars  == <<step, mode, fd, locked, path, files, port, termed, raced>>
keysVars  == <<key, unsent, inbox, stale, shownKey, status, recent, posts, ui>>
probeVars == <<at, elapsed, pinned, lastSeen, nxOnly, unread, behind, announcements>>
toastVars == <<waiting, lag, sent, clock, last, subs, task, shownAt, hushed, tried>>
watchVars == <<ses, light, det, row, chunks, agents, misses>>
all == <<part, vars, busVars, procVars, keysVars, probeVars, toastVars, watchVars>>

Bus    == INSTANCE EventBus WITH NoUrl <- NoBusUrl
Proc   == INSTANCE AgentProcess
Keys   == INSTANCE DashboardKeys
Probe  == INSTANCE HealthProbe WITH announced <- announcements
Toasts == INSTANCE Notifier WITH inbox <- waiting
Watch  == INSTANCE SessionWatch

ASSUME BusAssumption      == Bus!BusAssumption
ASSUME ProcessAssumption  == Proc!ProcessAssumption
ASSUME KeysAssumption     == Keys!KeysAssumption
ASSUME ProbeAssumption    == Probe!ProbeAssumption
ASSUME NotifierAssumption == Toasts!NotifierAssumption
ASSUME WatchAssumption    == Watch!WatchAssumption

-----------------------------------------------------------------------------
HostInit ==
  /\ part \in {"edge", "bus", "proc", "keys", "probe", "toasts", "watch"}
  /\ Init /\ Bus!Init /\ Proc!Init /\ Keys!Init /\ Probe!Init /\ Toasts!Init
  /\ Watch!Init
  /\ part = "toasts" \/ subs = {}

InEdge(Step)   == part = "edge"   /\ Step /\ UNCHANGED <<part, busVars, procVars, keysVars, probeVars, toastVars, watchVars>>
InBus(Step)    == part = "bus"    /\ Step /\ UNCHANGED <<part, vars, procVars, keysVars, probeVars, toastVars, watchVars>>
InProc(Step)   == part = "proc"   /\ Step /\ UNCHANGED <<part, vars, busVars, keysVars, probeVars, toastVars, watchVars>>
InKeys(Step)   == part = "keys"   /\ Step /\ UNCHANGED <<part, vars, busVars, procVars, probeVars, toastVars, watchVars>>
InProbe(Step)  == part = "probe"  /\ Step /\ UNCHANGED <<part, vars, busVars, procVars, keysVars, toastVars, watchVars>>
InToasts(Step) == part = "toasts" /\ Step /\ UNCHANGED <<part, vars, busVars, procVars, keysVars, probeVars, watchVars>>
InWatch(Step)  == part = "watch"  /\ Step /\ UNCHANGED <<part, vars, busVars, procVars, keysVars, probeVars, toastVars>>

\* The fairness of each part is that of its tasks.  A behaviour has steps of
\* one part only, so one condition serves an action of each.
HostFairness ==
  /\ WF_all(\/ InEdge(Recv) \/ InKeys(Keys!Drain) \/ InProbe(Probe!Probing)
            \/ InToasts(Toasts!Working) \/ InWatch(\E w \in Watched : Watch!Detect(w)))
  /\ WF_all(\/ InEdge(SleepAgain \/ StartProbe) \/ InKeys(Keys!ApprovalTimesOut)
            \/ InWatch(\E w \in Lit : Watch!Dog(w)))
  /\ \A s \in Senders :
        WF_all(InEdge(ProbeOk \/ ProbeFails \/ Threshold) \/ InBus(Bus!Broadcast(s))
               \/ InWatch(\E w \in Lit : Watch!Running(w)))
  /\ \A r \in Subscribers : WF_all(InEdge(Tick) \/ InBus(Bus!Hydrate(r)))
  /\ \A r \in Subscribers : WF_all(InBus(Bus!Receive(r) \/ Bus!ReceiveLagged(r)))
  /\ \A p \in Process : WF_all(InProc(Proc!Runs(p)))

HostNext ==
  \/ InEdge(Next) \/ InBus(Bus!Next) \/ InProc(Proc!Next) \/ InKeys(Keys!Next)
  \/ InProbe(Probe!Next) \/ InToasts(Toasts!Next) \/ InWatch(Watch!Next)

HostSpec == HostInit /\ [][HostNext]_all /\ HostFairness

-----------------------------------------------------------------------------
PartTypes == Bus!TypeOK /\ Proc!TypeOK /\ Keys!TypeOK /\ Probe!TypeOK /\ Toasts!TypeOK
             /\ Watch!TypeOK

(* What a reader of the bus believes, and what the dashboard shows.          *)
ReadersInStep == Bus!LateSubscriberInStep /\ Keys!QrCarriesLiveKey /\ Keys!KeysGoToOnePlace

(* The services' own promises: one holder of the instance lock, failures     *)
(* counted for one URL, a verdict that the resolver's answers bear out and   *)
(* that comes in time, a toast that is only withheld where one was shown, a  *)
(* push to every subscription, and a light that can be turned off, with what *)
(* is said of an agent said of its own session.                              *)
ServicesKeepPromises ==
  /\ PartTypes
  /\ Proc!OneHolderUnlessRaced
  /\ CountedFailuresShareUrl
  /\ Probe!NxdomainIsSustained /\ Probe!ProbeEndsInTime
  /\ Toasts!HushedWasShown /\ Toasts!EverySubTried
  /\ Watch!LightCanGoOff /\ Watch!FoundIsOwn /\ Watch!RowIsAnnounced

(* The tunnel's edge: whoever is shown Degraded is shown Ready once the edge *)
(* stays up, and one that stays down is never settled for.                   *)
EdgeRecovers == DegradedRecovers /\ ZombieRespawned

(* Everything that waits is served: a subscriber catches up, an approval     *)
(* gives the screen back, an announced URL is judged, the notifier gets to   *)
(* the next event, whoever has killed the others leads to an agent, and the  *)
(* watch of the terminal sessions settles.                                   *)
(* A behaviour has steps of one part only, so the one leads-to is            *)
(* EventuallyDrained, TakeoverEnds, AnnouncedIsJudged, EventsAreTaken,       *)
(* SweeperServes and WatchSettles at once.                                   *)
Waits(r) ==
  \/ part = "bus"    /\ Bus!Subscribed(r)
  \/ part = "proc"   /\ Proc!Swept
  \/ part = "keys"   /\ ~Keys!Drained
  \/ part = "probe"  /\ Probe!UrlUnread
  \/ part = "toasts" /\ ~Toasts!CaughtUp
  \/ part = "watch"  /\ ~Watch!AllSettled
Served(r) ==
  \/ part = "bus"    /\ Bus!Drained(r)
  \/ part = "proc"   /\ Proc!ServedOrLeft
  \/ part = "keys"   /\ Keys!Drained
  \/ part = "probe"  /\ Probe!JudgedOrDead
  \/ part = "toasts" /\ Toasts!CaughtUp
  \/ part = "watch"  /\ Watch!AllSettled
WaitersAreServed == \A r \in Subscribers : Waits(r) ~> Served(r)
=============================================================================
