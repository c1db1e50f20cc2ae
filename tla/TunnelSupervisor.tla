-------------------------- MODULE TunnelSupervisor --------------------------
(***************************************************************************)
(* The supervision of cloudflared (agent/src/tunnel_supervisor.rs, tunnel.rs *)
(* and the callers of its notifications): the respawn loop, the task that     *)
(* waits on each child process, the side task that latches shutdown, the two  *)
(* monitors that may force a respawn (heartbeat, edge-health), the            *)
(* disconnect endpoint and the signal handler.                                *)
(*                                                                            *)
(* All of them meet on two tokio Notify objects.  tunnel_shutdown is modelled *)
(* with its queue of registered waiters: notify_one wakes the head (or stores *)
(* one permit when nobody waits), notify_waiters wakes everyone registered    *)
(* and stores nothing.  A task is registered from its first poll of a         *)
(* select! until it leaves the select!; each further turn of its loop         *)
(* registers it anew, at the tail.  force_respawn has a single waiter, the    *)
(* supervisor, so it is its permit.                                           *)
(*                                                                            *)
(* The supervisor's subscription to the bus is a bounded queue that drops its *)
(* oldest entry; only TunnelDown and TunnelDisconnected matter to it, every   *)
(* other event is "other" and may be sent at any time.                        *)
(***************************************************************************)
EXTENDS Integers, Sequences, FiniteSets

CONSTANTS Child,       \* identities for the launches of cloudflared
          Monitor,     \* the heartbeat and the edge-health monitor
          Sup, Side,   \* the supervisor loop and its side task
          None,        \* no child
          BusCapacity, \* EVENT_BUS_CAPACITY
          DegradedAt,  \* failures in the window that emit Degraded (10)
          MaxForce,    \* bound on force_respawn.notify_one calls
          MaxDisconnect, \* bound on disconnect requests
          MaxSignal,   \* whether a termination signal may arrive (0 or 1)
          MaxLimited,  \* bound on launches that meet the rate limit
          MaxNoise     \* bound on unrelated events

Task == Child \cup Monitor \cup {Sup, Side}

ASSUME TaskAssumption ==
    /\ Child \cap Monitor = {}
    /\ Sup \notin Child \cup Monitor
    /\ Side \notin Child \cup Monitor \cup {Sup}
    /\ None \notin Task
ASSUME BoundAssumption ==
    /\ BusCapacity \in Nat \ {0}
    /\ DegradedAt \in Nat /\ MaxForce \in Nat
    /\ MaxDisconnect \in Nat /\ MaxNoise \in Nat
    /\ MaxSignal \in Nat /\ MaxLimited \in Nat

VARIABLES
    \* tunnel_supervisor::run
    pc,          \* where the loop is
    cur,         \* the child being launched, until its failure is accounted for
    prev,        \* the child whose terminate handle is held (prev_terminate)
    attempt,     \* Backoff.attempt
    cumulative,  \* cumulative_failures_today
    delay,       \* seconds of the backoff sleep in progress
    rx,          \* undelivered bus events of the supervisor's receiver
    \* one cloudflared and its wait-task
    proc,        \* the process
    watch,       \* the wait-task
    term,        \* TerminateHandle: a stored permit
    limited,     \* ghost: its stderr showed the rate-limit signature
    \* shared notifications and flags
    flag,        \* shutdown_flag
    side,        \* the task that sets it
    mon,         \* the monitors' loops
    queue,       \* waiters registered on tunnel_shutdown, oldest first
    permit,      \* permit stored in tunnel_shutdown
    force,       \* permit stored in force_respawn
    rateLimited, \* AtomicBool shared with the stderr scraper
    \* bounds and history
    forced, disconnects, noise,   \* counters behind the Max* bounds
    causes,      \* ghost: failed launches, downs, disconnects and forces so far
    signalled,   \* ghost: SIGTERM was handled
    asked        \* ghost: children running when a disconnect was requested

supVars   == <<pc, cur, prev, attempt, cumulative, delay>>
childVars == <<proc, watch, term, limited>>
noteVars  == <<flag, side, mon, queue, permit>>
histVars  == <<forced, disconnects, noise, signalled, asked>>
vars == <<supVars, rx, childVars, noteVars, force, rateLimited, causes, histVars>>

RATE_LIMIT_BACKOFF == 600

Running(c) == proc[c] \in {"starting", "up"}
Launched   == {c \in Child : proc[c] # "none"}

-----------------------------------------------------------------------------
(* Type invariant. *)
PcValues    == {"top", "spawning", "wait", "failed", "respawn", "backoff",
                "stopping", "stopped"}
ProcValues  == {"none", "starting", "up", "exited", "gone"}
WatchValues == {"none", "watching", "killDisconnect", "killTerminate", "done"}
BusEvents   == {"down", "disconnected", "other"}
Delays      == {1, 2, 4, 8, 16, 32, 60, RATE_LIMIT_BACKOFF}

TypeOK ==
    /\ pc \in PcValues
    /\ cur \in Child \cup {None}
    /\ prev \in Child \cup {None}
    /\ attempt \in Nat
    /\ cumulative \in Nat
    /\ delay \in Delays \cup {0}
    /\ rx \in [q : Seq(BusEvents), lagged : BOOLEAN]
    /\ Len(rx.q) <= BusCapacity
    /\ proc \in [Child -> ProcValues]
    /\ watch \in [Child -> WatchValues]
    /\ term \in [Child -> BOOLEAN]
    /\ limited \in [Child -> BOOLEAN]
    /\ flag \in BOOLEAN
    /\ side \in {"select", "woken", "done"}
    /\ mon \in [Monitor -> {"select", "probing", "exited"}]
    /\ queue \in Seq(Task)
    /\ permit \in BOOLEAN
    /\ force \in BOOLEAN
    /\ rateLimited \in BOOLEAN
    /\ forced \in Nat /\ disconnects \in Nat /\ noise \in Nat /\ causes \in Nat
    /\ signalled \in BOOLEAN
    /\ asked \in SUBSET Child

Init ==
    /\ pc = "top" /\ cur = None /\ prev = None
    /\ attempt = 0 /\ cumulative = 0 /\ delay = 0
    /\ rx = [q |-> <<>>, lagged |-> FALSE]
    /\ proc = [c \in Child |-> "none"]
    /\ watch = [c \in Child |-> "none"]
    /\ term = [c \in Child |-> FALSE]
    /\ limited = [c \in Child |-> FALSE]
    /\ flag = FALSE /\ side = "select"
    /\ mon = [m \in Monitor |-> "select"]
    /\ queue = <<>> /\ permit = FALSE
    /\ force = FALSE /\ rateLimited = FALSE
    /\ forced = 0 /\ disconnects = 0 /\ noise = 0 /\ causes = 0
    /\ signalled = FALSE /\ asked = {}

-----------------------------------------------------------------------------
(* The bus, as the supervisor's receiver sees it. *)
\* (faulty variant: the ring grows instead of dropping its oldest entry)
PushUnbounded(e) == [rx EXCEPT !.q = Append(@, e)]

Push(e) ==
    IF Len(rx.q) < BusCapacity
    THEN [rx EXCEPT !.q = Append(@, e)]
    ELSE [q |-> Append(Tail(rx.q), e), lagged |-> TRUE]

(* Backoff. *)
BackoffLadder == <<1, 2, 4, 8, 16, 32, 60>>
NextDelay(a) == BackoffLadder[(IF a < 6 THEN a ELSE 6) + 1]
\* (faulty variant: the rate-limit flag is not consulted)
PickBackoffIgnoringLimit(short, wasLimited) == short

PickBackoff(short, wasLimited) == IF wasLimited THEN RATE_LIMIT_BACKOFF ELSE short

-----------------------------------------------------------------------------
(* tunnel_shutdown. *)
Registered(t) == \E i \in 1..Len(queue) : queue[i] = t

Leave(t) ==
    IF Registered(t)
    THEN LET i == CHOOSE j \in 1..Len(queue) : queue[j] = t
         IN  SubSeq(queue, 1, i-1) \o SubSeq(queue, i+1, Len(queue))
    ELSE queue

AtSelect(t) ==
    \/ t = Sup /\ pc \in {"wait", "backoff"}
    \/ t = Side /\ side = "select"
    \/ t \in Monitor /\ mon[t] = "select"
    \/ t \in Child /\ watch[t] = "watching"

\* The tasks of W that are at a select! take its shutdown arm.
TakeShutdownArm(W) ==
    LET woken(t) == t \in W /\ AtSelect(t)
    IN  /\ pc' = IF woken(Sup) THEN IF pc = "wait" THEN "stopping" ELSE "stopped"
                 ELSE pc
        /\ side' = IF woken(Side) THEN "woken" ELSE side
        /\ mon' = [m \in Monitor |-> IF woken(m) THEN "exited" ELSE mon[m]]
        /\ watch' = [c \in Child |-> IF woken(c) THEN "killDisconnect" ELSE watch[c]]

\* First poll of notified(): take a stored permit, or register at the tail.
Poll(t) ==
    /\ AtSelect(t)
    /\ ~Registered(t)
    /\ IF permit
       THEN permit' = FALSE /\ queue' = queue /\ TakeShutdownArm({t})
       ELSE permit' = FALSE /\ queue' = Append(queue, t) /\ TakeShutdownArm({})
    /\ UNCHANGED <<cur, prev, attempt, cumulative, delay, rx, proc, term, limited,
                   flag, force, rateLimited, causes, histVars>>

-----------------------------------------------------------------------------
(* tunnel_supervisor::run. *)

\* Loop head, shutdown already latched.
SupStopAtTop ==
    /\ pc = "top" /\ flag
    /\ pc' = "stopped"
    /\ UNCHANGED <<cur, prev, attempt, cumulative, delay, rx, childVars, noteVars,
                   force, rateLimited, causes, histVars>>

\* (faulty variant: the leak TerminateHandle was introduced for)
SupLaunchLeaking(c) ==
    /\ pc = "top" /\ ~flag
    /\ proc[c] = "none"
    /\ prev' = None
    /\ proc' = [proc EXCEPT ![c] = "starting"]
    /\ cur' = c
    /\ pc' = "spawning"
    /\ UNCHANGED <<attempt, cumulative, delay, rx, watch, term, limited, noteVars,
                   force, rateLimited, causes, histVars>>

\* The previous child's handle is fired, then cloudflared is started; nothing
\* waits for the previous child in between.
SupLaunch(c) ==
    /\ pc = "top" /\ ~flag
    /\ proc[c] = "none"
    /\ term' = IF prev = None THEN term ELSE [term EXCEPT ![prev] = TRUE]
    /\ prev' = None
    /\ proc' = [proc EXCEPT ![c] = "starting"]
    /\ cur' = c
    /\ pc' = "spawning"
    /\ UNCHANGED <<attempt, cumulative, delay, rx, watch, limited, noteVars,
                   force, rateLimited, causes, histVars>>

\* Command::spawn fails: no process (the attempt uses up an identity), the
\* 200 ms grace period follows.
SupLaunchFails(c) ==
    /\ pc = "top" /\ ~flag
    /\ proc[c] = "none"
    /\ proc' = [proc EXCEPT ![c] = "gone"]
    /\ term' = IF prev = None THEN term ELSE [term EXCEPT ![prev] = TRUE]
    /\ prev' = None
    /\ pc' = "failed"
    /\ causes' = causes + 1
    /\ UNCHANGED <<cur, attempt, cumulative, delay, rx, watch, limited,
                   noteVars, force, rateLimited, histVars>>

\* The registration line arrived: the wait-task is spawned and the handle kept.
SupRegistered ==
    /\ pc = "spawning" /\ proc[cur] = "starting"
    /\ proc' = [proc EXCEPT ![cur] = "up"]
    /\ watch' = [watch EXCEPT ![cur] = "watching"]
    /\ prev' = cur
    /\ cur' = None
    /\ pc' = "wait"
    /\ UNCHANGED <<attempt, cumulative, delay, rx, term, limited, noteVars,
                   force, rateLimited, causes, histVars>>

\* No registration: the child exited, or is killed and reaped after 60 s or
\* for registering without a URL.
SupNotRegistered ==
    /\ pc = "spawning" /\ proc[cur] \in {"starting", "exited"}
    /\ proc' = [proc EXCEPT ![cur] = "gone"]
    /\ pc' = "failed"
    /\ causes' = causes + 1
    /\ UNCHANGED <<cur, prev, attempt, cumulative, delay, rx, watch, term, limited,
                   noteVars, force, rateLimited, histVars>>

\* (faulty variants of the bus arm: any event counts as a lost tunnel; a
\* disconnected tunnel does not)
SupRecvAnything ==
    /\ pc = "wait"
    /\ ~rx.lagged /\ rx.q # <<>>
    /\ rx' = [rx EXCEPT !.q = Tail(@)]
    /\ pc' = "respawn"
    /\ queue' = Leave(Sup)
    /\ UNCHANGED <<cur, prev, attempt, cumulative, delay, childVars, flag, side, mon,
                   permit, force, rateLimited, causes, histVars>>
SupRecvDownOnly ==
    /\ pc = "wait"
    /\ ~rx.lagged /\ rx.q # <<>>
    /\ rx' = [rx EXCEPT !.q = Tail(@)]
    /\ pc' = IF Head(rx.q) = "down" THEN "respawn" ELSE "wait"
    /\ queue' = Leave(Sup)
    /\ UNCHANGED <<cur, prev, attempt, cumulative, delay, childVars, flag, side, mon,
                   permit, force, rateLimited, causes, histVars>>

\* wait_for_tunnel_down_or_shutdown, the bus arm.
SupRecv ==
    /\ pc = "wait"
    /\ ~rx.lagged /\ rx.q # <<>>
    /\ rx' = [rx EXCEPT !.q = Tail(@)]
    /\ pc' = IF Head(rx.q) = "other" THEN "wait" ELSE "respawn"
    /\ queue' = Leave(Sup)
    /\ UNCHANGED <<cur, prev, attempt, cumulative, delay, childVars, flag, side, mon,
                   permit, force, rateLimited, causes, histVars>>

\* ... RecvError::Lagged: keep waiting.
SupRecvLagged ==
    /\ pc = "wait"
    /\ rx.lagged
    /\ rx' = [rx EXCEPT !.lagged = FALSE]
    /\ queue' = Leave(Sup)
    /\ UNCHANGED <<supVars, childVars, flag, side, mon, permit, force, rateLimited,
                   causes, histVars>>

\* ... the force_respawn arm.
SupForced ==
    /\ pc = "wait"
    /\ force
    /\ force' = FALSE
    /\ pc' = "respawn"
    /\ queue' = Leave(Sup)
    /\ UNCHANGED <<cur, prev, attempt, cumulative, delay, rx, childVars, flag, side,
                   mon, permit, rateLimited, causes, histVars>>

\* (faulty variant: trust the shutdown notification to have reached the child)
SupStoppingTrusting ==
    /\ pc = "stopping"
    /\ prev' = None
    /\ pc' = "stopped"
    /\ UNCHANGED <<cur, attempt, cumulative, delay, rx, childVars, noteVars, force,
                   rateLimited, causes, histVars>>

\* Shutdown while waiting: terminate the live child explicitly and leave.
SupStopping ==
    /\ pc = "stopping"
    /\ term' = IF prev = None THEN term ELSE [term EXCEPT ![prev] = TRUE]
    /\ prev' = None
    /\ pc' = "stopped"
    /\ UNCHANGED <<cur, attempt, cumulative, delay, rx, proc, watch, limited,
                   noteVars, force, rateLimited, causes, histVars>>

\* After a failed launch or a lost tunnel, shutdown already latched.
SupStopBeforeBackoff ==
    /\ pc \in {"failed", "respawn"} /\ flag
    /\ pc' = "stopped"
    /\ UNCHANGED <<cur, prev, attempt, cumulative, delay, rx, childVars, noteVars,
                   force, rateLimited, causes, histVars>>

\* Account for the failure, read and clear the rate-limit flag, pick the delay.
\* stable: the tunnel had been up for 5 minutes (record_success); windowOver:
\* the 24 h window elapsed.
SupAccount(stable, windowOver) ==
    /\ pc \in {"failed", "respawn"} /\ ~flag
    /\ stable => pc = "respawn"
    /\ attempt' = IF stable THEN 1 ELSE attempt + 1
    /\ cumulative' = IF windowOver THEN 1 ELSE cumulative + 1
    /\ delay' = PickBackoff(NextDelay(attempt'), rateLimited)
    /\ rateLimited' = FALSE
    /\ rx' = IF cumulative' >= DegradedAt THEN Push("other") ELSE rx
    /\ pc' = "backoff"
    /\ cur' = None
    /\ UNCHANGED <<prev, childVars, noteVars, force, causes, histVars>>

\* The sleep elapses.
SupBackoffOver ==
    /\ pc = "backoff"
    /\ pc' = "top"
    /\ delay' = 0
    /\ queue' = Leave(Sup)
    /\ UNCHANGED <<cur, prev, attempt, cumulative, rx, childVars, flag, side, mon,
                   permit, force, rateLimited, causes, histVars>>

-----------------------------------------------------------------------------
(* cloudflared and the task that waits on it. *)

\* The process dies by itself.
ChildExit(c) ==
    /\ Running(c)
    /\ proc' = [proc EXCEPT ![c] = "exited"]
    /\ UNCHANGED <<supVars, rx, watch, term, limited, noteVars, force, rateLimited,
                   causes, histVars>>

\* process_cloudflared_stderr sees HTTP 429 / error 1015.  It reads for as long as
\* the process, or something it wrote, is there.
StderrRateLimit(c) ==
    /\ Running(c) \/ proc[c] = "exited"
    /\ Cardinality({d \in Child : limited[d]} \cup {c}) <= MaxLimited
    /\ rateLimited' = TRUE
    /\ limited' = [limited EXCEPT ![c] = TRUE]
    /\ UNCHANGED <<supVars, rx, proc, watch, term, noteVars, force, causes, histVars>>

\* wait-task: child.wait() returns.
WatchExit(c) ==
    /\ watch[c] = "watching" /\ proc[c] = "exited"
    /\ proc' = [proc EXCEPT ![c] = "gone"]
    /\ watch' = [watch EXCEPT ![c] = "done"]
    /\ rx' = Push("down")
    /\ causes' = causes + 1
    /\ queue' = Leave(c)
    /\ UNCHANGED <<supVars, term, limited, flag, side, mon, permit, force,
                   rateLimited, histVars>>

\* wait-task: the terminate handle fired.
WatchTerminated(c) ==
    /\ watch[c] = "watching" /\ term[c]
    /\ term' = [term EXCEPT ![c] = FALSE]
    /\ watch' = [watch EXCEPT ![c] = "killTerminate"]
    /\ queue' = Leave(c)
    /\ UNCHANGED <<supVars, rx, proc, limited, flag, side, mon, permit, force,
                   rateLimited, causes, histVars>>

\* wait-task: kill, reap, and for a shutdown tell the bus.
WatchKill(c) ==
    /\ watch[c] \in {"killDisconnect", "killTerminate"}
    /\ proc' = [proc EXCEPT ![c] = "gone"]
    /\ watch' = [watch EXCEPT ![c] = "done"]
    /\ IF watch[c] = "killDisconnect"
       THEN rx' = Push("disconnected") /\ causes' = causes + 1
       ELSE UNCHANGED <<rx, causes>>
    /\ UNCHANGED <<supVars, term, limited, noteVars, force, rateLimited, histVars>>

-----------------------------------------------------------------------------
(* The side task, the monitors, and the callers of tunnel_shutdown. *)

SideSetsFlag ==
    /\ side = "woken"
    /\ side' = "done"
    /\ flag' = TRUE
    /\ UNCHANGED <<supVars, rx, childVars, mon, queue, permit, force, rateLimited,
                   causes, histVars>>

\* A turn of a monitor's loop that asks for nothing: the next select!
\* registers it again, behind the others.
MonitorTurn(m) ==
    /\ mon[m] = "select" /\ Registered(m)
    /\ queue' = Append(Leave(m), m)
    /\ UNCHANGED <<supVars, rx, childVars, flag, side, mon, permit, force, rateLimited,
                   causes, histVars>>

\* A turn that probes: the task is away from its select! until the answer.
MonitorProbe(m) ==
    /\ mon[m] = "select"
    /\ mon' = [mon EXCEPT ![m] = "probing"]
    /\ queue' = Leave(m)
    /\ UNCHANGED <<supVars, rx, childVars, flag, side, permit, force, rateLimited,
                   causes, histVars>>

MonitorProbed(m) ==
    /\ mon[m] = "probing"
    /\ mon' = [mon EXCEPT ![m] = "select"]
    /\ \/ UNCHANGED <<force, forced, causes>>
       \/ /\ forced < MaxForce
          /\ forced' = forced + 1
          /\ force' = TRUE
          /\ causes' = causes + 1
    /\ UNCHANGED <<supVars, rx, childVars, flag, side, queue, permit, rateLimited,
                   disconnects, noise, signalled, asked>>

\* POST /api/agent/tunnel/disconnect: tunnel_shutdown.notify_one().
Disconnect ==
    /\ disconnects < MaxDisconnect
    /\ disconnects' = disconnects + 1
    /\ asked' = asked \cup {c \in Child : Running(c)}
    /\ IF queue = <<>>
       THEN permit' = TRUE /\ UNCHANGED <<queue, pc, side, mon, watch>>
       ELSE /\ queue' = Tail(queue)
            /\ TakeShutdownArm({Head(queue)})
            /\ UNCHANGED permit
    /\ UNCHANGED <<cur, prev, attempt, cumulative, delay, rx, proc, term, limited,
                   flag, force, rateLimited, causes, forced, noise, signalled>>

\* shutdown_signal: tunnel_shutdown.notify_waiters().
Signal ==
    /\ MaxSignal > 0 /\ ~signalled
    /\ signalled' = TRUE
    /\ queue' = <<>>
    /\ TakeShutdownArm({queue[i] : i \in 1..Len(queue)})
    /\ UNCHANGED <<cur, prev, attempt, cumulative, delay, rx, proc, term, limited,
                   flag, permit, force, rateLimited, causes, forced, disconnects,
                   noise, asked>>

\* Any other event on the bus: log lines, tunnel steps, device events.
Noise ==
    /\ noise < MaxNoise
    /\ noise' = noise + 1
    /\ rx' = Push("other")
    /\ UNCHANGED <<supVars, childVars, noteVars, force, rateLimited, causes, forced,
                   disconnects, signalled, asked>>

-----------------------------------------------------------------------------
SupStep ==
    \/ SupStopAtTop \/ (\E c \in Child : SupLaunch(c) \/ SupLaunchFails(c))
    \/ SupRegistered \/ SupNotRegistered
    \/ SupRecv \/ SupRecvLagged \/ SupForced \/ SupStopping
    \/ SupStopBeforeBackoff
    \/ (\E stable, windowOver \in BOOLEAN : SupAccount(stable, windowOver))
    \/ SupBackoffOver

WatchStep(c) == WatchExit(c) \/ WatchTerminated(c) \/ WatchKill(c)

Next ==
    \/ SupStep
    \/ \E t \in Task : Poll(t)
    \/ \E c \in Child : WatchStep(c) \/ ChildExit(c) \/ StderrRateLimit(c)
    \/ SideSetsFlag
    \/ \E m \in Monitor : MonitorTurn(m) \/ MonitorProbe(m) \/ MonitorProbed(m)
    \/ Disconnect \/ Signal \/ Noise

Spec == Init /\ [][Next]_vars

\* The runtime polls every task that can make progress; sleeps and the 60 s
\* registration timeout elapse.  Nothing makes cloudflared die, a monitor
\* ask for a respawn, or anyone disconnect.
Fairness ==
    /\ WF_vars(SupStep)
    /\ WF_vars(SideSetsFlag)
    /\ \A t \in Task : WF_vars(Poll(t))
    /\ \A c \in Child : WF_vars(WatchStep(c))
    /\ \A m \in Monitor : WF_vars(MonitorProbed(m))

LiveSpec == Spec /\ Fairness

-----------------------------------------------------------------------------
(* Properties. *)

\* Told to die, and on the way.
Dying(c) == term[c] \/ watch[c] \in {"killDisconnect", "killTerminate"}

(* Every cloudflared that runs is the one being launched, the one whose      *)
(* terminate handle the supervisor holds, or one already told to die: a      *)
(* force_respawn never forgets a live child (the leak TerminateHandle was     *)
(* introduced for).                                                           *)
NoForgottenChild ==
    \A c \in Child : Running(c) => c = cur \/ c = prev \/ Dying(c)

(* Respawns are paid for: every launch after the first answers one failed     *)
(* launch, TunnelDown, TunnelDisconnected or force_respawn of its own.        *)
RespawnsAccounted ==
    Cardinality(Launched) <= 1 + causes

(* A failed launch whose stderr showed the rate-limit signature is followed   *)
(* by the 10-minute cool-down, never by the exponential backoff.              *)
RateLimitHonoured ==
    [][\A c \in Child :
          pc = "failed" /\ c = cur /\ limited[c] /\ pc' = "backoff"
              => delay' = RATE_LIMIT_BACKOFF]_vars

(* A superseded or disconnected child is eventually killed and reaped, so     *)
(* that in the long run one cloudflared is alive.                             *)
SupersededDies ==
    \A c \in Child :
        (proc[c] \in {"up", "exited"} /\ c # prev /\ pc # "stopped") ~> proc[c] = "gone"

(* A tunnel that dies under a waiting supervisor is relaunched, unless the    *)
(* supervisor was shut down.                                                  *)
TunnelRecovers ==
    (pc = "wait" /\ prev \in Child /\ proc[prev] = "exited")
        ~> (pc \in {"spawning", "stopped"} \/ Launched = Child)

(* A shutdown that reaches the waiting supervisor makes every running child   *)
(* be killed and reaped, whoever else the notification woke.                  *)
StopWhileWaitingReaps ==
    \A c \in Child : (pc = "stopping" /\ Running(c)) ~> ~Running(c)

(* The disconnect endpoint makes cloudflared go away. *)
DisconnectTearsDown ==
    \A c \in Child : c \in asked ~> ~Running(c)
=============================================================================
