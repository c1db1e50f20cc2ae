---------------------- MODULE TunnelSupervisor_proofs ----------------------
(***************************************************************************)
(* Proofs about TunnelSupervisor, for any sets of children and monitors and *)
(* any bounds: type correctness, that no running cloudflared is forgotten,  *)
(* that the rate-limit cool-down is honoured, and that every respawn has a  *)
(* cause of its own.                                                        *)
(***************************************************************************)
EXTENDS TunnelSupervisor, SequenceTheorems, FiniteSetTheorems, TLAPS

-----------------------------------------------------------------------------
(* The inductive invariant. *)

\* A child is being launched only in the launching phase; what cur still
\* names afterwards is a failed launch, dead.
CurOwner ==
    /\ pc = "spawning" => cur \in Child /\ prev = None
    /\ pc \in {"top", "wait", "respawn", "backoff", "stopping"} => cur = None
    /\ pc \in {"failed", "stopped"} =>
          \A c \in Child : c = cur => proc[c] = "gone"

\* The rate-limit flag stays set from the stderr line to the accounting.
LimitLatched ==
    /\ \A c \in Child : proc[c] = "none" => ~limited[c]
    /\ pc \in {"spawning", "failed"} =>
          \A c \in Child : c = cur /\ limited[c] => rateLimited

\* The part of the invariant beyond types.
Owned == CurOwner /\ LimitLatched /\ NoForgottenChild

-----------------------------------------------------------------------------
(* Lemmas about the queues. *)

\* A bus queue stays a queue of bus events within its capacity.
LEMMA PushType ==
    ASSUME rx \in [q : Seq(BusEvents), lagged : BOOLEAN],
           Len(rx.q) <= BusCapacity,
           NEW e \in BusEvents
    PROVE  /\ Push(e) \in [q : Seq(BusEvents), lagged : BOOLEAN]
           /\ Len(Push(e).q) <= BusCapacity
<1>0. BusCapacity \in Nat \ {0} BY BoundAssumption
<1>1. rx.q \in Seq(BusEvents) OBVIOUS
<1>2. CASE Len(rx.q) < BusCapacity
  <2>1. Append(rx.q, e) \in Seq(BusEvents) /\ Len(Append(rx.q, e)) = Len(rx.q) + 1
    BY <1>1, AppendProperties
  <2>2. Push(e) = [rx EXCEPT !.q = Append(rx.q, e)] BY <1>2 DEF Push
  <2>3. Push(e).q = Append(rx.q, e) BY <2>2
  <2> QED BY <1>0, <1>1, <1>2, <2>1, <2>2, <2>3, LenProperties
<1>3. CASE ~(Len(rx.q) < BusCapacity)
  <2>1. rx.q # <<>> BY <1>0, <1>1, <1>3, EmptySeq
  <2>2. Tail(rx.q) \in Seq(BusEvents) /\ Len(Tail(rx.q)) = Len(rx.q) - 1
    BY <1>1, <2>1, HeadTailProperties
  <2>3. /\ Append(Tail(rx.q), e) \in Seq(BusEvents)
        /\ Len(Append(Tail(rx.q), e)) = Len(Tail(rx.q)) + 1
    BY <2>2, AppendProperties
  <2>4. Push(e) = [q |-> Append(Tail(rx.q), e), lagged |-> TRUE] BY <1>3 DEF Push
  <2>5. Len(rx.q) \in Nat /\ Len(Tail(rx.q)) \in Nat BY <1>1, <2>2, LenProperties
  <2> QED BY <1>0, <2>2, <2>3, <2>4, <2>5
<1> QED BY <1>2, <1>3

\* Leaving the queue of waiters keeps it a queue of tasks.
LEMMA LeaveType ==
    ASSUME queue \in Seq(Task), NEW t \in Task
    PROVE  Leave(t) \in Seq(Task)
<1>1. CASE Registered(t)
  <2> DEFINE i == CHOOSE j \in 1..Len(queue) : queue[j] = t
  <2>1. i \in 1..Len(queue) BY <1>1 DEF Registered
  <2>2. Len(queue) \in Nat BY LenProperties
  <2>a. \A k \in 1..Len(queue) : queue[k] \in Task BY ElementOfSeq
  <2>b. i \in Int /\ i-1 \in Int /\ i+1 \in Int BY <2>1, <2>2
  <2> HIDE DEF i
  <2>c. (\A k \in 1..(i-1) : queue[k] \in Task)
        /\ (\A k \in (i+1)..Len(queue) : queue[k] \in Task)
    BY <2>1, <2>2, <2>a
  <2>3. SubSeq(queue, 1, i-1) \in Seq(Task)
    BY <2>b, <2>c, SubSeqProperties
  <2>4. SubSeq(queue, i+1, Len(queue)) \in Seq(Task)
    BY <2>2, <2>b, <2>c, SubSeqProperties
  <2>5. SubSeq(queue, 1, i-1) \o SubSeq(queue, i+1, Len(queue)) \in Seq(Task)
    BY <2>3, <2>4, ConcatProperties
  <2> QED BY <1>1, <2>5 DEF Leave, i
<1>2. CASE ~Registered(t) BY <1>2 DEF Leave
<1> QED BY <1>1, <1>2

\* What taking the shutdown arm does to the variables it touches.
LEMMA ShutdownArmType ==
    ASSUME TypeOK, NEW W, TakeShutdownArm(W)
    PROVE  /\ pc' \in PcValues
           /\ pc' = pc \/ (pc = "wait" /\ pc' = "stopping")
                       \/ (pc = "backoff" /\ pc' = "stopped")
           /\ side' \in {"select", "woken", "done"}
           /\ mon' \in [Monitor -> {"select", "probing", "exited"}]
           /\ watch' \in [Child -> WatchValues]
           /\ \A c \in Child : watch'[c] = watch[c]
                               \/ (watch[c] = "watching" /\ watch'[c] = "killDisconnect")
  BY TaskAssumption
     DEF TypeOK, TakeShutdownArm, AtSelect, PcValues, WatchValues, Task

-----------------------------------------------------------------------------
(* Type correctness. *)

LEMMA InitType == Init => TypeOK
<1> SUFFICES ASSUME Init PROVE TypeOK OBVIOUS
<1>1. <<>> \in Seq(BusEvents) /\ <<>> \in Seq(Task) /\ Len(<<>>) = 0
  BY EmptySeq
<1>2. /\ rx \in [q : Seq(BusEvents), lagged : BOOLEAN]
      /\ Len(rx.q) <= BusCapacity
  <2>1. rx = [q |-> <<>>, lagged |-> FALSE] BY DEF Init
  <2>2. rx.q = <<>> BY <2>1
  <2> QED BY <1>1, <2>1, <2>2, BoundAssumption
<1> QED BY <1>1, <1>2 DEF Init, TypeOK, PcValues, ProcValues, WatchValues

\* The supervisor's own steps.
LEMMA SupStepType ==
    ASSUME TypeOK, SupStep
    PROVE  TypeOK'
<1> USE DEF TypeOK, supVars, childVars, noteVars, histVars
<1>1. CASE SupStopAtTop BY <1>1 DEF SupStopAtTop, PcValues
<1>2. CASE \E c \in Child : SupLaunch(c)
  BY <1>2 DEF SupLaunch, PcValues, ProcValues
<1>3. CASE \E c \in Child : SupLaunchFails(c)
  BY <1>3 DEF SupLaunchFails, PcValues, ProcValues
<1>4. CASE SupRegistered
  BY <1>4 DEF SupRegistered, PcValues, ProcValues, WatchValues
<1>5. CASE SupNotRegistered
  <2>1. proc' \in [Child -> ProcValues] BY <1>5 DEF SupNotRegistered, ProcValues
  <2>2. causes' \in Nat /\ pc' \in PcValues BY <1>5 DEF SupNotRegistered, PcValues
  <2> QED BY <1>5, <2>1, <2>2 DEF SupNotRegistered
<1>6. CASE SupRecv
  <2>1. /\ Tail(rx.q) \in Seq(BusEvents)
        /\ Len(Tail(rx.q)) = Len(rx.q) - 1
    BY <1>6, HeadTailProperties DEF SupRecv
  <2>2. rx' = [rx EXCEPT !.q = Tail(rx.q)] BY <1>6 DEF SupRecv
  <2>3. Len(rx.q) \in Nat BY LenProperties
  <2>4. rx' \in [q : Seq(BusEvents), lagged : BOOLEAN] /\ Len(rx'.q) <= BusCapacity
    <3>1. rx \in [q : Seq(BusEvents), lagged : BOOLEAN] OBVIOUS
    <3>2. rx'.q = Tail(rx.q) /\ rx' \in [q : Seq(BusEvents), lagged : BOOLEAN]
      BY ONLY <2>1, <2>2, <3>1
    <3>3. Len(rx.q) <= BusCapacity OBVIOUS
    <3> QED BY ONLY <2>1, <2>3, <3>2, <3>3, BoundAssumption
  <2>5. queue' \in Seq(Task) BY <1>6, LeaveType DEF SupRecv, Task
  <2> QED BY <1>6, <2>4, <2>5 DEF SupRecv, PcValues
<1>7. CASE SupRecvLagged
  <2>1. queue' \in Seq(Task) BY <1>7, LeaveType DEF SupRecvLagged, Task
  <2> QED BY <1>7, <2>1 DEF SupRecvLagged
<1>8. CASE SupForced
  <2>1. queue' \in Seq(Task) BY <1>8, LeaveType DEF SupForced, Task
  <2> QED BY <1>8, <2>1 DEF SupForced, PcValues
<1>9. CASE SupStopping BY <1>9 DEF SupStopping, PcValues
<1>10. CASE SupStopBeforeBackoff BY <1>10 DEF SupStopBeforeBackoff, PcValues
<1>11. CASE \E stable, windowOver \in BOOLEAN : SupAccount(stable, windowOver)
  <2> SUFFICES ASSUME NEW stable \in BOOLEAN, NEW windowOver \in BOOLEAN,
                      SupAccount(stable, windowOver)
               PROVE  TypeOK'
    BY <1>11
  <2>1. attempt' \in Nat /\ cumulative' \in Nat BY DEF SupAccount
  <2>2. delay' \in Delays
    BY <2>1 DEF SupAccount, PickBackoff, NextDelay, BackoffLadder, Delays
  <2>3. rx' \in [q : Seq(BusEvents), lagged : BOOLEAN] /\ Len(rx'.q) <= BusCapacity
    BY PushType DEF SupAccount, BusEvents
  <2> QED BY <2>1, <2>2, <2>3 DEF SupAccount, PcValues
<1>12. CASE SupBackoffOver
  <2>1. queue' \in Seq(Task) BY <1>12, LeaveType DEF SupBackoffOver, Task
  <2> QED BY <1>12, <2>1 DEF SupBackoffOver, PcValues
<1> QED BY <1>1, <1>2, <1>3, <1>4, <1>5, <1>6, <1>7, <1>8, <1>9, <1>10, <1>11,
           <1>12 DEF SupStep

\* The steps of the wait-tasks and of cloudflared itself.
LEMMA ChildStepType ==
    ASSUME TypeOK, NEW c \in Child,
           WatchStep(c) \/ ChildExit(c) \/ StderrRateLimit(c)
    PROVE  TypeOK'
<1> USE DEF TypeOK, supVars, childVars, noteVars, histVars
<1>1. CASE WatchExit(c)
  <2>1. rx' \in [q : Seq(BusEvents), lagged : BOOLEAN] /\ Len(rx'.q) <= BusCapacity
    BY <1>1, PushType DEF WatchExit, BusEvents
  <2>2. queue' \in Seq(Task) BY <1>1, LeaveType DEF WatchExit, Task
  <2> QED BY <1>1, <2>1, <2>2 DEF WatchExit, ProcValues, WatchValues
<1>2. CASE WatchTerminated(c)
  <2>1. queue' \in Seq(Task) BY <1>2, LeaveType DEF WatchTerminated, Task
  <2> QED BY <1>2, <2>1 DEF WatchTerminated, WatchValues
<1>3. CASE WatchKill(c)
  <2>1. /\ rx' \in [q : Seq(BusEvents), lagged : BOOLEAN]
        /\ Len(rx'.q) <= BusCapacity
        /\ causes' \in Nat
    BY <1>3, PushType DEF WatchKill, BusEvents
  <2> QED BY <1>3, <2>1 DEF WatchKill, ProcValues, WatchValues
<1>4. CASE ChildExit(c) BY <1>4 DEF ChildExit, ProcValues
<1>5. CASE StderrRateLimit(c) BY <1>5 DEF StderrRateLimit
<1> QED BY <1>1, <1>2, <1>3, <1>4, <1>5 DEF WatchStep

\* Everyone else's steps.
LEMMA OtherStepType ==
    ASSUME TypeOK,
           \/ \E t \in Task : Poll(t)
           \/ SideSetsFlag
           \/ \E m \in Monitor : MonitorTurn(m) \/ MonitorProbe(m) \/ MonitorProbed(m)
           \/ Disconnect \/ Signal \/ Noise
    PROVE  TypeOK'
<1> USE DEF TypeOK, supVars, childVars, noteVars, histVars
<1>1. CASE \E t \in Task : Poll(t)
  <2> SUFFICES ASSUME NEW t \in Task, Poll(t) PROVE TypeOK' BY <1>1
  <2>a. queue \in Seq(Task) OBVIOUS
  <2>b. Append(queue, t) \in Seq(Task) BY <2>a, AppendProperties
  <2>1. queue' \in Seq(Task) BY <2>a, <2>b DEF Poll
  <2>2. permit' \in BOOLEAN /\ (TakeShutdownArm({t}) \/ TakeShutdownArm({}))
    BY DEF Poll
  <2> QED BY <2>1, <2>2, ShutdownArmType DEF Poll
<1>2. CASE SideSetsFlag BY <1>2 DEF SideSetsFlag
<1>3. CASE \E m \in Monitor : MonitorTurn(m)
  <2> SUFFICES ASSUME NEW m \in Monitor, MonitorTurn(m) PROVE TypeOK' BY <1>3
  <2>1. m \in Task BY DEF Task
  <2>2. queue' \in Seq(Task) BY <2>1, LeaveType, AppendProperties DEF MonitorTurn
  <2> QED BY <2>2 DEF MonitorTurn
<1>4. CASE \E m \in Monitor : MonitorProbe(m)
  <2> SUFFICES ASSUME NEW m \in Monitor, MonitorProbe(m) PROVE TypeOK' BY <1>4
  <2>1. queue' \in Seq(Task) BY LeaveType DEF MonitorProbe, Task
  <2> QED BY <2>1 DEF MonitorProbe
<1>5. CASE \E m \in Monitor : MonitorProbed(m)
  <2> SUFFICES ASSUME NEW m \in Monitor, MonitorProbed(m) PROVE TypeOK' BY <1>5
  <2>1. mon' \in [Monitor -> {"select", "probing", "exited"}] BY DEF MonitorProbed
  <2>2. force' \in BOOLEAN BY Zenon DEF MonitorProbed
  <2>3. forced' \in Nat /\ causes' \in Nat
    <3>1. CASE UNCHANGED <<force, forced, causes>> BY <3>1
    <3>2. CASE forced' = forced + 1 /\ causes' = causes + 1 BY <3>2
    <3> QED BY <3>1, <3>2 DEF MonitorProbed
  <2> QED BY <2>1, <2>2, <2>3 DEF MonitorProbed
<1>6. CASE Disconnect
  <2>1. CASE queue = <<>> BY <1>6, <2>1 DEF Disconnect
  <2>2. CASE queue # <<>>
    <3>1. TakeShutdownArm({Head(queue)}) BY <1>6, <2>2 DEF Disconnect
    <3>a. queue \in Seq(Task) OBVIOUS
    <3>b. Tail(queue) \in Seq(Task) BY <2>2, <3>a, HeadTailProperties
    <3>2. queue' \in Seq(Task) BY <1>6, <2>2, <3>b DEF Disconnect
    <3> QED BY <1>6, <2>2, <3>1, <3>2, ShutdownArmType DEF Disconnect
  <2> QED BY <2>1, <2>2
<1>7. CASE Signal
  <2>1. queue' \in Seq(Task) BY <1>7, EmptySeq DEF Signal
  <2>2. \E W : TakeShutdownArm(W) BY <1>7 DEF Signal
  <2> QED BY <1>7, <2>1, <2>2, ShutdownArmType DEF Signal
<1>8. CASE Noise
  <2>1. rx' \in [q : Seq(BusEvents), lagged : BOOLEAN] /\ Len(rx'.q) <= BusCapacity
    BY <1>8, PushType DEF Noise, BusEvents
  <2> QED BY <1>8, <2>1 DEF Noise
<1> QED BY <1>1, <1>2, <1>3, <1>4, <1>5, <1>6, <1>7, <1>8

LEMMA NextType == TypeOK /\ [Next]_vars => TypeOK'
<1> SUFFICES ASSUME TypeOK, [Next]_vars PROVE TypeOK' OBVIOUS
<1>1. CASE UNCHANGED vars
  BY <1>1 DEF TypeOK, vars, supVars, childVars, noteVars, histVars
<1> QED BY <1>1, SupStepType, ChildStepType, OtherStepType DEF Next

(* Every variable keeps its type, and the supervisor's receiver never holds  *)
(* more than the bus's capacity (events.rs: overflow drops the oldest).       *)
THEOREM TypeCorrect == Spec => []TypeOK
<1>1. Init => TypeOK BY InitType
<1>2. TypeOK /\ [Next]_vars => TypeOK' BY NextType
<1> QED BY <1>1, <1>2, PTL DEF Spec

-----------------------------------------------------------------------------
(* Nobody is forgotten, and the cool-down is honoured. *)

LEMMA InitOwned == Init => Owned
  BY TaskAssumption
     DEF Init, Owned, CurOwner, LimitLatched, NoForgottenChild, Running

LEMMA SupStepOwned ==
    ASSUME TypeOK, Owned, SupStep
    PROVE  Owned'
<1> USE TaskAssumption
    DEF Owned, CurOwner, LimitLatched, NoForgottenChild, Running, Dying,
        TypeOK, Task, supVars, childVars, noteVars, histVars
<1>1. CASE SupStopAtTop BY <1>1 DEF SupStopAtTop
<1>2. CASE \E c \in Child : SupLaunch(c)
  <2> SUFFICES ASSUME NEW c \in Child, SupLaunch(c) PROVE Owned' BY <1>2
  <2>1. CurOwner' BY DEF SupLaunch
  <2>2. LimitLatched' BY DEF SupLaunch
  <2>3. NoForgottenChild'
    \* what ran before was held, and is now told to die, or was dying
    <3> SUFFICES ASSUME NEW d \in Child, Running(d)'
                 PROVE  (d = cur \/ d = prev \/ Dying(d))'
      OBVIOUS
    <3>1. CASE d = c BY <3>1 DEF SupLaunch
    <3>2. CASE d # c
      <4>1. Running(d) BY <3>2 DEF SupLaunch
      <4>2. d = prev \/ Dying(d) BY <4>1 DEF SupLaunch
      <4> QED BY <4>2 DEF SupLaunch
    <3> QED BY <3>1, <3>2
  <2> QED BY <2>1, <2>2, <2>3
<1>3. CASE \E c \in Child : SupLaunchFails(c) BY <1>3 DEF SupLaunchFails
<1>4. CASE SupRegistered BY <1>4 DEF SupRegistered
<1>5. CASE SupNotRegistered BY <1>5 DEF SupNotRegistered
<1>6. CASE SupRecv BY <1>6 DEF SupRecv
<1>7. CASE SupRecvLagged BY <1>7 DEF SupRecvLagged
<1>8. CASE SupForced BY <1>8 DEF SupForced
<1>9. CASE SupStopping BY <1>9 DEF SupStopping
<1>10. CASE SupStopBeforeBackoff BY <1>10 DEF SupStopBeforeBackoff
<1>11. CASE \E stable, windowOver \in BOOLEAN : SupAccount(stable, windowOver)
  BY <1>11 DEF SupAccount
<1>12. CASE SupBackoffOver BY <1>12 DEF SupBackoffOver
<1> QED BY <1>1, <1>2, <1>3, <1>4, <1>5, <1>6, <1>7, <1>8, <1>9, <1>10, <1>11,
           <1>12 DEF SupStep

LEMMA ChildStepOwned ==
    ASSUME TypeOK, Owned, NEW c \in Child,
           WatchStep(c) \/ ChildExit(c) \/ StderrRateLimit(c)
    PROVE  Owned'
<1> USE TaskAssumption
    DEF Owned, CurOwner, LimitLatched, NoForgottenChild, Running, Dying,
        TypeOK, Task, supVars, childVars, noteVars, histVars
<1>1. CASE WatchExit(c) BY <1>1 DEF WatchExit
<1>2. CASE WatchTerminated(c) BY <1>2 DEF WatchTerminated
<1>3. CASE WatchKill(c) BY <1>3 DEF WatchKill
<1>4. CASE ChildExit(c) BY <1>4 DEF ChildExit
<1>5. CASE StderrRateLimit(c) BY <1>5 DEF StderrRateLimit
<1> QED BY <1>1, <1>2, <1>3, <1>4, <1>5 DEF WatchStep

\* Whoever takes the shutdown arm, ownership survives it: a child that takes
\* it is dying, and a supervisor that takes it was not launching.
LEMMA ShutdownArmOwned ==
    ASSUME TypeOK, Owned, NEW W, TakeShutdownArm(W),
           UNCHANGED <<cur, prev, proc, term, limited, rateLimited>>
    PROVE  Owned'
<1>1. /\ pc' = pc \/ (pc = "wait" /\ pc' = "stopping")
                  \/ (pc = "backoff" /\ pc' = "stopped")
      /\ \A c \in Child : watch'[c] = watch[c]
                          \/ (watch[c] = "watching" /\ watch'[c] = "killDisconnect")
  BY ShutdownArmType
<1>2. CurOwner' BY <1>1, TaskAssumption DEF Owned, CurOwner, Task
<1>3. LimitLatched' BY <1>1 DEF Owned, LimitLatched
<1>4. NoForgottenChild' BY <1>1 DEF Owned, NoForgottenChild, Running, Dying
<1> QED BY <1>2, <1>3, <1>4 DEF Owned

LEMMA OtherStepOwned ==
    ASSUME TypeOK, Owned,
           \/ \E t \in Task : Poll(t)
           \/ SideSetsFlag
           \/ \E m \in Monitor : MonitorTurn(m) \/ MonitorProbe(m) \/ MonitorProbed(m)
           \/ Disconnect \/ Signal \/ Noise
    PROVE  Owned'
<1> USE DEF Owned, CurOwner, LimitLatched, NoForgottenChild, Running, Dying,
            supVars, childVars, noteVars, histVars
<1>1. CASE \E t \in Task : Poll(t)
  <2> SUFFICES ASSUME NEW t \in Task, Poll(t) PROVE Owned' BY <1>1
  <2>1. TakeShutdownArm({t}) \/ TakeShutdownArm({}) BY DEF Poll
  <2>2. UNCHANGED <<cur, prev, proc, term, limited, rateLimited>> BY DEF Poll
  <2> QED BY <2>1, <2>2, ShutdownArmOwned
<1>2. CASE SideSetsFlag BY <1>2 DEF SideSetsFlag
<1>3. CASE \E m \in Monitor : MonitorTurn(m) BY <1>3 DEF MonitorTurn
<1>4. CASE \E m \in Monitor : MonitorProbe(m) BY <1>4 DEF MonitorProbe
<1>5. CASE \E m \in Monitor : MonitorProbed(m) BY <1>5 DEF MonitorProbed
<1>6. CASE Disconnect
  <2>1. CASE queue = <<>> BY <1>6, <2>1 DEF Disconnect
  <2>2. CASE queue # <<>>
    <3>1. TakeShutdownArm({Head(queue)}) BY <1>6, <2>2 DEF Disconnect
    <3>2. UNCHANGED <<cur, prev, proc, term, limited, rateLimited>>
      BY <1>6 DEF Disconnect
    <3> QED BY <3>1, <3>2, ShutdownArmOwned
  <2> QED BY <2>1, <2>2
<1>7. CASE Signal
  <2>1. \E W : TakeShutdownArm(W) BY <1>7 DEF Signal
  <2>2. UNCHANGED <<cur, prev, proc, term, limited, rateLimited>> BY <1>7 DEF Signal
  <2> QED BY <2>1, <2>2, ShutdownArmOwned
<1>8. CASE Noise BY <1>8 DEF Noise
<1> QED BY <1>1, <1>2, <1>3, <1>4, <1>5, <1>6, <1>7, <1>8

LEMMA NextOwned == TypeOK /\ Owned /\ [Next]_vars => Owned'
<1> SUFFICES ASSUME TypeOK, Owned, [Next]_vars PROVE Owned' OBVIOUS
<1>1. CASE UNCHANGED vars
  BY <1>1 DEF Owned, CurOwner, LimitLatched, NoForgottenChild, Running, Dying, vars,
              supVars, childVars, noteVars, histVars
<1> QED BY <1>1, SupStepOwned, ChildStepOwned, OtherStepOwned DEF Next

LEMMA Invariance == Spec => [](TypeOK /\ Owned)
<1>1. Init => TypeOK /\ Owned BY InitType, InitOwned
<1>2. TypeOK /\ Owned /\ [Next]_vars => (TypeOK /\ Owned)' BY NextType, NextOwned
<1> QED BY <1>1, <1>2, PTL DEF Spec

(* No running cloudflared is ever forgotten: each is being launched, held by *)
(* its terminate handle, or told to die (tunnel_supervisor.rs, prev_terminate *)
(* fired before every launch).                                                *)
THEOREM NothingForgotten == Spec => []NoForgottenChild
<1>1. TypeOK /\ Owned => NoForgottenChild BY DEF Owned
<1> QED BY <1>1, Invariance, PTL

(* The launch that met Cloudflare's rate limit is followed by the 10-minute   *)
(* cool-down: no interleaving loses the flag between the stderr scraper that  *)
(* sets it and the supervisor that reads and clears it.                       *)
THEOREM CoolDownHonoured == Spec => RateLimitHonoured
<1> DEFINE Honoured == \A c \in Child :
        pc = "failed" /\ c = cur /\ limited[c] /\ pc' = "backoff"
            => delay' = RATE_LIMIT_BACKOFF
<1>1. TypeOK /\ Owned /\ [Next]_vars => Honoured
  <2> SUFFICES ASSUME TypeOK, Owned, [Next]_vars, NEW c \in Child,
                      pc = "failed", c = cur, limited[c], pc' = "backoff"
               PROVE  delay' = RATE_LIMIT_BACKOFF
    OBVIOUS
  <2>1. rateLimited BY DEF Owned, LimitLatched
  <2>2. ~(\E W : TakeShutdownArm(W))
    BY ShutdownArmType
  <2>3. \E stable, windowOver \in BOOLEAN : SupAccount(stable, windowOver)
    <3> USE DEF supVars, childVars, noteVars, histVars
    <3>1. ~UNCHANGED vars BY DEF vars
    <3>2. CASE SupStep
      BY <3>2 DEF SupStep, SupStopAtTop, SupLaunch, SupLaunchFails, SupRegistered,
                  SupNotRegistered, SupRecv, SupRecvLagged, SupForced, SupStopping,
                  SupStopBeforeBackoff, SupBackoffOver
    <3>3. CASE \E d \in Child : WatchStep(d) \/ ChildExit(d) \/ StderrRateLimit(d)
      BY <3>3 DEF WatchStep, WatchExit, WatchTerminated, WatchKill, ChildExit,
                  StderrRateLimit
    <3>4. CASE \E t \in Task : Poll(t) BY <3>4, <2>2 DEF Poll
    <3>5. CASE \E m \in Monitor : MonitorTurn(m) \/ MonitorProbe(m) \/ MonitorProbed(m)
      BY <3>5 DEF MonitorTurn, MonitorProbe, MonitorProbed
    <3>6. CASE Disconnect BY <3>6, <2>2 DEF Disconnect
    <3>7. CASE Signal BY <3>7, <2>2 DEF Signal
    <3>8. CASE SideSetsFlag \/ Noise BY <3>8 DEF SideSetsFlag, Noise
    <3> QED BY <3>1, <3>2, <3>3, <3>4, <3>5, <3>6, <3>7, <3>8 DEF Next
  <2> QED BY <2>1, <2>3 DEF SupAccount, PickBackoff
<1>2. Spec => [][Honoured]_vars BY <1>1, Invariance, PTL DEF Spec
<1> QED BY <1>2 DEF RateLimitHonoured
-----------------------------------------------------------------------------
(* Every respawn has a cause of its own. *)

\* The events of a bus queue that make the supervisor respawn.
Calls(q) == {i \in 1..Len(q) : q[i] # "other"}

\* What may still make it launch: an event it has not received, a stored
\* force_respawn, and, where it has not been taken from the account yet, the
\* child that runs.
Unspent == Cardinality(Calls(rx.q)) + (IF force THEN 1 ELSE 0)
Credit  == IF pc \in {"spawning", "wait", "stopping", "stopped"} THEN 1 ELSE 0

Paid ==
    /\ IsFiniteSet(Launched)
    /\ \A c \in Child : watch[c] # "none" => proc[c] # "none"
    /\ Cardinality(Launched) + Unspent <= causes + Credit

LEMMA CallsFinite ==
    ASSUME NEW q \in Seq(BusEvents)
    PROVE  IsFiniteSet(Calls(q)) /\ Cardinality(Calls(q)) \in Nat
<1>1. Len(q) \in Nat /\ IsFiniteSet(1..Len(q))
    BY FS_Interval, LenProperties
<1>2. Calls(q) \in SUBSET (1..Len(q))
    BY DEF Calls
<1>3. IsFiniteSet(Calls(q))
    BY <1>1, <1>2, FS_Subset
<1>. QED BY <1>3, FS_CardinalityType

LEMMA CallsAppend ==
    ASSUME NEW q \in Seq(BusEvents), NEW e \in BusEvents
    PROVE  Cardinality(Calls(Append(q, e)))
              <= Cardinality(Calls(q)) + (IF e = "other" THEN 0 ELSE 1)
<1>1. /\ Append(q, e) \in Seq(BusEvents) /\ Len(Append(q, e)) = Len(q) + 1
      /\ \A i \in 1..Len(q) : Append(q, e)[i] = q[i]
      /\ Append(q, e)[Len(q) + 1] = e
      /\ Len(q) \in Nat
    BY AppendProperties, LenProperties
<1>2. IsFiniteSet(Calls(q)) /\ Cardinality(Calls(q)) \in Nat
    BY CallsFinite
<1>3. Cardinality(Calls(Append(q, e))) \in Nat
    BY <1>1, CallsFinite
<1>4. CASE e = "other"
  <2>1. Calls(Append(q, e)) \in SUBSET Calls(q)
      BY <1>1, <1>4 DEF Calls
  <2>2. Cardinality(Calls(Append(q, e))) <= Cardinality(Calls(q))
      BY <1>2, <2>1, FS_Subset
  <2>. QED BY <1>2, <1>3, <1>4, <2>2
<1>5. CASE e # "other"
  <2>1. Calls(Append(q, e)) \in SUBSET (Calls(q) \cup {Len(q) + 1})
      BY <1>1 DEF Calls
  <2>2. /\ IsFiniteSet(Calls(q) \cup {Len(q) + 1})
        /\ Cardinality(Calls(q) \cup {Len(q) + 1}) <= Cardinality(Calls(q)) + 1
        /\ Cardinality(Calls(q) \cup {Len(q) + 1}) \in Nat
    <3>1. /\ IsFiniteSet(Calls(q) \cup {Len(q) + 1})
          /\ Cardinality(Calls(q) \cup {Len(q) + 1}) =
                IF Len(q) + 1 \in Calls(q) THEN Cardinality(Calls(q)) ELSE Cardinality(Calls(q)) + 1
        BY <1>2, FS_AddElement
    <3>. QED BY <1>2, <3>1
  <2>3. Cardinality(Calls(Append(q, e))) <= Cardinality(Calls(q) \cup {Len(q) + 1})
      BY <2>1, <2>2, FS_Subset
  <2>. QED BY <1>2, <1>3, <1>5, <2>2, <2>3
<1>. QED BY <1>4, <1>5

LEMMA CallsTail ==
    ASSUME NEW q \in Seq(BusEvents), q # <<>>
    PROVE  Cardinality(Calls(Tail(q)))
              <= Cardinality(Calls(q)) - (IF Head(q) = "other" THEN 0 ELSE 1)
<1>1. /\ Tail(q) \in Seq(BusEvents) /\ Len(Tail(q)) = Len(q) - 1 /\ Head(q) = q[1]
      /\ \A i \in 1..Len(Tail(q)) : Tail(q)[i] = q[i + 1]
      /\ Len(q) \in Nat /\ Len(q) > 0
    OBVIOUS
<1>2. IsFiniteSet(Calls(q)) /\ Cardinality(Calls(q)) \in Nat
      /\ Cardinality(Calls(Tail(q))) \in Nat
    BY <1>1, CallsFinite
<1> DEFINE S == Calls(Tail(q))
           T == Calls(q) \ {1}
           f == [i \in S |-> i + 1]
<1>3. f \in Injection(S, T)
  <2>1. \A i \in S : i \in Nat /\ i + 1 \in T
      BY <1>1 DEF Calls
  <2>2. f \in [S -> T]
      BY <2>1
  <2>3. \A i, j \in S : f[i] = f[j] => i = j
      BY <2>1
  <2>. QED BY <2>2, <2>3 DEF Injection, IsInjective
<1>4. IsFiniteSet(T) /\ Cardinality(T) = IF 1 \in Calls(q) THEN Cardinality(Calls(q)) - 1
                                         ELSE Cardinality(Calls(q))
    BY <1>2, FS_RemoveElement
<1>5. Cardinality(S) <= Cardinality(T)
  <2> HIDE DEF f, S, T
  <2>. QED BY <1>3, <1>4, FS_Injection
<1>6. Head(q) # "other" => 1 \in Calls(q)
    BY <1>1 DEF Calls
<1>. QED BY <1>2, <1>4, <1>5, <1>6

\* A full receiver loses its oldest event: the calls in it never grow by more
\* than the one pushed.
LEMMA PushCalls ==
    ASSUME TypeOK, NEW e \in BusEvents
    PROVE  /\ Cardinality(Calls(Push(e).q)) \in Nat
           /\ Cardinality(Calls(Push(e).q))
                <= Cardinality(Calls(rx.q)) + (IF e = "other" THEN 0 ELSE 1)
<1>0. rx.q \in Seq(BusEvents) /\ Cardinality(Calls(rx.q)) \in Nat
    BY CallsFinite DEF TypeOK
<1>1. Push(e).q \in Seq(BusEvents)
    BY PushType DEF TypeOK
<1>2. Cardinality(Calls(Push(e).q)) \in Nat
    BY <1>1, CallsFinite
<1>3. CASE Len(rx.q) < BusCapacity
  <2>1. Push(e) = [rx EXCEPT !.q = Append(rx.q, e)]
      BY <1>3 DEF Push
  <2>2. Push(e).q = Append(rx.q, e)
      BY <2>1 DEF TypeOK
  <2>. QED BY <1>0, <1>2, <2>2, CallsAppend
<1>4. CASE ~(Len(rx.q) < BusCapacity)
  <2>1. Push(e).q = Append(Tail(rx.q), e)
      BY <1>4 DEF Push
  <2>2. rx.q # <<>>
      BY <1>0, <1>4, BoundAssumption, EmptySeq
  <2>3. Tail(rx.q) \in Seq(BusEvents)
      BY <1>0, <2>2, HeadTailProperties
  <2>4. /\ Cardinality(Calls(Tail(rx.q))) \in Nat
        /\ Cardinality(Calls(Tail(rx.q))) <= Cardinality(Calls(rx.q))
    <3>1. Cardinality(Calls(Tail(rx.q)))
            <= Cardinality(Calls(rx.q)) - (IF Head(rx.q) = "other" THEN 0 ELSE 1)
        BY <1>0, <2>2, CallsTail
    <3>2. Cardinality(Calls(Tail(rx.q))) \in Nat
        BY <2>3, CallsFinite
    <3>. QED BY <1>0, <3>1, <3>2
  <2>5. Cardinality(Calls(Append(Tail(rx.q), e)))
          <= Cardinality(Calls(Tail(rx.q))) + (IF e = "other" THEN 0 ELSE 1)
      BY <2>3, CallsAppend
  <2>. QED BY <1>0, <1>2, <2>1, <2>4, <2>5
<1>. QED BY <1>3, <1>4

LEMMA InitPaid == Init => Paid
<1> SUFFICES ASSUME Init PROVE Paid
    OBVIOUS
<1>1. Launched = {} /\ rx.q = <<>> /\ ~force /\ causes = 0 /\ pc = "top"
    BY DEF Init, Launched
<1>2. Calls(<<>>) = {}
    BY DEF Calls
<1>3. Unspent = 0 /\ Credit = 0
    BY <1>1, <1>2, FS_EmptySet DEF Unspent, Credit
<1>. QED BY <1>1, <1>3, FS_EmptySet DEF Paid, Init

\* A step that launches nothing, and pays for what it adds.
LEMMA PaidStays ==
    ASSUME TypeOK, Paid,
           \A c \in Child : proc[c] = "none" <=> proc'[c] = "none",
           \A c \in Child : watch'[c] # "none" => watch[c] # "none" \/ proc[c] # "none",
           Unspent' \in Int, causes' \in Int,
           Unspent' + causes + Credit <= Unspent + causes' + Credit'
    PROVE  Paid'
<1>1. Launched' = Launched
    BY DEF Launched
<1>2. Cardinality(Launched) \in Nat
    BY FS_CardinalityType DEF Paid
<1>3. Unspent \in Nat /\ causes \in Nat /\ Credit \in Nat /\ Credit' \in Nat
    BY CallsFinite DEF TypeOK, Unspent, Credit
<1>4. Cardinality(Launched) + Unspent <= causes + Credit
    BY DEF Paid
<1>5. /\ Unspent' + causes + Credit <= Unspent + causes' + Credit'
      /\ Unspent' \in Int /\ causes' \in Int
    OBVIOUS
<1>6. Cardinality(Launched) + Unspent' <= causes' + Credit'
  <2>1. PICK l, u, a, b \in Nat : l = Cardinality(Launched) /\ u = Unspent /\ a = causes /\ b = Credit
      BY <1>2, <1>3
  <2>2. PICK v, c, d \in Int : v = Unspent' /\ c = causes' /\ d = Credit'
      BY <1>3, <1>5
  <2>3. v + a + b <= u + c + d /\ l + u <= a + b
      BY <1>4, <1>5, <2>1, <2>2
  <2>4. l + v <= c + d
      BY ONLY <2>3, l \in Nat, u \in Nat, a \in Nat, b \in Nat, v \in Int, c \in Int, d \in Int
  <2>. QED BY <2>1, <2>2, <2>4
<1>. QED BY <1>1, <1>6 DEF Paid

\* Steps that leave the account alone; a supervisor that is shut down keeps
\* the child it had.
LEMMA PaidRests ==
    ASSUME TypeOK, Paid, UNCHANGED <<rx, force, causes>>,
           \/ pc' = pc
           \/ pc \in {"top", "failed", "respawn", "backoff"}
              /\ pc' \in {"top", "failed", "respawn", "backoff", "stopped"}
           \/ pc' \in {"spawning", "wait", "stopping", "stopped"},
           \A c \in Child : proc[c] = "none" <=> proc'[c] = "none",
           \A c \in Child : watch'[c] # "none" => watch[c] # "none" \/ proc[c] # "none"
    PROVE  Paid'
<1>1. Unspent' = Unspent /\ Unspent \in Nat /\ causes' = causes /\ causes \in Nat
    BY CallsFinite DEF Unspent, TypeOK
<1>2. PICK u, a \in Nat : u = Unspent /\ a = causes /\ u = Unspent' /\ a = causes'
    BY <1>1
<1>3. u + a + Credit <= u + a + Credit'
    BY DEF Credit
<1>. QED BY <1>1, <1>2, <1>3, PaidStays

\* One more event or stored force, and one more cause.
LEMMA PaidEvent ==
    ASSUME TypeOK, Paid, pc' = pc, NEW e \in BusEvents, rx' = Push(e), force' = force,
           causes' = causes + (IF e = "other" THEN 0 ELSE 1),
           \A c \in Child : proc[c] = "none" <=> proc'[c] = "none",
           \A c \in Child : watch'[c] # "none" => watch[c] # "none" \/ proc[c] # "none"
    PROVE  Paid'
<1>1. /\ Cardinality(Calls(rx'.q)) \in Nat
      /\ Cardinality(Calls(rx'.q)) <= Cardinality(Calls(rx.q)) + (IF e = "other" THEN 0 ELSE 1)
      /\ Cardinality(Calls(rx.q)) \in Nat /\ causes \in Nat
    BY PushCalls, CallsFinite DEF TypeOK
<1>2. /\ Unspent = Cardinality(Calls(rx.q)) + (IF force THEN 1 ELSE 0)
      /\ Unspent' = Cardinality(Calls(rx'.q)) + (IF force THEN 1 ELSE 0)
    BY DEF Unspent
<1>3. Credit' = Credit /\ Credit \in Nat
    BY DEF Credit
<1>4. Unspent' \in Int /\ causes' \in Int /\ Unspent' + causes + Credit <= Unspent + causes' + Credit'
    BY <1>1, <1>2, <1>3
<1>. QED BY <1>4, PaidStays

\* A launch, for which there was no child to account for.
LEMMA PaidLaunch ==
    ASSUME TypeOK, Paid, NEW c \in Child, SupLaunch(c) \/ SupLaunchFails(c)
    PROVE  Paid'
<1>1. /\ pc = "top" /\ proc[c] = "none" /\ UNCHANGED <<rx, force, watch>>
      /\ \/ pc' = "spawning" /\ causes' = causes
         \/ pc' = "failed" /\ causes' = causes + 1
    BY DEF SupLaunch, SupLaunchFails, noteVars
<1>2. /\ Launched' = Launched \cup {c}
      /\ \A d \in Child : proc[d] # "none" => proc'[d] # "none"
    BY DEF SupLaunch, SupLaunchFails, Launched, TypeOK
<1>3. /\ IsFiniteSet(Launched') /\ Cardinality(Launched') <= Cardinality(Launched) + 1
      /\ Cardinality(Launched) \in Nat /\ Cardinality(Launched') \in Nat
  <2>1. IsFiniteSet(Launched) /\ Cardinality(Launched) \in Nat
      BY FS_CardinalityType DEF Paid
  <2>2. /\ IsFiniteSet(Launched \cup {c})
        /\ Cardinality(Launched \cup {c}) =
             IF c \in Launched THEN Cardinality(Launched) ELSE Cardinality(Launched) + 1
      BY <2>1, FS_AddElement
  <2>. QED BY <1>2, <2>1, <2>2
<1>4. Unspent' = Unspent /\ Unspent \in Nat /\ causes \in Nat
    BY <1>1, CallsFinite DEF Unspent, TypeOK
<1>5. Credit = 0 /\ causes' + Credit' = causes + 1
    BY <1>1, <1>4 DEF Credit
<1>6. Cardinality(Launched) + Unspent <= causes + Credit
    BY DEF Paid
<1>7. Cardinality(Launched') + Unspent' <= causes' + Credit'
    BY <1>3, <1>4, <1>5, <1>6
<1>. QED BY <1>1, <1>2, <1>3, <1>7 DEF Paid

LEMMA SupStepPaid ==
    ASSUME TypeOK, Owned, Paid, SupStep
    PROVE  Paid'
<1> USE DEF supVars, childVars, noteVars, histVars
<1>1. CASE SupStopAtTop \/ SupStopBeforeBackoff \/ SupStopping \/ SupBackoffOver
    BY <1>1, PaidRests DEF SupStopAtTop, SupStopBeforeBackoff, SupStopping, SupBackoffOver
<1>2. CASE \E c \in Child : SupLaunch(c) \/ SupLaunchFails(c)
    BY <1>2, PaidLaunch
<1>3. CASE SupRegistered
  <2>1. cur \in Child /\ pc' = "wait"
      BY <1>3 DEF SupRegistered, Owned, CurOwner
  <2>2. \A c \in Child : proc[c] = "none" <=> proc'[c] = "none"
      BY <1>3, <2>1 DEF SupRegistered, TypeOK
  <2>3. \A c \in Child : watch'[c] # "none" => watch[c] # "none" \/ proc[c] # "none"
      BY <1>3, <2>1 DEF SupRegistered, TypeOK
  <2>. QED BY <1>3, <2>1, <2>2, <2>3, PaidRests DEF SupRegistered
<1>4. CASE SupNotRegistered
  <2>1. /\ cur \in Child /\ UNCHANGED <<rx, force, watch>>
        /\ pc = "spawning" /\ pc' = "failed" /\ causes' = causes + 1
      BY <1>4 DEF SupNotRegistered, Owned, CurOwner
  <2>2. \A c \in Child : proc[c] = "none" <=> proc'[c] = "none"
      BY <1>4, <2>1 DEF SupNotRegistered, TypeOK
  <2>3. Unspent' = Unspent /\ Unspent \in Nat /\ causes \in Nat
      BY <2>1, CallsFinite DEF Unspent, TypeOK
  <2>4. Credit = 1 /\ Credit' = 0
      BY <2>1 DEF Credit
  <2>5. Unspent' \in Int /\ causes' \in Int /\ Unspent' + causes + Credit <= Unspent + causes' + Credit'
      BY <2>1, <2>3, <2>4
  <2>. QED BY <2>1, <2>2, <2>5, PaidStays
<1>5. CASE SupRecv
  <2>1. /\ pc = "wait" /\ rx.q # <<>> /\ rx' = [rx EXCEPT !.q = Tail(rx.q)]
        /\ pc' = IF Head(rx.q) = "other" THEN "wait" ELSE "respawn"
        /\ UNCHANGED <<proc, watch, force, causes>>
      BY <1>5 DEF SupRecv
  <2>2. rx.q \in Seq(BusEvents) /\ rx'.q = Tail(rx.q) /\ Tail(rx.q) \in Seq(BusEvents)
      BY <2>1, HeadTailProperties DEF TypeOK
  <2>3. /\ Cardinality(Calls(rx'.q)) \in Nat /\ Cardinality(Calls(rx.q)) \in Nat
        /\ Cardinality(Calls(rx'.q))
             <= Cardinality(Calls(rx.q)) - (IF Head(rx.q) = "other" THEN 0 ELSE 1)
      BY <2>1, <2>2, CallsFinite, CallsTail
  <2>4. Credit = 1 /\ Credit' = (IF Head(rx.q) = "other" THEN 1 ELSE 0)
      BY <2>1 DEF Credit
  <2>5. /\ Unspent = Cardinality(Calls(rx.q)) + (IF force THEN 1 ELSE 0)
        /\ Unspent' = Cardinality(Calls(rx'.q)) + (IF force THEN 1 ELSE 0)
        /\ causes' = causes /\ causes \in Nat
      BY <2>1 DEF Unspent, TypeOK
  <2>6. Unspent' \in Int /\ causes' \in Int /\ Unspent' + causes + Credit <= Unspent + causes' + Credit'
      BY <2>3, <2>4, <2>5
  <2>. QED BY <2>1, <2>6, PaidStays
<1>6. CASE SupRecvLagged
  <2>1. /\ rx' = [rx EXCEPT !.lagged = FALSE]
        /\ UNCHANGED <<pc, proc, watch, force, causes>>
      BY <1>6 DEF SupRecvLagged
  <2>2. rx'.q = rx.q
      BY <2>1 DEF TypeOK
  <2>3. Unspent' = Unspent /\ Credit' = Credit /\ Unspent \in Nat /\ Credit \in Nat /\ causes \in Nat
      BY <2>1, <2>2, CallsFinite DEF Unspent, Credit, TypeOK
  <2>. QED BY <2>1, <2>3, PaidStays
<1>7. CASE SupForced
  <2>1. /\ pc = "wait" /\ pc' = "respawn" /\ force /\ ~force'
        /\ UNCHANGED <<rx, proc, watch, causes>>
      BY <1>7 DEF SupForced
  <2>2. Cardinality(Calls(rx.q)) \in Nat /\ causes \in Nat
      BY CallsFinite DEF TypeOK
  <2>3. /\ Unspent' \in Int
        /\ Unspent' + causes + Credit <= Unspent + causes' + Credit'
      BY <2>1, <2>2 DEF Unspent, Credit
  <2>. QED BY <2>1, <2>2, <2>3, PaidStays
<1>8. CASE \E stable, windowOver \in BOOLEAN : SupAccount(stable, windowOver)
  <2>1. /\ pc \in {"failed", "respawn"} /\ pc' = "backoff"
        /\ rx' = rx \/ rx' = Push("other")
        /\ UNCHANGED <<proc, watch, force, causes>>
      BY <1>8 DEF SupAccount
  <2>2. CASE rx' = rx
      BY <2>1, <2>2, PaidRests
  <2>3. CASE rx' = Push("other")
    <3>1. /\ Cardinality(Calls(rx'.q)) \in Nat /\ Cardinality(Calls(rx.q)) \in Nat
          /\ Cardinality(Calls(rx'.q)) <= Cardinality(Calls(rx.q))
      <4>1. "other" \in BusEvents
          BY DEF BusEvents
      <4>2. Cardinality(Calls(rx.q)) \in Nat
          BY CallsFinite DEF TypeOK
      <4>3. /\ Cardinality(Calls(rx'.q)) \in Nat
            /\ Cardinality(Calls(rx'.q)) <= Cardinality(Calls(rx.q)) + 0
          BY <2>3, <4>1, PushCalls
      <4>. QED BY <4>2, <4>3
    <3>2. /\ Unspent = Cardinality(Calls(rx.q)) + (IF force THEN 1 ELSE 0)
          /\ Unspent' = Cardinality(Calls(rx'.q)) + (IF force THEN 1 ELSE 0)
          /\ causes' = causes /\ causes \in Nat
          /\ Credit = 0 /\ Credit' = 0
        BY <2>1 DEF Unspent, Credit, TypeOK
    <3>3. /\ Unspent' \in Int /\ causes' \in Int
          /\ Unspent' + causes + Credit <= Unspent + causes' + Credit'
        BY <3>1, <3>2
    <3>. QED BY <2>1, <3>3, PaidStays
  <2>. QED BY <2>1, <2>2, <2>3
<1>. QED BY <1>1, <1>2, <1>3, <1>4, <1>5, <1>6, <1>7, <1>8 DEF SupStep

LEMMA ChildStepPaid ==
    ASSUME TypeOK, Paid, NEW c \in Child,
           WatchStep(c) \/ ChildExit(c) \/ StderrRateLimit(c)
    PROVE  Paid'
<1> USE DEF supVars, childVars, noteVars, histVars
<1>1. CASE WatchExit(c)
  <2>1. /\ rx' = Push("down") /\ causes' = causes + 1 /\ UNCHANGED <<pc, force>>
        /\ "down" \in BusEvents
      BY <1>1 DEF WatchExit, BusEvents
  <2>2. /\ \A d \in Child : proc[d] = "none" <=> proc'[d] = "none"
        /\ \A d \in Child : watch'[d] # "none" => watch[d] # "none"
      BY <1>1 DEF WatchExit, TypeOK
  <2>. QED BY <2>1, <2>2, PaidEvent
<1>2. CASE WatchTerminated(c)
  <2>1. \A d \in Child : watch'[d] # "none" => watch[d] # "none"
      BY <1>2 DEF WatchTerminated, TypeOK
  <2>. QED BY <1>2, <2>1, PaidRests DEF WatchTerminated
<1>3. CASE WatchKill(c)
  <2>1. /\ \A d \in Child : proc[d] = "none" <=> proc'[d] = "none"
        /\ \A d \in Child : watch'[d] # "none" => watch[d] # "none"
      BY <1>3 DEF WatchKill, TypeOK, Paid
  <2>2. CASE watch[c] = "killDisconnect"
    <3>1. /\ rx' = Push("disconnected") /\ causes' = causes + 1 /\ UNCHANGED <<pc, force>>
          /\ "disconnected" \in BusEvents
        BY <1>3, <2>2 DEF WatchKill, BusEvents
    <3>. QED BY <2>1, <3>1, PaidEvent
  <2>3. CASE watch[c] # "killDisconnect"
    <3>1. UNCHANGED <<rx, causes, pc, force>>
        BY <1>3, <2>3 DEF WatchKill
    <3>. QED BY <2>1, <3>1, PaidRests
  <2>. QED BY <2>2, <2>3
<1>4. CASE ChildExit(c)
  <2>1. \A d \in Child : proc[d] = "none" <=> proc'[d] = "none"
      BY <1>4 DEF ChildExit, TypeOK, Running
  <2>. QED BY <1>4, <2>1, PaidRests DEF ChildExit
<1>5. CASE StderrRateLimit(c)
    BY <1>5, PaidRests DEF StderrRateLimit
<1>. QED BY <1>1, <1>2, <1>3, <1>4, <1>5 DEF WatchStep

\* A shutdown arm leaves the account as it is, or grants what nobody spends.
LEMMA ShutdownArmPaid ==
    ASSUME TypeOK, Paid, NEW W, TakeShutdownArm(W), UNCHANGED <<rx, force, causes, proc>>
    PROVE  Paid'
<1>1. /\ pc' = pc \/ (pc = "wait" /\ pc' = "stopping") \/ (pc = "backoff" /\ pc' = "stopped")
      /\ \A c \in Child : watch'[c] # "none" => watch[c] # "none"
    BY ShutdownArmType
<1>. QED BY <1>1, PaidRests

LEMMA OtherStepPaid ==
    ASSUME TypeOK, Paid,
           \/ \E t \in Task : Poll(t)
           \/ SideSetsFlag
           \/ \E m \in Monitor : MonitorTurn(m) \/ MonitorProbe(m) \/ MonitorProbed(m)
           \/ Disconnect \/ Signal \/ Noise
    PROVE  Paid'
<1> USE DEF supVars, childVars, noteVars, histVars
<1>1. CASE \E t \in Task : Poll(t)
  <2>1. (\E W : TakeShutdownArm(W)) /\ UNCHANGED <<rx, force, causes, proc>>
      BY <1>1 DEF Poll
  <2>. QED BY <2>1, ShutdownArmPaid
<1>2. CASE SideSetsFlag \/ \E m \in Monitor : MonitorTurn(m) \/ MonitorProbe(m)
    BY <1>2, PaidRests DEF SideSetsFlag, MonitorTurn, MonitorProbe
<1>3. CASE \E m \in Monitor : MonitorProbed(m)
  <2>1. /\ UNCHANGED <<pc, rx, proc, watch>>
        /\ UNCHANGED <<force, causes>> \/ (force' = TRUE /\ causes' = causes + 1)
      BY <1>3 DEF MonitorProbed
  <2>2. CASE UNCHANGED <<force, causes>>
      BY <2>1, <2>2, PaidRests
  <2>3. CASE force' = TRUE /\ causes' = causes + 1
    <3>1. Cardinality(Calls(rx.q)) \in Nat /\ causes \in Nat
        BY CallsFinite DEF TypeOK
    <3>2. /\ Unspent' \in Int /\ causes' \in Int
          /\ Unspent' + causes + Credit <= Unspent + causes' + Credit'
        BY <2>1, <2>3, <3>1 DEF Unspent, Credit
    <3>. QED BY <2>1, <3>2, PaidStays
  <2>. QED BY <2>1, <2>2, <2>3
<1>4. CASE Disconnect
  <2>1. UNCHANGED <<rx, force, causes, proc>>
      BY <1>4 DEF Disconnect
  <2>2. CASE UNCHANGED <<pc, watch>>
      BY <2>1, <2>2, PaidRests
  <2>3. CASE TakeShutdownArm({Head(queue)})
      BY <2>1, <2>3, ShutdownArmPaid
  <2>. QED BY <1>4, <2>2, <2>3 DEF Disconnect
<1>5. CASE Signal
  <2>1. (\E W : TakeShutdownArm(W)) /\ UNCHANGED <<rx, force, causes, proc>>
      BY <1>5 DEF Signal
  <2>. QED BY <2>1, ShutdownArmPaid
<1>6. CASE Noise
  <2>1. /\ rx' = Push("other") /\ UNCHANGED <<pc, force, causes, proc, watch>>
        /\ "other" \in BusEvents /\ causes \in Nat /\ causes' = causes + 0
      BY <1>6 DEF Noise, BusEvents, TypeOK
  <2>. QED BY <2>1, PaidEvent
<1>. QED BY <1>1, <1>2, <1>3, <1>4, <1>5, <1>6

LEMMA NextPaid == TypeOK /\ Owned /\ Paid /\ [Next]_vars => Paid'
<1> SUFFICES ASSUME TypeOK, Owned, Paid, [Next]_vars PROVE Paid' OBVIOUS
<1>1. CASE UNCHANGED vars
  BY <1>1, PaidRests DEF vars, supVars, childVars
<1> QED BY <1>1, SupStepPaid, ChildStepPaid, OtherStepPaid DEF Next

(* Every launch after the first answers a failed launch, a TunnelDown, a     *)
(* TunnelDisconnected or a force_respawn that no other launch answers: what   *)
(* a full receiver drops costs a respawn, and never doubles one.              *)
THEOREM RespawnsPaid == Spec => []RespawnsAccounted
<1>1. TypeOK /\ Paid => RespawnsAccounted
  <2> SUFFICES ASSUME TypeOK, Paid PROVE RespawnsAccounted
      OBVIOUS
  <2>1. Cardinality(Launched) \in Nat /\ Unspent \in Nat /\ causes \in Nat /\ Credit <= 1 /\ Credit \in Nat
      BY FS_CardinalityType, CallsFinite DEF TypeOK, Paid, Unspent, Credit
  <2>2. Cardinality(Launched) + Unspent <= causes + Credit
      BY DEF Paid
  <2>. QED BY <2>1, <2>2 DEF RespawnsAccounted
<1>2. TypeOK /\ Owned /\ Paid /\ [Next]_vars => Paid'
    BY NextPaid
<1>. QED BY <1>1, <1>2, InitPaid, Invariance, PTL DEF Spec

=============================================================================
