---------------------------- MODULE DesktopRegistry ----------------------------
(***************************************************************************)
(* Which desktop session of a device is the registered one, and what each  *)
(* session takes from the host while it runs.  DesktopService keeps one    *)
(* entry per device with the close sender of its session; the WebSocket    *)
(* handler registers before the upgrade and removes by device after it.    *)
(* On macOS a session holds a stay-awake guard that zeroes the screen      *)
(* saver's idle time and writes back what it read.  What happens inside a  *)
(* session is the subject of DesktopSession.                               *)
(***************************************************************************)
EXTENDS Naturals

CONSTANTS Devices,     \* device identities
          Sessions,    \* connections, each used once
          None,        \* no session
          IdleTime     \* the screen saver's idle time as the user set it

ASSUME IdleAssumption == IdleTime \in Nat \ {0}
ASSUME NoneAssumption == None \notin Sessions

VARIABLES ses,     \* stage of each connection, its device, how its close receiver resolved
          reg,     \* entry per device: the session whose sender it holds, and whose
                   \* statistics are attached to it
          screen,  \* the idle time now, and what each guard read when it was acquired
          awake    \* what the last StayAwakeChanged event said

vars == <<ses, reg, screen, awake>>

Open == {"registered", "running", "guarded", "unguarded"}
Empty == [owner |-> None, stats |-> None]

Init ==
  /\ ses \in [Sessions -> [stage : {"new"}, dev : Devices, closed : {"no"}]]
  /\ reg = [d \in Devices |-> Empty]
  /\ screen = [now |-> IdleTime, read |-> [s \in Sessions |-> IdleTime]]
  /\ awake = FALSE

\* What the old session's receiver is told: it resolves once, on a message or on
\* the drop of its sender.
Told(t, how) == [ses[t] EXCEPT !.closed = IF @ = "no" THEN how ELSE @]

\* Session s moves to a stage, and the session of its device's entry is told.
Replaces(s, to, how) ==
  ses' = [t \in Sessions |-> IF t = s THEN [ses[t] EXCEPT !.stage = to]
                             ELSE IF t = reg[ses[s].dev].owner THEN Told(t, how)
                             ELSE ses[t]]

\* Faulty variant: an entry another registration made is left as it is.
InsertIfAbsent(s) ==
  LET d == ses[s].dev IN
  /\ ses[s].stage = "inserting"
  /\ ses' = [ses EXCEPT ![s].stage = "registered"]
  /\ reg' = IF reg[d].owner # None THEN reg ELSE [reg EXCEPT ![d] = [Empty EXCEPT !.owner = s]]
  /\ UNCHANGED <<screen, awake>>

\* The single-viewer policy: the device's entry is taken out and its session told
\* to close.
Evict(s) ==
  /\ ses[s].stage = "new"
  /\ Replaces(s, "inserting", "evicted")
  /\ reg' = [reg EXCEPT ![ses[s].dev] = Empty]
  /\ UNCHANGED <<screen, awake>>

\* The new entry goes in: the map is sharded, so another registration of the
\* device may have come between, whose sender this one drops.
Insert(s) ==
  /\ ses[s].stage = "inserting"
  /\ Replaces(s, "registered", "evicted")
  /\ reg' = [reg EXCEPT ![ses[s].dev] = [Empty EXCEPT !.owner = s]]
  /\ UNCHANGED <<screen, awake>>

\* The upgrade runs desktop_session, or the client is gone and the callback is
\* dropped: its entry stays.
Upgrade(s) ==
  /\ ses[s].stage = "registered"
  /\ \E to \in {"running", "gone"} : ses' = [ses EXCEPT ![s].stage = to]
  /\ UNCHANGED <<reg, screen, awake>>

\* StayAwakeGuard reads the idle time and zeroes it; dropped, it writes back what
\* it read.
Acquire(s) == screen' = [now |-> 0, read |-> [screen.read EXCEPT ![s] = screen.now]]
Release(s) == screen' = [screen EXCEPT !.now = screen.read[s]]

\* The guard is acquired and announced.  It is an operator
\* setting, and what it spawns may fail: the session then runs without it.
AcquireGuard(s) ==
  /\ ses[s].stage = "running"
  /\ \/ /\ ses' = [ses EXCEPT ![s].stage = "guarded"]
        /\ Acquire(s)
        /\ awake' = TRUE
     \/ /\ ses' = [ses EXCEPT ![s].stage = "unguarded"]
        /\ UNCHANGED <<screen, awake>>
  /\ UNCHANGED reg

\* A video pipeline attaches its statistics to the device's entry.
AttachStats(s) ==
  /\ ses[s].stage \in {"guarded", "unguarded"} /\ reg[ses[s].dev].owner # None
  /\ reg' = [reg EXCEPT ![ses[s].dev].stats = s]
  /\ UNCHANGED <<ses, screen, awake>>

\* run_session returns, on the close signal or because the client left; the
\* guard is released.
RunReturns(s) ==
  /\ ses[s].stage \in {"running", "guarded", "unguarded"}
  /\ ses' = [ses EXCEPT ![s].stage = "returned"]
  /\ IF ses[s].stage = "guarded"
     THEN /\ Release(s)
          /\ awake' = FALSE
     ELSE UNCHANGED <<screen, awake>>
  /\ UNCHANGED reg

\* The entry of the device goes, whoever's it is, and with it a close sender.
Remove(s) ==
  /\ ses[s].stage = "returned"
  /\ Replaces(s, "gone", "dropped")
  /\ reg' = [reg EXCEPT ![ses[s].dev] = Empty]
  /\ UNCHANGED <<screen, awake>>

\* The operator disconnects the device.
Kick(d) ==
  /\ reg[d].owner # None
  /\ ses' = [ses EXCEPT ![reg[d].owner] = Told(reg[d].owner, "kicked")]
  /\ reg' = [reg EXCEPT ![d] = Empty]
  /\ UNCHANGED <<screen, awake>>

Next ==
  \/ \E s \in Sessions : Evict(s) \/ Insert(s) \/ Upgrade(s) \/ AcquireGuard(s)
                         \/ AttachStats(s) \/ RunReturns(s) \/ Remove(s)
  \/ \E d \in Devices : Kick(d)

Spec == Init /\ [][Next]_vars

-----------------------------------------------------------------------------
(* Properties                                                              *)

TypeOK ==
  /\ ses \in [Sessions -> [stage : Open \cup {"new", "inserting", "returned", "gone"}, dev : Devices,
                           closed : {"no", "evicted", "kicked", "dropped"}]]
  /\ reg \in [Devices -> [owner : Sessions \cup {None}, stats : Sessions \cup {None}]]

\* Single viewer (desktop_service.rs:3-5): of the open sessions of a device at
\* most one has not been told to close, whatever the order in which others
\* connect, end, are kicked and remove the device's entry behind its back.
Untold(s) == ses[s].stage \in Open /\ ses[s].closed = "no"
OneViewer ==
  \A s, t \in Sessions : (Untold(s) /\ Untold(t) /\ ses[s].dev = ses[t].dev) => s = t

\* The invariant behind it: a session that was not told is its device's entry.
UntoldIsRegistered == \A s \in Sessions : Untold(s) => reg[ses[s].dev].owner = s
=============================================================================
