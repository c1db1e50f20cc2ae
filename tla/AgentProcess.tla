---------------------------- MODULE AgentProcess ----------------------------
(***************************************************************************)
(* Starting and stopping the agent: the advisory lock on agent.lock        *)
(* (agent/src/instance_lock.rs), the ways to start (agent/src/main.rs:     *)
(* headless, terminal menu, tray), the port, the sweep of other agents     *)
(* when the port stays taken, and the exits, of which some run destructors *)
(* and some do not.                                                        *)
(*                                                                         *)
(* A lock belongs to the file that was opened, the path names whichever    *)
(* file was created last and not removed.  A process that releases its     *)
(* lock removes the path first.                                            *)
(***************************************************************************)
EXTENDS Integers, FiniteSets

CONSTANTS Process, \* starts of the program
          Free,    \* nobody has the port
          MaxFile  \* bound on the files created at the path

ProcessAssumption == Free \notin Process /\ MaxFile \in Nat \ {0}

VARIABLES step,    \* where a process is
          mode,    \* headless (main thread serves), tui, tray (a sibling thread serves)
          fd,      \* the file it has open; 0: none
          locked,  \* whether it holds that file's lock
          path,    \* the file agent.lock names; 0: none
          files,   \* files created so far
          port,    \* who listens on the agent's port
          termed,  \* the processes a sweep has sent SIGTERM
          raced    \* ghost: the path was removed under a process that had its file open

procVars == <<step, mode, fd, locked, path, files, port, termed, raced>>

Alive == {p \in Process : step[p] \notin {"off", "gone"}}
Holders == {p \in Process : locked[p]}

-----------------------------------------------------------------------------
TypeOK ==
  /\ step \in [Process -> {"off", "open", "lock", "menu", "exiting", "bind", "sweep", "sweeping",
                           "rebind", "serve", "drain", "idle", "stop", "unlinked", "gone"}]
  /\ mode \in [Process -> {"headless", "tui", "tray"}]
  /\ fd \in [Process -> 0..MaxFile] /\ locked \in [Process -> BOOLEAN]
  /\ path \in 0..MaxFile /\ files \in 0..MaxFile
  /\ port \in Process \cup {Free} /\ raced \in BOOLEAN
  /\ termed \subseteq Process
  /\ \A p \in Process : (locked[p] => fd[p] # 0) /\ (step[p] \in {"off", "gone"} => fd[p] = 0)

Init ==
  /\ step = [p \in Process |-> "off"] /\ mode = [p \in Process |-> "headless"]
  /\ fd = [p \in Process |-> 0] /\ locked = [p \in Process |-> FALSE]
  /\ path = 0 /\ files = 0 /\ port = Free /\ termed = {} /\ raced = FALSE

Goto(p, s) == step' = [step EXCEPT ![p] = s]

\* The operating system at the end of a set of processes: files closed, locks
\* and port released, the path untouched.
Ends(P) ==
  /\ step' = [p \in Process |-> IF p \in P THEN "gone" ELSE step[p]]
  /\ fd' = [p \in Process |-> IF p \in P THEN 0 ELSE fd[p]]
  /\ locked' = [p \in Process |-> locked[p] /\ p \notin P]
  /\ port' = IF port \in P THEN Free ELSE port

-----------------------------------------------------------------------------
\* main: started without a terminal, or with one.
Start(p, m) ==
  /\ step[p] = "off" /\ m \in {"headless", "tui"}
  /\ mode' = [mode EXCEPT ![p] = m]
  /\ Goto(p, "open")
  /\ UNCHANGED <<fd, locked, path, files, port, termed, raced>>

\* wait_for_agent_ready: somebody answers on the port.
AgentReady == port # Free /\ step[port] = "serve"

\* run_ui_command, `oxiremote ui`: a detached tray process, unless an agent
\* answers.
StartUi(c) ==
  /\ step[c] = "off" /\ ~AgentReady
  /\ mode' = [mode EXCEPT ![c] = "tray"]
  /\ Goto(c, "open")
  /\ UNCHANGED <<fd, locked, path, files, port, termed, raced>>

\* LockFile::acquire: open with create, without truncation.
Open(p) ==
  /\ step[p] = "open"
  /\ IF path # 0
     THEN fd' = [fd EXCEPT ![p] = path] /\ UNCHANGED <<path, files>>
     ELSE /\ files < MaxFile
          /\ files' = files + 1 /\ path' = files + 1
          /\ fd' = [fd EXCEPT ![p] = files + 1]
  /\ Goto(p, "lock")
  /\ UNCHANGED <<mode, locked, port, termed, raced>>

\* (faulty variant: a shared lock)
LockShared(p) ==
  /\ step[p] = "lock"
  /\ locked' = [locked EXCEPT ![p] = TRUE]
  /\ Goto(p, IF mode[p] = "tui" THEN "menu" ELSE "bind")
  /\ UNCHANGED <<mode, fd, path, files, port, termed, raced>>

\* LockFileEx or flock: exclusive and non-blocking, on the open file.
Contended(p) == \E q \in Holders : fd[q] = fd[p]

\* LockFile::acquire.  Taken: the agent goes on to serve, or to the menu.
Lock(p) ==
  /\ step[p] = "lock" /\ ~Contended(p)
  /\ locked' = [locked EXCEPT ![p] = TRUE]
  /\ Goto(p, IF mode[p] = "tui" THEN "menu" ELSE "bind")
  /\ UNCHANGED <<mode, fd, path, files, port, termed, raced>>

\* InstanceLock::acquire: another live instance has it, exit(0).
LockTaken(p) ==
  /\ step[p] = "lock" /\ Contended(p)
  /\ Ends({p})
  /\ UNCHANGED <<mode, path, files, termed, raced>>

-----------------------------------------------------------------------------
\* "Terminal UI": the server thread is spawned.
PickTerminal(p) ==
  /\ step[p] = "menu"
  /\ Goto(p, "bind")
  /\ UNCHANGED <<mode, fd, locked, path, files, port, termed, raced>>

\* The menu is also reached from the dashboard, whatever the server thread
\* is doing.
AtMenu(p) ==
  /\ mode[p] = "tui"
  /\ step[p] \in {"menu", "bind", "sweep", "sweeping", "rebind", "serve", "drain", "idle"}

\* "Open Web UI": a detached tray process is spawned ...
PickWebUi(p, c) ==
  /\ AtMenu(p) /\ step[c] = "off"
  /\ step' = [step EXCEPT ![p] = "exiting", ![c] = "open"]
  /\ mode' = [mode EXCEPT ![c] = "tray"]
  /\ UNCHANGED <<fd, locked, path, files, port, termed, raced>>

\* ... and this process exits, without destructors.
ExitProcess(p) ==
  /\ step[p] = "exiting"
  /\ Ends({p})
  /\ UNCHANGED <<mode, path, files, termed, raced>>

-----------------------------------------------------------------------------
\* bind_with_retry, and the bind after the sweep.
Bind(p) ==
  /\ step[p] \in {"bind", "rebind"} /\ port = Free
  /\ port' = p
  /\ Goto(p, "serve")
  /\ UNCHANGED <<mode, fd, locked, path, files, termed, raced>>

\* bind_with_retry: the port was taken for five seconds.
BindTimesOut(p) ==
  /\ step[p] = "bind" /\ port # Free
  /\ Goto(p, "sweep")
  /\ UNCHANGED <<mode, fd, locked, path, files, port, termed, raced>>

\* The server of a process that has been told to stop: headless, main returns
\* after it; under the menu and the tray only the server thread ends.
Told(q) == IF mode[q] = "headless" THEN "stop" ELSE "drain"

\* server_main with no server: the error ends a headless main; the menu and
\* the tray go on without.
GivenUp(p) == IF mode[p] = "headless" THEN "stop" ELSE "idle"

\* kill_other_oxiremote_processes, first half: SIGTERM.  A serving process
\* drains, one that never served has no handler and dies.  Nobody to kill: the
\* error of the bind stands.
Sweep(p) ==
  /\ step[p] = "sweep"
  /\ LET others == Alive \ {p}
         handles == {q \in others : step[q] \in {"serve", "drain", "stop", "unlinked"}}
         die == others \ handles
     IN /\ step' = [q \in Process |->
                      CASE q = p -> IF others = {} THEN GivenUp(p) ELSE "sweeping"
                        [] q \in die -> "gone"
                        [] q \in handles /\ step[q] = "serve" -> Told(q)
                        [] OTHER -> step[q]]
        /\ fd' = [q \in Process |-> IF q \in die THEN 0 ELSE fd[q]]
        /\ locked' = [q \in Process |-> locked[q] /\ q \notin die]
        /\ termed' = termed \cup others
        /\ port' = IF port \in die THEN Free ELSE port
  /\ UNCHANGED <<mode, path, files, raced>>

\* The server thread of the menu or the tray has drained.
Drained(p) ==
  /\ step[p] = "drain"
  /\ port' = IF port = p THEN Free ELSE port
  /\ Goto(p, "idle")
  /\ UNCHANGED <<mode, fd, locked, path, files, termed, raced>>

\* (faulty variant: those that drain are left to drain)
SweepWithoutKill(p) ==
  /\ step[p] = "sweeping"
  /\ Goto(p, "rebind")
  /\ UNCHANGED <<mode, fd, locked, path, files, port, termed, raced>>

\* kill_other_oxiremote_processes, second half: SIGKILL for those that are
\* still there, and the pause before the second bind.
SweepKill(p) ==
  /\ step[p] = "sweeping"
  /\ LET late == (termed \cap Alive) \ {p}
     IN /\ step' = [q \in Process |-> CASE q = p -> "rebind" [] q \in late -> "gone" [] OTHER -> step[q]]
        /\ fd' = [q \in Process |-> IF q \in late THEN 0 ELSE fd[q]]
        /\ locked' = [q \in Process |-> locked[q] /\ q \notin late]
        /\ port' = IF port \in late THEN Free ELSE port
  /\ UNCHANGED <<mode, path, files, termed, raced>>

\* The second bind fails: server_main returns the error.
RebindFails(p) ==
  /\ step[p] = "rebind" /\ port # Free
  /\ Goto(p, GivenUp(p))
  /\ UNCHANGED <<mode, fd, locked, path, files, port, termed, raced>>

-----------------------------------------------------------------------------
\* A signal, or leaving the menu: the server drains, main returns or drops
\* the lock.
Stop(p) ==
  /\ \/ step[p] = "serve" /\ mode[p] = "headless"
     \/ AtMenu(p)
  /\ Goto(p, "stop")
  /\ UNCHANGED <<mode, fd, locked, path, files, port, termed, raced>>

\* Drop for LockFile: the path is removed (headless: after the server and its
\* listener are gone; under the menu the process exits with them) ...
Remove(p) ==
  /\ step[p] = "stop"
  /\ path' = 0
  /\ raced' = (raced \/ path # fd[p] \/ \E q \in Alive \ {p} : fd[q] = path)
  /\ Goto(p, "unlinked")
  /\ port' = IF port = p /\ mode[p] = "headless" THEN Free ELSE port
  /\ UNCHANGED <<mode, fd, locked, files, termed>>

\* ... and then the descriptor closed, and the process over.
Close(p) ==
  /\ step[p] = "unlinked"
  /\ Ends({p})
  /\ UNCHANGED <<mode, path, files, termed, raced>>

\* Shutdown in the tray's menu, or a crash: no destructor runs.
Exit(p) ==
  /\ \/ step[p] \in {"serve", "drain", "idle"} /\ mode[p] = "tray"
     \/ step[p] = "serve"
  /\ Ends({p})
  /\ UNCHANGED <<mode, path, files, termed, raced>>

-----------------------------------------------------------------------------
\* What a process does by itself.
Runs(p) ==
  \/ Open(p) \/ Lock(p) \/ LockTaken(p) \/ ExitProcess(p)
  \/ Bind(p) \/ BindTimesOut(p) \/ Sweep(p) \/ SweepKill(p) \/ RebindFails(p)
  \/ Drained(p) \/ Remove(p) \/ Close(p)

Next ==
  \E p \in Process :
    \/ \E m \in {"headless", "tui"} : Start(p, m)
    \/ StartUi(p)
    \/ Runs(p)
    \/ PickTerminal(p) \/ \E c \in Process : PickWebUi(p, c)
    \/ Stop(p) \/ Exit(p)

-----------------------------------------------------------------------------
(* Two processes hold the instance lock at once only after one removed the  *)
(* path under a start that had the file open, or removed a file that was    *)
(* not its own (instance_lock.rs:114): exits without destructors, hand-overs*)
(* and sweeps never let two in.  A process between the removal and the      *)
(* close of its descriptor is on its way out and does not count.            *)
OneHolderUnlessRaced ==
  Cardinality({p \in Holders : step[p] # "unlinked"}) > 1 => raced

Swept == \E p \in Process : step[p] = "sweeping"
ServedOrLeft ==
  \E q \in Process : step[q] = "serve" \/ (mode[q] = "tui" /\ step[q] \in {"exiting", "stop"})

(* An agent that has killed the others to get the port leads to one that    *)
(* serves, itself or one that was faster: the sweep and the second bind     *)
(* (main.rs:1225) do not leave the host without an agent, unless its user  *)
(* left the menu meanwhile.                                                 *)
SweeperServes == Swept ~> ServedOrLeft
=============================================================================
