--------------------------- MODULE TerminalSessions ---------------------------
(***************************************************************************)
(* The life of the terminal sessions of one owner (agent/src:               *)
(* terminal_api.rs, terminal_pty.rs, terminal_ws.rs, and the start-up in     *)
(* main.rs).                                                                *)
(*                                                                          *)
(* A session is a row of the database, an entry of the in-memory map of     *)
(* live sessions, a shell on a pseudo-terminal, and a reader thread that    *)
(* waits for the shell's end.  Request handlers create and close sessions;  *)
(* resizing one or attaching to it finds out that it is gone.  Handlers,    *)
(* readers and the shells interleave at every database statement and map    *)
(* access.  The agent may stop at any point, which ends its shells; when    *)
(* it starts again it reconciles the rows.                                  *)
(***************************************************************************)
EXTENDS Integers, FiniteSets

CONSTANTS
    MaxSession,  \* bound on the sessions created
    MaxRequest,  \* bound on the requests about existing sessions under way
    NoRequest,
    Cap          \* MAX_TERMINAL_SESSIONS_PER_USER

ASSUME BoundsAssumption == MaxSession \in Nat /\ MaxRequest \in Nat /\ Cap \in Nat

VARIABLES
    row,         \* terminal_sessions.status; "none" before the insert
    map,         \* AppState::terminal_sessions
    create,      \* what the creating handler does next
    shell,       \* "none", "live", or "gone"
    tty,         \* some process has the terminal open
    reader,      \* what the reader thread does next
    req          \* requests under way: what each does next, and to which session

vars == <<row, map, create, shell, tty, reader, req>>

Session == 1..MaxSession
Request == 1..MaxRequest

Status == {"none", "running", "exited", "closed", "dead"}
Step   == {"dismiss", "lookup", "gone", "kill", "close"}
Work   == [at : Step, s : Session]

ASSUME NoRequestAssumption == NoRequest \notin Work

TypeOK ==
    /\ row \in [Session -> Status]
    /\ map \subseteq Session
    /\ create \in [Session -> {"none", "insert", "spawn", "start", "fail", "done"}]
    /\ shell \in [Session -> {"none", "live", "gone"}]
    /\ tty \in [Session -> BOOLEAN]
    /\ reader \in [Session -> {"none", "read", "lock", "wait", "save", "remove", "done"}]
    /\ req \in [Request -> Work \cup {NoRequest}]

Init ==
    /\ row = [s \in Session |-> "none"]
    /\ map = {}
    /\ create = [s \in Session |-> "none"]
    /\ shell = [s \in Session |-> "none"]
    /\ tty = [s \in Session |-> FALSE]
    /\ reader = [s \in Session |-> "none"]
    /\ req = [r \in Request |-> NoRequest]

\* Ids and handlers are interchangeable: the first unused one is taken.
Free(r) == req[r] = NoRequest /\ \A q \in 1..r - 1 : req[q] # NoRequest
At(r, step) == req[r] # NoRequest /\ req[r].at = step
Goto(r, step) == req' = [req EXCEPT ![r] = [at |-> step, s |-> req[r].s]]
Answer(r) == req' = [req EXCEPT ![r] = NoRequest]
SetRow(s, status) == row' = [row EXCEPT ![s] = status]

-----------------------------------------------------------------------------
(* api_terminal_sessions_create *)

\* The count of the map is read first, and not again.
Admit(s) ==
    /\ create[s] = "none" /\ \A t \in 1..s - 1 : create[t] # "none"
    /\ Cardinality(map) < Cap
    /\ create' = [create EXCEPT ![s] = "insert"]
    /\ UNCHANGED <<row, map, shell, tty, reader, req>>

InsertRow(s) ==
    /\ create[s] = "insert"
    /\ SetRow(s, "running")
    /\ create' = [create EXCEPT ![s] = "spawn"]
    /\ UNCHANGED <<map, shell, tty, reader, req>>

\* spawn_terminal_session: the session is registered before its reader runs.
Spawn(s) ==
    /\ create[s] = "spawn"
    /\ shell' = [shell EXCEPT ![s] = "live"]
    /\ tty' = [tty EXCEPT ![s] = TRUE]
    /\ map' = map \cup {s}
    /\ create' = [create EXCEPT ![s] = "start"]
    /\ UNCHANGED <<row, reader, req>>

StartReader(s) ==
    /\ create[s] = "start"
    /\ reader' = [reader EXCEPT ![s] = "read"]
    /\ create' = [create EXCEPT ![s] = "done"]
    /\ UNCHANGED <<row, map, shell, tty, req>>

SpawnFails(s) ==
    /\ create[s] = "spawn"
    /\ create' = [create EXCEPT ![s] = "fail"]
    /\ UNCHANGED <<row, map, shell, tty, reader, req>>

MarkFailed(s) ==
    /\ create[s] = "fail"
    /\ SetRow(s, "dead")
    /\ create' = [create EXCEPT ![s] = "done"]
    /\ UNCHANGED <<map, shell, tty, reader, req>>

-----------------------------------------------------------------------------
(* The shell *)

\* Background jobs may keep the terminal open after the shell's exit.
ShellExits(s) ==
    /\ shell[s] = "live"
    /\ shell' = [shell EXCEPT ![s] = "gone"]
    /\ \E kept \in {tty[s], FALSE} : tty' = [tty EXCEPT ![s] = kept]
    /\ UNCHANGED <<row, map, create, reader, req>>

\* The last process lets go of the terminal; the shell itself may run on.
TtyCloses(s) ==
    /\ tty[s]
    /\ tty' = [tty EXCEPT ![s] = FALSE]
    /\ UNCHANGED <<row, map, create, shell, reader, req>>

-----------------------------------------------------------------------------
(* The reader thread *)

ReadEnd(s) ==
    /\ reader[s] = "read" /\ ~tty[s]
    /\ reader' = [reader EXCEPT ![s] = "lock"]
    /\ UNCHANGED <<row, map, create, shell, tty, req>>

\* The child's lock is held for the whole wait.  A closing handler holds it
\* within one step, Kill.
LockChild(s) ==
    /\ reader[s] = "lock"
    /\ reader' = [reader EXCEPT ![s] = "wait"]
    /\ UNCHANGED <<row, map, create, shell, tty, req>>

Wait(s) ==
    /\ reader[s] = "wait" /\ shell[s] # "live"
    /\ reader' = [reader EXCEPT ![s] = "save"]
    /\ UNCHANGED <<row, map, create, shell, tty, req>>

\* (faulty variant: a status nobody knows)
SaveExitTypo(s) ==
    /\ reader[s] = "save"
    /\ SetRow(s, "exit")
    /\ reader' = [reader EXCEPT ![s] = "remove"]
    /\ UNCHANGED <<map, create, shell, tty, req>>

\* (faulty variant: the update fails silently)
SaveExitDropped(s) ==
    /\ reader[s] = "save"
    /\ reader' = [reader EXCEPT ![s] = "remove"]
    /\ UNCHANGED <<row, map, create, shell, tty, req>>

\* The row is written whatever it holds by now.
SaveExit(s) ==
    /\ reader[s] = "save"
    /\ SetRow(s, "exited")
    /\ reader' = [reader EXCEPT ![s] = "remove"]
    /\ UNCHANGED <<map, create, shell, tty, req>>

\* (faulty variant: only the row is updated)
RemoveForgotten(s) ==
    /\ reader[s] = "remove"
    /\ reader' = [reader EXCEPT ![s] = "done"]
    /\ UNCHANGED <<row, map, create, shell, tty, req>>

Remove(s) ==
    /\ reader[s] = "remove"
    /\ map' = map \ {s}
    /\ reader' = [reader EXCEPT ![s] = "done"]
    /\ UNCHANGED <<row, create, shell, tty, req>>

-----------------------------------------------------------------------------
(* api_terminal_session_close; resizing and attaching *)

\* The status is read, and decides what is done later.
CloseReads(r, s) ==
    /\ Free(r)
    /\ \/ row[s] = "exited"  /\ req' = [req EXCEPT ![r] = [at |-> "dismiss", s |-> s]]
       \/ row[s] = "running" /\ req' = [req EXCEPT ![r] = [at |-> "lookup", s |-> s]]
    /\ UNCHANGED <<row, map, create, shell, tty, reader>>

Dismiss(r) ==
    /\ At(r, "dismiss")
    /\ SetRow(req[r].s, "closed")
    /\ Answer(r)
    /\ UNCHANGED <<map, create, shell, tty, reader>>

TakeFromMap(r) ==
    /\ At(r, "lookup")
    /\ map' = map \ {req[r].s}
    /\ Goto(r, IF req[r].s \in map THEN "kill" ELSE "gone")
    /\ UNCHANGED <<row, create, shell, tty, reader>>

\* kill() hangs up on the shell, waits for a moment, and kills it.
Kill(r) ==
    /\ At(r, "kill") /\ reader[req[r].s] # "wait"
    /\ shell' = [shell EXCEPT ![req[r].s] = "gone"]
    /\ \E kept \in {tty[req[r].s], FALSE} : tty' = [tty EXCEPT ![req[r].s] = kept]
    /\ Goto(r, "close")
    /\ UNCHANGED <<row, map, create, reader>>

\* (faulty variant: the update fails silently)
SaveClosedDropped(r) ==
    /\ At(r, "close")
    /\ Answer(r)
    /\ UNCHANGED <<row, map, create, shell, tty, reader>>

SaveClosed(r) ==
    /\ At(r, "close")
    /\ SetRow(req[r].s, "closed")
    /\ Answer(r)
    /\ UNCHANGED <<map, create, shell, tty, reader>>

\* A websocket upgrade or a resize finds the row but no live session.
Touch(r, s) ==
    /\ Free(r) /\ row[s] # "none" /\ s \notin map
    /\ req' = [req EXCEPT ![r] = [at |-> "gone", s |-> s]]
    /\ UNCHANGED <<row, map, create, shell, tty, reader>>

\* Answered 410, and the row is marked whatever it holds.
MarkGone(r) ==
    /\ At(r, "gone")
    /\ SetRow(req[r].s, "dead")
    /\ Answer(r)
    /\ UNCHANGED <<map, create, shell, tty, reader>>

-----------------------------------------------------------------------------
(* The agent stops, its terminals hang up, and it starts again *)

\* (faulty variant: without reconcile_orphan_sessions)
RestartUnreconciled ==
    /\ map' = {}
    /\ create' = [s \in Session |-> IF create[s] = "none" THEN "none" ELSE "done"]
    /\ shell' = [s \in Session |-> IF shell[s] = "none" THEN "none" ELSE "gone"]
    /\ tty' = [s \in Session |-> FALSE]
    /\ reader' = [s \in Session |-> IF reader[s] = "none" THEN "none" ELSE "done"]
    /\ req' = [r \in Request |-> NoRequest]
    /\ UNCHANGED row

Restart ==
    /\ row' = [s \in Session |-> IF row[s] = "running" THEN "dead" ELSE row[s]]
    /\ map' = {}
    /\ create' = [s \in Session |-> IF create[s] = "none" THEN "none" ELSE "done"]
    /\ shell' = [s \in Session |-> IF shell[s] = "none" THEN "none" ELSE "gone"]
    /\ tty' = [s \in Session |-> FALSE]
    /\ reader' = [s \in Session |-> IF reader[s] = "none" THEN "none" ELSE "done"]
    /\ req' = [r \in Request |-> NoRequest]

-----------------------------------------------------------------------------
Creation(s) == InsertRow(s) \/ Spawn(s) \/ StartReader(s) \/ SpawnFails(s) \/ MarkFailed(s)
Reader(s)   == ReadEnd(s) \/ LockChild(s) \/ Wait(s) \/ SaveExit(s) \/ Remove(s)
Handler(r)  == Dismiss(r) \/ TakeFromMap(r) \/ Kill(r) \/ SaveClosed(r) \/ MarkGone(r)

Next ==
    \/ \E s \in Session : Admit(s) \/ Creation(s) \/ Reader(s)
    \/ \E s \in Session : ShellExits(s) \/ TtyCloses(s)
    \/ \E r \in Request, s \in Session : CloseReads(r, s) \/ Touch(r, s)
    \/ \E r \in Request : Handler(r)
    \/ Restart

Spec == Init /\ [][Next]_vars

\* A handler has no await after its authorisation and runs to its end, and a
\* thread runs on; what shells and users do is up to them.
Fairness ==
    /\ \A s \in Session : WF_vars(Creation(s)) /\ WF_vars(Reader(s))
    /\ \A r \in Request : WF_vars(Handler(r))

LiveSpec == Spec /\ Fairness

-----------------------------------------------------------------------------
(* Properties *)

\* terminal_pty.rs: "Build the session and register it BEFORE the reader
\* thread spawns": an entry of the map always has a reader that will remove
\* it, or a handler about to start that reader.
NoPhantom ==
    \A s \in map : create[s] = "start" \/ reader[s] \notin {"none", "done"}

\* A row says "running" without a live session only while a creation or a
\* closing handler is on the way to change one or the other, also after a
\* restart (reconcile_orphan_sessions).
NoOrphanRow ==
    \A s \in Session : row[s] = "running" /\ s \notin map =>
        \/ create[s] \in {"spawn", "fail"}
        \/ \E r \in Request : (At(r, "kill") \/ At(r, "close")) /\ req[r].s = s

Exited(s) == shell[s] = "gone" /\ ~tty[s]
Noticed(s) == s \notin map /\ row[s] # "running"

\* When the shell has exited and nothing keeps its terminal, the session
\* leaves the map and its row stops saying "running".
ExitNoticed == \A s \in Session : Exited(s) ~> Noticed(s)

Orphaned(s) == row[s] = "running" /\ s \notin map
Settled(s) == row[s] # "running" \/ s \in map \/ (shell[s] = "live" /\ ~tty[s])

\* A session taken from the map ends as exited, closed or dead, unless its
\* shell runs on without a terminal: the reader then waits for it with the
\* child's lock, and so does the closing handler (terminal_pty.rs:549).
CloseSettles == \A s \in Session : Orphaned(s) ~> Settled(s)

\* terminal_api.rs:57, "Hide administratively closed sessions ('closed' =
\* user clicked close, ...": a session the user closed is never listed again.
ClosedStaysHidden ==
    [][\A s \in Session : row[s] = "closed" => row'[s] \in {"closed", "dead"}]_vars

=============================================================================
