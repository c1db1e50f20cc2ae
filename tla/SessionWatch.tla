----------------------------- MODULE SessionWatch -----------------------------
(***************************************************************************)
(* What watches a terminal session (agent/src/terminal_pty.rs): the idle   *)
(* watchdog, a thread that shares a flag with the reader thread and turns  *)
(* the browser's light off, and the agent detector, a task that asks every *)
(* five seconds which program has the terminal's foreground.  The detector *)
(* has no end and holds the number of the terminal's descriptor only; once *)
(* the session is dropped the number is free for the next session.         *)
(***************************************************************************)
EXTENDS Integers, FiniteSets, FiniteSetsExt

CONSTANTS Watched,     \* sessions
          Lit,         \* those of them whose light is looked at
          MaxOutput,   \* bound on the chunks of a session
          MaxAgent,    \* bound on the agents started in a session
          MaxMiss      \* bound on the polls and writes that fail

WatchAssumption == 
  IsFiniteSet(Watched) /\ Lit \subseteq Watched /\ {MaxOutput, MaxAgent, MaxMiss} \subseteq Nat

VARIABLES ses,     \* life of a session, its descriptor, its foreground: an agent?
          light,   \* is_active, whether output was less than the threshold ago,
                   \* positions of watchdog and reader, the state the browser shows
          det,     \* the detector: position, prev_agent, what the poll found
          row,     \* the column detected_agent
          chunks,  \* how many chunks, per session, and how many agents came
          agents,
          misses   \* how many polls and writes failed

watchVars == <<ses, light, det, row, chunks, agents, misses>>

NoFd == 0
Fds == 1..Cardinality(Watched)
Life == {"new", "open", "exited", "gone"}

TypeOK ==
  /\ ses \in [Watched -> [life : Life, fd : Fds \cup {NoFd}, agent : BOOLEAN]]
  /\ light \in [Lit -> [flag : BOOLEAN, fresh : BOOLEAN,
                            dog : {"sleep", "measure", "store", "send", "over"},
                            reader : {"read", "flag"}, shown : {"idle", "active", "exited"}]]
  /\ det \in [Watched -> [at : {"wait", "write", "tell"}, prev : BOOLEAN, found : BOOLEAN]]
  /\ row \in [Watched -> BOOLEAN]
  /\ chunks \in [Lit -> 0..MaxOutput] /\ agents \in 0..MaxAgent
  /\ misses \in 0..MaxMiss

Init ==
  /\ ses = [s \in Watched |-> [life |-> "new", fd |-> NoFd, agent |-> FALSE]]
  /\ light = [s \in Lit |-> [flag |-> FALSE, fresh |-> TRUE, dog |-> "sleep",
                                 reader |-> "read", shown |-> "idle"]]
  /\ det = [s \in Watched |-> [at |-> "wait", prev |-> FALSE, found |-> FALSE]]
  /\ row = [s \in Watched |-> FALSE]
  /\ chunks = [s \in Lit |-> 0] /\ agents = 0
  /\ misses = 0

Spawned(s) == ses[s].life # "new"
Holds(s) == ses[s].life \in {"open", "exited"}
Unused(f) == \A s \in Watched : Holds(s) => ses[s].fd # f
Miss == misses < MaxMiss /\ misses' = misses + 1

-----------------------------------------------------------------------------
\* spawn_terminal_session: the pseudo-terminal gets the lowest free number.
Spawn(s) ==
  /\ ses[s].life = "new"
  /\ ses' = [ses EXCEPT ![s] = [life |-> "open", fd |-> Min({f \in Fds : Unused(f)}),
                                agent |-> FALSE]]
  /\ UNCHANGED <<light, det, row, chunks, agents, misses>>

\* The user starts an agent in the shell, and it ends.
Launch(s) ==
  /\ ses[s].life = "open" /\ ~ses[s].agent /\ agents < MaxAgent
  /\ ses' = [ses EXCEPT ![s].agent = TRUE]
  /\ agents' = agents + 1
  /\ UNCHANGED <<light, det, row, chunks, misses>>
Quit(s) ==
  /\ ses[s].agent
  /\ ses' = [ses EXCEPT ![s].agent = FALSE]
  /\ UNCHANGED <<light, det, row, chunks, agents, misses>>

\* The reader thread: a chunk stamps the activity, then the flag is swapped
\* and the light goes on if it was off.
Output(s) ==
  /\ ses[s].life = "open" /\ light[s].reader = "read" /\ chunks[s] < MaxOutput
  /\ light' = [light EXCEPT ![s].fresh = TRUE, ![s].reader = "flag"]
  /\ chunks' = [chunks EXCEPT ![s] = @ + 1]
  /\ UNCHANGED <<ses, det, row, agents, misses>>
SwapFlag(s) ==
  /\ light[s].reader = "flag"
  /\ light' = [light EXCEPT ![s].reader = "read", ![s].flag = TRUE,
                            ![s].shown = IF light[s].flag THEN @ ELSE "active"]
  /\ UNCHANGED <<ses, det, row, chunks, agents, misses>>

\* The shell is gone: the last two frames end the browser's connection.
Exit(s) ==
  /\ ses[s].life = "open" /\ (s \in Lit => light[s].reader = "read")
  /\ ses' = [ses EXCEPT ![s].life = "exited", ![s].agent = FALSE]
  /\ light' = [t \in Lit |-> IF t = s THEN [light[t] EXCEPT !.shown = "exited"] ELSE light[t]]
  /\ UNCHANGED <<det, row, chunks, agents, misses>>

\* The last user of the session drops it, and the terminal is closed.
Drop(s) ==
  /\ ses[s].life = "exited"
  /\ ses' = [ses EXCEPT ![s].life = "gone"]
  /\ UNCHANGED <<light, det, row, chunks, agents, misses>>

\* The threshold passes without output.
Quiet(s) ==
  /\ Holds(s) /\ light[s].fresh
  /\ light' = [light EXCEPT ![s].fresh = FALSE]
  /\ UNCHANGED <<ses, det, row, chunks, agents, misses>>

-----------------------------------------------------------------------------
\* The watchdog's turn: it ends with the session, loads the flag, measures,
\* clears the flag and sends, in steps that the reader may come between.
\* (faulty variant: it ends when no browser is attached, whatever the session does)
DogLooksUnattended(s) ==
  /\ Spawned(s) /\ light[s].dog = "sleep"
  /\ \/ light' = [light EXCEPT ![s].dog = "over"]
     \/ light[s].flag /\ light' = [light EXCEPT ![s].dog = "measure"]
  /\ UNCHANGED <<ses, det, row, chunks, agents, misses>>
DogLooks(s) ==
  /\ Spawned(s) /\ light[s].dog = "sleep"
  /\ \/ ses[s].life # "open" /\ light' = [light EXCEPT ![s].dog = "over"]
     \/ Holds(s) /\ light[s].flag /\ light' = [light EXCEPT ![s].dog = "measure"]
  /\ UNCHANGED <<ses, det, row, chunks, agents, misses>>
DogMeasures(s) ==
  /\ light[s].dog = "measure"
  /\ light' = [light EXCEPT ![s].dog = IF light[s].fresh THEN "sleep" ELSE "store"]
  /\ UNCHANGED <<ses, det, row, chunks, agents, misses>>
DogStores(s) ==
  /\ light[s].dog = "store"
  /\ light' = [light EXCEPT ![s].dog = "send", ![s].flag = FALSE]
  /\ UNCHANGED <<ses, det, row, chunks, agents, misses>>
DogSends(s) ==
  /\ light[s].dog = "send"
  /\ light' = [light EXCEPT ![s].dog = "sleep",
                            ![s].shown = IF ses[s].life = "open" THEN "idle" ELSE @]
  /\ UNCHANGED <<ses, det, row, chunks, agents, misses>>
Dog(s) == DogLooks(s) \/ DogMeasures(s) \/ DogStores(s) \/ DogSends(s)

-----------------------------------------------------------------------------
\* detect_in_pty: the foreground of whatever terminal has the number now.
InForeground(f) == \E t \in Watched : Holds(t) /\ ses[t].fd = f /\ ses[t].agent

\* A poll; reading the program's name may fail, which counts as no agent.
\* (faulty variant: a terminal that does not answer leaves the agent as it was)
PollKeepsOnClose(s) ==
  /\ Spawned(s) /\ det[s].at = "wait"
  /\ \E found \in {InForeground(ses[s].fd)} :
       /\ found # det[s].prev /\ Holds(s)
       /\ det' = [det EXCEPT ![s].at = "write", ![s].found = found]
  /\ UNCHANGED <<ses, light, row, chunks, agents, misses>>
Poll(s) ==
  /\ Spawned(s) /\ det[s].at = "wait"
  /\ \E found \in BOOLEAN :
       /\ \/ found = InForeground(ses[s].fd) /\ UNCHANGED misses
          \/ ~found /\ Miss
       /\ found # det[s].prev
       /\ det' = [det EXCEPT ![s].at = "write", ![s].found = found]
  /\ UNCHANGED <<ses, light, row, chunks, agents>>

\* The column is written; a statement that fails is not noticed.
WriteRow(s) ==
  /\ det[s].at = "write"
  /\ det' = [det EXCEPT ![s].at = "tell"]
  /\ \/ row' = [row EXCEPT ![s] = det[s].found] /\ UNCHANGED misses
     \/ Miss /\ UNCHANGED row
  /\ UNCHANGED <<ses, light, chunks, agents>>

\* SessionAgentDetected or SessionAgentEnded goes out, and becomes prev_agent.
Tell(s) ==
  /\ det[s].at = "tell"
  /\ det' = [det EXCEPT ![s].at = "wait", ![s].prev = det[s].found]
  /\ UNCHANGED <<ses, light, row, chunks, agents, misses>>
Detect(s) == Poll(s) \/ WriteRow(s) \/ Tell(s)

Next ==
  \/ \E s \in Watched : Spawn(s) \/ Launch(s) \/ Quit(s) \/ Exit(s) \/ Drop(s) \/ Detect(s)
  \/ \E s \in Lit : Output(s) \/ SwapFlag(s) \/ Quiet(s) \/ Dog(s)

\* Threads run on, the threshold passes, the detector is polled.
Running(s) == SwapFlag(s) \/ Quiet(s)

Spec ==
  /\ Init /\ [][Next]_watchVars
  /\ \A s \in Watched : WF_watchVars(Detect(s))
  /\ \A s \in Lit : WF_watchVars(Running(s)) /\ WF_watchVars(Dog(s))

-----------------------------------------------------------------------------
(* Properties                                                              *)

(* A light that is on can be turned off (terminal_pty.rs:463): the flag is   *)
(* set, or the frame that turns it off is about to be sent.  The other       *)
(* direction fails: a frame sent after the reader's turns the light off for  *)
(* as long as output does not pause.                                         *)
LightCanGoOff ==
  \A s \in Lit : (ses[s].life = "open" /\ light[s].shown = "active")
                       => (light[s].flag \/ light[s].dog = "send") /\ light[s].dog # "over"

(* What a poll finds is the session's own, unless the session was dropped    *)
(* and the number of its descriptor given to another.                        *)
Reused(s) ==
  ses[s].life = "gone" /\ \E t \in Watched \ {s} : Spawned(t) /\ ses[t].fd = ses[s].fd
FoundIsOwn ==
  \A s \in Watched : (Spawned(s) /\ ~Reused(s)) => (InForeground(ses[s].fd) <=> ses[s].agent)

(* The column is what was announced, unless a statement failed.              *)
RowIsAnnounced ==
  misses = 0 => \A s \in Watched : det[s].at = "wait" => row[s] = det[s].prev

(* A session that is quiet is not shown active for ever, and an agent that   *)
(* has ended, with the session or before, is not taken for running for ever  *)
(* unless the descriptor was reused: again and again all sessions are so.    *)
Settled(s) ==
  /\ (s \in Lit /\ ses[s].life = "open") => light[s].fresh \/ light[s].shown # "active"
  /\ det[s].prev => ses[s].agent \/ Reused(s)
AllSettled == \A s \in Watched : Settled(s)
WatchSettles == ~AllSettled ~> AllSettled
=============================================================================
