----------------------------- MODULE MCWorkbench -----------------------------
(***************************************************************************)
(* The terminal sessions of an agent and the output stream of one session,  *)
(* checked in one run.  They share no state: a behaviour is one of the      *)
(* sessions or one of a stream, as `part` says, and the other stays where   *)
(* it started.                                                              *)
(***************************************************************************)
EXTENDS TerminalSessions, Sequences

CONSTANTS Socket, MaxSeq, Sizes, Capacity, ChanCap, WireCap, MaxFault, None

VARIABLES part, next, ring, thread, inMap, srv, attached, rx, lagged, attach, wire,
          ws, heard, handle, last, shown, beside, faults

streamVars == <<next, ring, thread, inMap, srv, attached, rx, lagged, attach, wire,
                ws, heard, handle, last, shown, beside, faults>>
all == <<part, vars, streamVars>>

Stream == INSTANCE TerminalStream WITH reader <- thread

ASSUME StreamAssumption == Stream!SizeAssumption

WorkbenchInit == part \in {"sessions", "stream"} /\ Init /\ Stream!Init

InSessions(A) == part = "sessions" /\ A /\ UNCHANGED <<part, streamVars>>
InStream(A)   == part = "stream"   /\ A /\ UNCHANGED <<part, vars>>

\* The fairness of each part is that of its threads and tasks (that a session's
\* creation or its reader thread goes on is less than the code grants).  A
\* behaviour has steps of one part only, so one condition serves an action of each.
WorkbenchFairness ==
  /\ \A s \in Session : WF_all(\/ InSessions(Creation(s) \/ Reader(s))
                                \/ InStream(s = 1 /\ Stream!Reader)
                                \/ InStream(s = 2 /\ Stream!Attach))
  /\ \A r \in Request : WF_all(\/ InSessions(Handler(r))
                                \/ InStream(r = 1 /\ Stream!Pass)
                                \/ InStream(r = 2 /\ Stream!Browser))

WorkbenchSpec ==
  WorkbenchInit /\ [][InSessions(Next) \/ InStream(Stream!Next)]_all /\ WorkbenchFairness

-----------------------------------------------------------------------------
(* What is shown of a stream: nothing missed that the agent still has, and   *)
(* nothing more than twice unless a socket was opened beside another.        *)
NoGap == Stream!TypeOK /\ Stream!NoGap /\ Stream!ShownAtMostTwice

(* A terminal that is up to date and told of the exit shows the last output. *)
ExitComesLast == Stream!ExitComesLast

(* Everything that waits is served.  A behaviour has steps of one part only, *)
(* so one leads-to per number serves both: of a stream, EventuallyShown of   *)
(* the chunk; of the sessions, ExitNoticed and CloseSettles of the session   *)
(* together: a process that has exited stays exited, and a session that is   *)
(* not settled is orphaned, so where both implications hold both are served. *)
Waits(i) ==
  \/ part = "stream" /\ i <= MaxSeq /\ next >= i
  \/ part = "sessions" /\ i \in Session /\ (Exited(i) \/ Orphaned(i))
Served(i) ==
  \/ part = "stream" /\ i <= MaxSeq /\ Stream!ShownOrGone(i)
  \/ part = "sessions" /\ i \in Session
       /\ (Exited(i) => Noticed(i)) /\ (Orphaned(i) => Settled(i))
WaitersAreServed == \A i \in 1..2 : Waits(i) ~> Served(i)
ASSUME NumbersSuffice == MaxSeq <= 2 /\ MaxSession = 2 /\ MaxRequest >= 2
=============================================================================
