---------------------------- MODULE TerminalStream ----------------------------
(***************************************************************************)
(* The output of one terminal session, from the shell to the browser        *)
(* (agent/src: terminal_pty.rs, terminal_buffer.rs, terminal_ws.rs; apps/web *)
(* terminal-ws-hook.ts and terminal-store.ts).                              *)
(*                                                                          *)
(* A reader thread numbers what the shell writes, keeps the newest chunks in *)
(* a ring buffer and, after that and without a lock, broadcasts each one.   *)
(* A websocket task subscribes to the broadcast, answers the browser's      *)
(* attach with a snapshot of the ring since the number the browser saw      *)
(* last, and passes on the chunks it receives once attached.  It reads the  *)
(* browser's message and the broadcast in either order, and gives up the    *)
(* connection when it falls behind the broadcast's slots.  The browser      *)
(* reconnects until it is told that the process exited.                     *)
(*                                                                          *)
(* The page remembers one socket, its handle's, and opens no second one     *)
(* while that is connecting or open.  But it does so beside one that is     *)
(* closing, and whichever socket closes, the handle forgets the one it has; *)
(* so two may be open at once and both write to the terminal.               *)
(*                                                                          *)
(* Only frames that carry output, and the exit, are modelled: the idle,     *)
(* rename and agent frames share the channel and change nothing here.       *)
(***************************************************************************)
EXTENDS Integers, Sequences

CONSTANTS
    Socket,     \* the page's sockets; one that has closed is used again
    MaxSeq,     \* bound on the chunks the shell writes
    Sizes,      \* the sizes a chunk may have
    Capacity,   \* RingBuffer::capacity_bytes
    ChanCap,    \* slots of the broadcast channel (1024 in the code)
    WireCap,    \* frames the network takes before a send waits
    MaxFault,   \* bound on lost connections, changes of the URL and page reloads
    None        \* no attach under way; no socket

SizeAssumption ==
    /\ MaxSeq \in Nat /\ MaxFault \in Nat
    /\ Sizes \subseteq Nat \ {0} /\ Capacity \in Nat
    /\ ChanCap \in Nat \ {0} /\ WireCap \in Nat \ {0}
    /\ Socket # {} /\ None \notin Socket

VARIABLES
    \* the session in the agent
    next,      \* next_seq: the last number given out
    ring,      \* sizes of the chunks retained; the last one is number next
    reader,    \* what the reader thread does next
    inMap,     \* whether the session is in terminal_sessions
    \* the websocket task of each socket
    srv,       \* "none", "checked", "serving"
    attached,
    rx,        \* its broadcast receiver
    lagged,    \* the receiver lost frames
    \* the network of each socket
    attach,    \* attach message under way: its last_seq
    wire,      \* frames under way to the browser
    \* the browser
    ws,        \* of each socket: "closed", "connecting", "open", "closing"
    heard,     \* of each socket: whether it brought a snapshot, the exit
    handle,    \* handle.ws
    last,      \* lastSeqById; 0 for none
    shown,     \* how often each chunk was written to the terminal
    beside,    \* ghost: a socket was opened beside one that was not closing
    faults

session == <<next, ring, reader, inMap>>
server  == <<srv, attached, rx, lagged>>
network == <<attach, wire>>
page    == <<handle, last, shown, beside>>
browser == <<ws, heard, page>>
vars    == <<session, server, network, browser, faults>>

Seqno == 1..MaxSeq
Frame == [kind : {"chunk", "snapshot", "exit"}, from : 1..MaxSeq + 1, to : 0..MaxSeq]

Chunk(s) == [kind |-> "chunk", from |-> s, to |-> s]
Exit     == [kind |-> "exit", from |-> 1, to |-> 0]

TypeOK ==
    /\ next \in 0..MaxSeq
    /\ ring \in Seq(Sizes) /\ Len(ring) <= next
    /\ reader \in {"read", "send", "remove", "exit", "done"}
    /\ inMap \in BOOLEAN
    /\ srv \in [Socket -> {"none", "checked", "serving"}]
    /\ attached \in [Socket -> BOOLEAN] /\ lagged \in [Socket -> BOOLEAN]
    /\ rx \in [Socket -> Seq(Frame)] /\ \A c \in Socket : Len(rx[c]) <= ChanCap
    /\ attach \in [Socket -> 0..MaxSeq \cup {None}]
    /\ wire \in [Socket -> Seq(Frame)] /\ \A c \in Socket : Len(wire[c]) <= WireCap
    /\ ws \in [Socket -> {"closed", "connecting", "open", "closing"}]
    /\ heard \in [Socket -> SUBSET {"snapshot", "exit"}]
    /\ handle \in Socket \cup {None}
    /\ last \in 0..MaxSeq
    /\ shown \in [Seqno -> Nat]
    /\ beside \in BOOLEAN
    /\ faults \in 0..MaxFault

OfSockets(x) == [c \in Socket |-> x]

Init ==
    /\ next = 0 /\ ring = <<>> /\ reader = "read" /\ inMap = TRUE
    /\ srv = OfSockets("none") /\ attached = OfSockets(FALSE)
    /\ rx = OfSockets(<<>>) /\ lagged = OfSockets(FALSE)
    /\ attach = OfSockets(None) /\ wire = OfSockets(<<>>)
    /\ ws = OfSockets("closed") /\ heard = OfSockets({})
    /\ handle = None /\ last = 0 /\ shown = [s \in Seqno |-> 0] /\ beside = FALSE
    /\ faults = 0

-----------------------------------------------------------------------------
(* The ring buffer *)

Total(s) == LET sum[i \in 0..Len(s)] == IF i = 0 THEN 0 ELSE sum[i - 1] + s[i]
            IN  sum[Len(s)]

\* The oldest chunks go until the rest fits, but never the newest one.
Evict(s) ==
    LET Rest(k)  == SubSeq(s, k, Len(s))
        Enough(k) == k = Len(s) \/ Total(Rest(k)) <= Capacity
    IN  Rest(CHOOSE k \in 1..Len(s) : Enough(k) /\ \A j \in 1..k - 1 : ~Enough(j))

Oldest == next - Len(ring) + 1

\* (faulty variant: one chunk past what the browser has)
SnapshotPast(ls) ==
    LET start == IF ring # <<>> /\ ls + 1 >= Oldest THEN ls + 1 ELSE 0
    IN  IF start >= next
        THEN [kind |-> "snapshot", from |-> next + 1, to |-> next]
        ELSE [kind |-> "snapshot",
              from |-> IF start + 1 > Oldest THEN start + 1 ELSE Oldest,
              to   |-> next]

\* RingBuffer::snapshot_since: what follows ls, or all of it when chunks
\* after ls are gone.
SnapshotSince(ls) ==
    LET known == ls > 0 /\ ring # <<>> /\ ls + 1 >= Oldest
        start == IF known THEN ls ELSE 0
    IN  IF ring = <<>> \/ start >= next
        THEN [kind |-> "snapshot", from |-> start + 1, to |-> start]
        ELSE [kind |-> "snapshot",
              from |-> IF start + 1 > Oldest THEN start + 1 ELSE Oldest,
              to   |-> next]

-----------------------------------------------------------------------------
(* The reader thread *)

\* broadcast::Sender::send: a receiver that has no slot left loses its oldest
\* frame and finds out at its next recv.
Full(c) == Len(rx[c]) >= ChanCap

Broadcast(f) ==
    /\ rx' = [c \in Socket |-> IF srv[c] # "serving" THEN rx[c]
                               ELSE Append(IF Full(c) THEN Tail(rx[c]) ELSE rx[c], f)]
    /\ lagged' = [c \in Socket |-> lagged[c] \/ (srv[c] = "serving" /\ Full(c))]

Read ==
    /\ reader = "read" /\ next < MaxSeq
    /\ \E size \in Sizes : ring' = Evict(Append(ring, size))
    /\ next' = next + 1
    /\ reader' = "send"
    /\ UNCHANGED <<inMap, server, network, browser, faults>>

SendChunk ==
    /\ reader = "send"
    /\ reader' = "read"
    /\ Broadcast(Chunk(next))
    /\ UNCHANGED <<next, ring, inMap, srv, attached, network, browser, faults>>

\* (faulty variant: the end of the output overtakes its last chunk)
ReadEndUnflushed ==
    /\ reader \in {"read", "send"}
    /\ reader' = "remove"
    /\ UNCHANGED <<next, ring, inMap, server, network, browser, faults>>

\* The shell has closed its terminal; the child is reaped and its row written
\* before the session leaves the map.
ReadEnd ==
    /\ reader = "read"
    /\ reader' = "remove"
    /\ UNCHANGED <<next, ring, inMap, server, network, browser, faults>>

Remove ==
    /\ reader = "remove"
    /\ inMap' = FALSE
    /\ reader' = "exit"
    /\ UNCHANGED <<next, ring, server, network, browser, faults>>

SendExit ==
    /\ reader = "exit"
    /\ reader' = "done"
    /\ Broadcast(Exit)
    /\ UNCHANGED <<next, ring, inMap, srv, attached, network, browser, faults>>

\* Another device of the owner closes the session: the shell is killed, and
\* what it wrote before that is still read.
CloseSession ==
    /\ inMap
    /\ inMap' = FALSE
    /\ UNCHANGED <<next, ring, reader, server, network, browser, faults>>
-----------------------------------------------------------------------------
(* The websocket task of a socket *)

Room(c) == Len(wire[c]) < WireCap

Quit(c) ==
    /\ srv' = [srv EXCEPT ![c] = "none"] /\ attached' = [attached EXCEPT ![c] = FALSE]
    /\ rx' = [rx EXCEPT ![c] = <<>>] /\ lagged' = [lagged EXCEPT ![c] = FALSE]

\* The upgraded connection looks the session up again, then subscribes.
Upgraded(c) ==
    /\ srv[c] = "checked"
    /\ \/ inMap /\ srv' = [srv EXCEPT ![c] = "serving"] /\ UNCHANGED <<attached, rx, lagged>>
       \/ ~inMap /\ Quit(c)
    /\ UNCHANGED <<session, network, browser, faults>>

\* (faulty variant: live chunks only, without the snapshot)
AttachWithoutReplay(c) ==
    /\ srv[c] = "serving" /\ ~attached[c] /\ attach[c] # None /\ Room(c)
    /\ attached' = [attached EXCEPT ![c] = TRUE]
    /\ attach' = [attach EXCEPT ![c] = None]
    /\ UNCHANGED <<session, srv, rx, lagged, wire, browser, faults>>

ServeAttach(c) ==
    /\ srv[c] = "serving" /\ ~attached[c] /\ attach[c] # None /\ Room(c)
    /\ attached' = [attached EXCEPT ![c] = TRUE]
    /\ attach' = [attach EXCEPT ![c] = None]
    /\ wire' = [wire EXCEPT ![c] = Append(@, SnapshotSince(attach[c]))]
    /\ UNCHANGED <<session, srv, rx, lagged, browser, faults>>

\* RecvError::Lagged: the task drops its subscriber.
RecvLagged(c) ==
    /\ srv[c] = "serving" /\ lagged[c]
    /\ Quit(c)
    /\ UNCHANGED <<session, network, browser, faults>>

\* Chunks received before the attach are skipped, the exit is not.
RecvFrame(c) ==
    /\ srv[c] = "serving" /\ ~lagged[c] /\ rx[c] # <<>>
    /\ IF ~attached[c] /\ Head(rx[c]).kind = "chunk"
       THEN UNCHANGED wire
       ELSE Room(c) /\ wire' = [wire EXCEPT ![c] = Append(@, Head(rx[c]))]
    /\ IF Head(rx[c]).kind = "exit" THEN Quit(c)
       ELSE rx' = [rx EXCEPT ![c] = Tail(@)] /\ UNCHANGED <<srv, attached, lagged>>
    /\ UNCHANGED <<session, attach, browser, faults>>

-----------------------------------------------------------------------------
(* The browser *)

\* readyState below CLOSING.
Live(c) == ws[c] \in {"connecting", "open"}

\* A retry after a socket has closed, or the effect of a tab that is shown or
\* of the bumped nonce: unless the handle's socket is connecting or open.  A
\* session that is not in the map is answered 410 and tried again later; that
\* the exit frame sets closedByUser only stops such tries.
Connect ==
    /\ inMap /\ \E c \in Socket : ws[c] = "closed"
    /\ handle # None => ws[handle] = "closing"
    /\ LET c == CHOOSE d \in Socket : ws[d] = "closed"
       IN  /\ ws' = [ws EXCEPT ![c] = "connecting"]
           /\ srv' = [srv EXCEPT ![c] = "checked"]
           /\ handle' = c
    /\ beside' = (beside \/ \E d \in Socket : Live(d))
    /\ UNCHANGED <<session, attached, rx, lagged, network, heard, last, shown, faults>>

OnOpen(c) ==
    /\ ws[c] = "connecting"
    /\ ws' = [ws EXCEPT ![c] = "open"]
    /\ attach' = [attach EXCEPT ![c] = last]
    /\ UNCHANGED <<session, server, wire, heard, page, faults>>

\* (faulty variants: the number to come next; the number of the frame, even a
\* lower one)
SetLastSeqNext(s) == last' = IF s >= last THEN s + 1 ELSE last

SetLastSeqBack(s) == last' = s

\* setLastSeq never goes back.
SetLastSeq(s) == last' = IF s > last THEN s ELSE last

OnMessage(c) ==
    /\ ws[c] = "open" /\ wire[c] # <<>>
    /\ LET f == Head(wire[c]) IN
       /\ shown' = [s \in Seqno |-> shown[s] + IF s \in f.from..f.to THEN 1 ELSE 0]
       /\ IF f.kind = "exit" THEN UNCHANGED last ELSE SetLastSeq(f.to)
       /\ heard' = [heard EXCEPT ![c] = @ \cup ({f.kind} \ {"chunk"})]
    /\ wire' = [wire EXCEPT ![c] = Tail(@)]
    /\ UNCHANGED <<session, server, attach, ws, handle, beside, faults>>

\* The socket stops: what is under way on it is lost, either way.
Lose(c) ==
    /\ Quit(c)
    /\ attach' = [attach EXCEPT ![c] = None] /\ wire' = [wire EXCEPT ![c] = <<>>]
    /\ heard' = [heard EXCEPT ![c] = {}]

\* The agent's close frame has come, or its connection is at its end.
CloseStarts(c) ==
    /\ ws[c] = "open" /\ wire[c] = <<>> /\ srv[c] = "none"
    /\ ws' = [ws EXCEPT ![c] = "closing"]
    /\ Lose(c)
    /\ UNCHANGED <<session, page, faults>>

\* The tunnel's URL has changed: the page closes its handle's socket, which
\* delivers nothing from then on (a message counts while readyState is OPEN).
OnTunnelUrlChanged ==
    /\ faults < MaxFault /\ handle # None /\ Live(handle)
    /\ faults' = faults + 1
    /\ ws' = [ws EXCEPT ![handle] = "closing"]
    /\ Lose(handle)
    /\ UNCHANGED <<session, page>>

\* Whichever socket it is, the handle's is forgotten.
OnClose(c) ==
    /\ ws[c] = "closing"
    /\ ws' = [ws EXCEPT ![c] = "closed"]
    /\ handle' = None
    /\ UNCHANGED <<session, server, network, heard, last, shown, beside, faults>>

\* The connection is lost: readyState is CLOSED when onclose runs.
Drop(c) ==
    /\ Live(c) /\ faults < MaxFault
    /\ faults' = faults + 1
    /\ Lose(c)
    /\ ws' = [ws EXCEPT ![c] = "closed"]
    /\ handle' = None
    /\ UNCHANGED <<session, last, shown, beside>>

\* The page is loaded again: terminal and numbers start afresh.
Reload ==
    /\ faults < MaxFault
    /\ faults' = faults + 1
    /\ srv' = OfSockets("none") /\ attached' = OfSockets(FALSE)
    /\ rx' = OfSockets(<<>>) /\ lagged' = OfSockets(FALSE)
    /\ attach' = OfSockets(None) /\ wire' = OfSockets(<<>>)
    /\ ws' = OfSockets("closed") /\ heard' = OfSockets({})
    /\ handle' = None /\ last' = 0 /\ shown' = [s \in Seqno |-> 0] /\ beside' = FALSE
    /\ UNCHANGED session

-----------------------------------------------------------------------------
Reader  == SendChunk \/ Remove \/ SendExit
Attach  == \E c \in Socket : ServeAttach(c)
Pass    == \E c \in Socket : Upgraded(c) \/ RecvLagged(c) \/ RecvFrame(c)
Browser == Connect \/ \E c \in Socket : OnOpen(c) \/ OnMessage(c) \/ CloseStarts(c) \/ OnClose(c)
Fault   == OnTunnelUrlChanged \/ Reload \/ \E c \in Socket : Drop(c)

Next ==
    \/ Read \/ ReadEnd \/ CloseSession
    \/ Reader
    \/ Attach \/ Pass
    \/ Browser
    \/ Fault

Spec == Init /\ [][Next]_vars

\* Threads, the task and the page keep running; the task's select takes
\* neither of its branches for ever.  What the shell does is up to it.
Fairness ==
    WF_vars(Reader) /\ WF_vars(Attach) /\ WF_vars(Pass) /\ WF_vars(Browser)

LiveSpec == Spec /\ Fairness

-----------------------------------------------------------------------------
(* Properties *)

\* The terminal misses no output the agent still has: up to the number the
\* browser asks from next time, every chunk was written or has left the
\* ring (snapshot_since, and a lagging subscriber is dropped).
NoGap == \A s \in 1..last : shown[s] > 0 \/ s < Oldest

\* However often the connection is lost, and though the page opens a socket
\* while the one before is closing, no chunk is written to the same terminal
\* more than twice, once by a snapshot and once live: unless the page has
\* opened a socket beside one it forgot.
ShownAtMostTwice == ~beside => \A s \in Seqno : shown[s] <= 2

\* A terminal that was brought up to date on a socket and then told on it that
\* the process exited shows the last thing the process wrote (terminal_pty.rs
\* sends the exit after every chunk).
ExitComesLast == \A c \in Socket : heard[c] = {"snapshot", "exit"} => last = next

ShownOrGone(s) == shown[s] > 0 \/ s < Oldest \/ ~inMap

\* While the session is listed, what the shell writes is shown in the end or
\* pushed out by newer output, whatever falls behind or breaks
\* (terminal_ws.rs "PTY keeps running for others", and the reconnection).
EventuallyShown == \A s \in Seqno : next >= s ~> ShownOrGone(s)

\* terminal_ws.rs:147, "Skip live chunks until the client has attached, so
\* replay isn't duplicated": no chunk is written twice.
ReplayNotDuplicated == \A s \in Seqno : shown[s] <= 1

=============================================================================
