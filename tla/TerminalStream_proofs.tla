------------------------ MODULE TerminalStream_proofs ------------------------
(***************************************************************************)
(* Proofs about TerminalStream.                                             *)
(*                                                                          *)
(* None of the three properties is inductive: each is a matter of what is   *)
(* under way between the ring and the terminal.  IInv says where every      *)
(* chunk is.  Of each socket: up to each number the browser asks past, or   *)
(* will ask past after a frame that is under way, a chunk was shown, has    *)
(* left the ring or comes in an earlier frame; up to the newest number      *)
(* broadcast it may also wait in the receiver, unless the receiver lags     *)
(* (Covered).  Queues hold chunks in order, a snapshot only in front        *)
(* (Received, InFlight), and the exit is behind the chunk with the last     *)
(* number (UpToDate).  While no socket was opened beside another, one at    *)
(* most is alive (Alone), and a chunk that may still come live on it was    *)
(* written by a snapshot at most (Counted).                                 *)
(***************************************************************************)
EXTENDS TerminalStream, WellFoundedInduction, TLAPS

-----------------------------------------------------------------------------
(* The operators the stream is built from *)

\* A set of natural numbers that is not empty has a least element.
LEMMA LeastNumber ==
    ASSUME NEW T \in SUBSET Nat, T # {}
    PROVE  \E k \in T : \A j \in T : k <= j
<1> DEFINE Less == {p \in Nat \X Nat : p[1] < p[2]}
<1>1. IsWellFoundedOn(Less, Nat)
    BY NatLessThanWellFounded DEF OpToRel
<1>2. PICK k \in T : \A j \in T : ~ (<<j, k>> \in Less)
    BY <1>1, WFMin
<1>3. \A j \in T : j < k => <<j, k>> \in Less
    OBVIOUS
<1>4. \A j \in T : ~ (j < k)
    BY <1>2, <1>3
<1>5. k \in Nat /\ \A j \in T : j \in Nat
    OBVIOUS
<1>6. \A j \in T : k <= j
    BY <1>4, <1>5
<1>. QED BY <1>6

\* RingBuffer::push: what stays is the end of the buffer, never less than the
\* newest chunk.
LEMMA EvictKeepsNewest ==
    ASSUME NEW s \in Seq(Sizes), s # <<>>
    PROVE  Evict(s) \in Seq(Sizes) /\ Len(Evict(s)) \in 1..Len(s)
<1> DEFINE Enough(k) == k = Len(s) \/ Total(SubSeq(s, k, Len(s))) <= Capacity
           First(k) == Enough(k) /\ \A j \in 1..k - 1 : ~Enough(j)
           kept == CHOOSE k \in 1..Len(s) : First(k)
<1>1. Evict(s) = SubSeq(s, kept, Len(s))
    BY DEF Evict
<1>2. \E k \in 1..Len(s) : First(k)
  <2> DEFINE T == {k \in 1..Len(s) : Enough(k)}
  <2>1. T \in SUBSET Nat /\ T # {}
      OBVIOUS
  <2>2. PICK k \in T : \A j \in T : k <= j
      BY <2>1, LeastNumber
  <2>. QED BY <2>2
<1>3. kept \in 1..Len(s)
    BY <1>2
<1> HIDE DEF kept
<1>. QED BY <1>1, <1>3

\* What snapshot_since answers is a frame.
LEMMA SnapshotType ==
    ASSUME SizeAssumption, TypeOK, NEW ls \in 0..MaxSeq
    PROVE  SnapshotSince(ls) \in Frame
  BY DEF SizeAssumption, SnapshotSince, Oldest, TypeOK, Frame

-----------------------------------------------------------------------------
(* Types *)

\* An array with one element changed.
LEMMA ExceptType ==
    ASSUME NEW S, NEW D, NEW g \in [D -> S], NEW c \in D, NEW v \in S
    PROVE  /\ [g EXCEPT ![c] = v] \in [D -> S]
           /\ [g EXCEPT ![c] = v][c] = v
           /\ \A d \in D : d # c => [g EXCEPT ![c] = v][d] = g[d]
  OBVIOUS

LEMMA BroadcastType ==
    ASSUME SizeAssumption, TypeOK, NEW f \in Frame, Broadcast(f)
    PROVE  rx' \in [Socket -> Seq(Frame)] /\ \A c \in Socket : Len(rx'[c]) <= ChanCap
<1> USE DEF SizeAssumption
<1>1. /\ rx' = [c \in Socket |-> IF srv[c] # "serving" THEN rx[c]
                                 ELSE Append(IF Full(c) THEN Tail(rx[c]) ELSE rx[c], f)]
      /\ \A c \in Socket : rx[c] \in Seq(Frame) /\ Len(rx[c]) <= ChanCap
    BY DEF Broadcast, TypeOK
<1>2. ASSUME NEW c \in Socket
      PROVE  rx'[c] \in Seq(Frame) /\ Len(rx'[c]) <= ChanCap
  <2>1. CASE srv[c] # "serving"
      BY <1>1, <2>1
  <2>2. CASE srv[c] = "serving" /\ ~Full(c)
    <3>1. rx'[c] = Append(rx[c], f)
        BY <1>1, <2>2
    <3>. QED BY <1>1, <2>2, <3>1 DEF Full
  <2>3. CASE srv[c] = "serving" /\ Full(c)
    <3>1. rx'[c] = Append(Tail(rx[c]), f)
        BY <1>1, <2>3
    <3>2. rx[c] # <<>>
        BY <1>1, <2>3 DEF Full
    <3>3. Tail(rx[c]) \in Seq(Frame) /\ Len(Tail(rx[c])) = Len(rx[c]) - 1
        BY <1>1, <3>2
    <3>. QED BY <1>1, <3>1, <3>3
  <2>. QED BY <2>1, <2>2, <2>3
<1>. QED BY <1>1, <1>2

\* The end of a websocket task, seen from each socket.
LEMMA QuitFacts ==
    ASSUME TypeOK, NEW c \in Socket, Quit(c)
    PROVE  /\ srv'[c] = "none" /\ ~attached'[c] /\ rx'[c] = <<>> /\ ~lagged'[c]
           /\ \A d \in Socket : d # c => UNCHANGED <<srv[d], attached[d], rx[d], lagged[d]>>
           /\ srv' \in [Socket -> {"none", "checked", "serving"}]
           /\ rx' \in [Socket -> Seq(Frame)]
           /\ attached' \in [Socket -> BOOLEAN] /\ lagged' \in [Socket -> BOOLEAN]
<1>1. /\ srv \in [Socket -> {"none", "checked", "serving"}] /\ rx \in [Socket -> Seq(Frame)]
      /\ attached \in [Socket -> BOOLEAN] /\ lagged \in [Socket -> BOOLEAN]
    BY DEF TypeOK
<1>2. /\ srv' = [srv EXCEPT ![c] = "none"] /\ attached' = [attached EXCEPT ![c] = FALSE]
      /\ rx' = [rx EXCEPT ![c] = <<>>] /\ lagged' = [lagged EXCEPT ![c] = FALSE]
    BY DEF Quit
<1>3. <<>> \in Seq(Frame) /\ FALSE \in BOOLEAN
    OBVIOUS
<1>. QED BY <1>1, <1>2, <1>3

\* What RecvFrame does to the two queues.
LEMMA RecvFrameCases ==
    ASSUME TypeOK, NEW c \in Socket, RecvFrame(c)
    PROVE  /\ srv[c] = "serving" /\ rx[c] # <<>> /\ ~lagged[c]
           /\ \/ ~attached[c] /\ Head(rx[c]).kind = "chunk" /\ UNCHANGED wire
              \/ /\ Room(c) /\ wire' = [wire EXCEPT ![c] = Append(wire[c], Head(rx[c]))]
                 /\ attached[c] \/ Head(rx[c]).kind # "chunk"
           /\ \/ Head(rx[c]).kind = "exit" /\ Quit(c)
              \/ /\ Head(rx[c]).kind # "exit" /\ rx' = [rx EXCEPT ![c] = Tail(rx[c])]
                 /\ UNCHANGED <<srv, attached, lagged>>
           /\ UNCHANGED <<session, attach, browser, faults>>
  BY Zenon DEF RecvFrame

\* Variables of the session, of the tasks, of the network and of the page.
SessionOK ==
    /\ next \in 0..MaxSeq
    /\ ring \in Seq(Sizes) /\ Len(ring) <= next
    /\ reader \in {"read", "send", "remove", "exit", "done"}
    /\ inMap \in BOOLEAN
ServerOK ==
    /\ srv \in [Socket -> {"none", "checked", "serving"}]
    /\ attached \in [Socket -> BOOLEAN] /\ lagged \in [Socket -> BOOLEAN]
    /\ rx \in [Socket -> Seq(Frame)] /\ \A c \in Socket : Len(rx[c]) <= ChanCap
NetworkOK ==
    /\ attach \in [Socket -> 0..MaxSeq \cup {None}]
    /\ wire \in [Socket -> Seq(Frame)] /\ \A c \in Socket : Len(wire[c]) <= WireCap
BrowserOK ==
    /\ ws \in [Socket -> {"closed", "connecting", "open", "closing"}]
    /\ heard \in [Socket -> SUBSET {"snapshot", "exit"}]
    /\ handle \in Socket \cup {None}
    /\ last \in 0..MaxSeq
    /\ shown \in [Seqno -> Nat]
    /\ beside \in BOOLEAN
    /\ faults \in 0..MaxFault

LEMMA TypeSplit == TypeOK <=> SessionOK /\ ServerOK /\ NetworkOK /\ BrowserOK
  BY DEF TypeOK, SessionOK, ServerOK, NetworkOK, BrowserOK

THEOREM TypeInit == SizeAssumption /\ Init => TypeOK
<1> SUFFICES ASSUME SizeAssumption, Init PROVE TypeOK
    OBVIOUS
<1>1. SessionOK
    BY DEF SizeAssumption, Init, SessionOK
<1>2. ServerOK /\ NetworkOK
    BY DEF SizeAssumption, Init, OfSockets, ServerOK, NetworkOK
<1>3. BrowserOK
  <2>1. /\ ws = OfSockets("closed") /\ heard = OfSockets({}) /\ handle = None /\ last = 0
        /\ shown = [s \in Seqno |-> 0] /\ beside = FALSE /\ faults = 0
      BY DEF Init
  <2>2. OfSockets("closed") \in [Socket -> {"closed", "connecting", "open", "closing"}]
      BY DEF OfSockets
  <2>3. OfSockets({}) \in [Socket -> SUBSET {"snapshot", "exit"}]
      BY DEF OfSockets
  <2>4. beside \in BOOLEAN
      BY <2>1, Zenon
  <2>5. last \in 0..MaxSeq /\ shown \in [Seqno -> Nat] /\ faults \in 0..MaxFault
      BY <2>1 DEF SizeAssumption
  <2>. QED BY <2>1, <2>2, <2>3, <2>4, <2>5, Zenon DEF BrowserOK
<1>. QED BY <1>1, <1>2, <1>3, TypeSplit

\* What is about to be broadcast has a number.
Numbered == reader = "send" => next > 0

LEMMA NumberedStep ==
    ASSUME TypeOK, Numbered, [Next]_vars
    PROVE  Numbered'
<1>1. CASE Read
    BY <1>1 DEF Read, Numbered, TypeOK
<1>2. CASE reader' # "send" \/ UNCHANGED <<next, reader>>
    BY <1>2 DEF Numbered
<1>3. CASE SendChunk \/ SendExit \/ ReadEnd \/ Remove
  <2>1. reader' # "send"
      BY <1>3 DEF SendChunk, SendExit, ReadEnd, Remove
  <2>. QED BY <2>1, <1>2
<1>4. CASE CloseSession \/ Pass \/ Attach \/ Browser \/ Fault \/ UNCHANGED vars
  <2>1. UNCHANGED <<next, reader>>
      BY <1>4, Zenon DEF CloseSession, Upgraded, ServeAttach, RecvLagged, RecvFrame, Connect, OnOpen,
         OnMessage, CloseStarts, OnTunnelUrlChanged, OnClose, Drop, Reload, Fault, Pass, Attach,
         Browser, session, vars
  <2>. QED BY <2>1, <1>2
<1>. QED
    BY <1>1, <1>3, <1>4 DEF Next, Reader

LEMMA SessionType ==
    ASSUME SizeAssumption, TypeOK, [Next]_vars
    PROVE  SessionOK'
<1>0. SessionOK
    BY TypeSplit
<1>1. CASE Read
  <2>1. PICK size \in Sizes : ring' = Evict(Append(ring, size))
      BY <1>1 DEF Read
  <2> DEFINE longer == Append(ring, size)
  <2>2. ring \in Seq(Sizes) /\ Len(ring) <= next /\ next \in Nat /\ MaxSeq \in Nat
      BY <1>0 DEF SessionOK, SizeAssumption
  <2>3. longer \in Seq(Sizes) /\ longer # <<>> /\ Len(longer) = Len(ring) + 1
      BY <2>2
  <2>4. Evict(longer) \in Seq(Sizes) /\ Len(Evict(longer)) \in 1..Len(longer)
      BY <2>3, EvictKeepsNewest
  <2> HIDE DEF longer
  <2>5. ring' \in Seq(Sizes) /\ Len(ring') <= next + 1
      BY <2>1, <2>2, <2>3, <2>4 DEF longer
  <2>6. next' = next + 1 /\ next < MaxSeq /\ reader' = "send" /\ inMap' = inMap
      BY <1>1 DEF Read
  <2>. QED BY <1>0, <2>2, <2>5, <2>6 DEF SessionOK
<1>2. CASE SendChunk \/ ReadEnd \/ Remove \/ SendExit \/ CloseSession
    BY <1>0, <1>2 DEF SendChunk, ReadEnd, Remove, SendExit, CloseSession, SessionOK
<1>3. CASE Pass \/ Attach \/ Browser \/ Fault \/ UNCHANGED vars
  <2>1. UNCHANGED session
      BY <1>3, Zenon DEF Upgraded, ServeAttach, RecvLagged, RecvFrame, Connect, OnOpen,
         OnMessage, CloseStarts, OnTunnelUrlChanged, OnClose, Drop, Reload, Fault, Pass, Attach,
         Browser, vars
  <2>2. UNCHANGED <<next, ring, reader, inMap>>
      BY <2>1 DEF session
  <2>. QED BY <1>0, <2>2 DEF SessionOK
<1>. QED
    BY <1>1, <1>2, <1>3 DEF Next, Reader

LEMMA ServerType ==
    ASSUME SizeAssumption, TypeOK, Numbered, [Next]_vars
    PROVE  ServerOK'
<1>0. ServerOK
    BY TypeSplit
<1>1. ASSUME UNCHANGED server
      PROVE  ServerOK'
    BY <1>0, <1>1 DEF ServerOK, server
<1>2. ASSUME NEW f \in Frame, Broadcast(f), UNCHANGED <<srv, attached>>
      PROVE  ServerOK'
  <2>1. lagged' = [c \in Socket |-> lagged[c] \/ (srv[c] = "serving" /\ Full(c))]
      BY <1>2 DEF Broadcast
  <2>2. \A c \in Socket : (lagged[c] \/ (srv[c] = "serving" /\ Full(c))) \in BOOLEAN
      BY Zenon
  <2>3. lagged' \in [Socket -> BOOLEAN]
      BY <2>1, <2>2, Zenon
  <2>4. rx' \in [Socket -> Seq(Frame)] /\ \A c \in Socket : Len(rx'[c]) <= ChanCap
      BY <1>2, BroadcastType
  <2>. QED BY <1>0, <1>2, <2>3, <2>4 DEF ServerOK
<1>3. ASSUME NEW c \in Socket, Quit(c)
      PROVE  ServerOK'
  <2>1. /\ rx'[c] = <<>> /\ \A d \in Socket : d # c => rx'[d] = rx[d]
        /\ srv' \in [Socket -> {"none", "checked", "serving"}]
        /\ rx' \in [Socket -> Seq(Frame)]
        /\ attached' \in [Socket -> BOOLEAN] /\ lagged' \in [Socket -> BOOLEAN]
      BY <1>3, QuitFacts
  <2>2. ASSUME NEW d \in Socket PROVE Len(rx'[d]) <= ChanCap
    <3>1. CASE d = c
      <4>1. Len(rx'[d]) = 0 /\ ChanCap \in Nat
          BY <2>1, <3>1 DEF SizeAssumption
      <4>. QED BY <4>1
    <3>2. CASE d # c
        BY <1>0, <2>1, <3>2 DEF ServerOK
    <3>. QED BY <3>1, <3>2
  <2>. QED BY <2>1, <2>2 DEF ServerOK
<1>4. CASE SendChunk \/ SendExit
  <2>1. SendExit => Exit \in Frame
      BY DEF Exit, Frame, SizeAssumption
  <2>2. SendChunk => Chunk(next) \in Frame
      BY DEF Chunk, Frame, SizeAssumption, SendChunk, Numbered, TypeOK
  <2>. QED BY <1>2, <1>4, <2>1, <2>2 DEF SendChunk, SendExit
<1>5. ASSUME NEW c \in Socket, Upgraded(c)
      PROVE  ServerOK'
  <2>1. CASE srv' = [srv EXCEPT ![c] = "serving"] /\ UNCHANGED <<attached, rx, lagged>>
      BY <1>0, <2>1 DEF ServerOK
  <2>. QED BY <1>3, <1>5, <2>1 DEF Upgraded
<1>6. ASSUME NEW c \in Socket, ServeAttach(c)
      PROVE  ServerOK'
    BY <1>0, <1>6 DEF ServerOK, ServeAttach
<1>7. ASSUME NEW c \in Socket, RecvLagged(c) \/ Drop(c) \/ CloseStarts(c)
      PROVE  ServerOK'
    BY <1>3, <1>7 DEF RecvLagged, Drop, CloseStarts, Lose
<1>8. ASSUME NEW c \in Socket, RecvFrame(c)
      PROVE  ServerOK'
  <2>1. CASE rx' = [rx EXCEPT ![c] = Tail(rx[c])] /\ UNCHANGED <<srv, attached, lagged>>
    <3>1. rx[c] \in Seq(Frame) /\ rx[c] # <<>> /\ Len(rx[c]) <= ChanCap /\ ChanCap \in Nat
        BY <1>0, <1>8, RecvFrameCases DEF ServerOK, SizeAssumption
    <3>2. Tail(rx[c]) \in Seq(Frame) /\ Len(Tail(rx[c])) <= ChanCap
        BY <3>1
    <3>3. rx' \in [Socket -> Seq(Frame)] /\ \A d \in Socket : Len(rx'[d]) <= ChanCap
        BY <1>0, <2>1, <3>2 DEF ServerOK
    <3>. QED BY <1>0, <2>1, <3>3 DEF ServerOK
  <2>2. Quit(c) \/ (rx' = [rx EXCEPT ![c] = Tail(rx[c])] /\ UNCHANGED <<srv, attached, lagged>>)
      BY <1>8, RecvFrameCases
  <2>. QED BY <1>3, <2>1, <2>2
<1>9. CASE Connect
    BY <1>0, <1>9 DEF ServerOK, Connect
<1>10. CASE OnTunnelUrlChanged
  <2>1. handle \in Socket /\ Quit(handle)
      BY <1>10 DEF OnTunnelUrlChanged, Lose, TypeOK
  <2>. QED BY <1>3, <2>1
<1>11. CASE Reload
    BY <1>11 DEF Reload, OfSockets, ServerOK, SizeAssumption
<1>12. CASE Read \/ ReadEnd \/ Remove \/ CloseSession \/ UNCHANGED vars
    BY <1>1, <1>12, Zenon DEF Read, ReadEnd, Remove, CloseSession, vars
<1>13. ASSUME NEW c \in Socket, OnOpen(c) \/ OnMessage(c) \/ OnClose(c)
      PROVE  ServerOK'
    BY <1>1, <1>13, Zenon DEF OnOpen, OnMessage, OnClose
<1>. QED
    BY <1>4, <1>5, <1>6, <1>7, <1>8, <1>9, <1>10, <1>11, <1>12, <1>13
       DEF Next, Reader, Attach, Pass, Browser, Fault

LEMMA NetworkType ==
    ASSUME SizeAssumption, TypeOK, [Next]_vars
    PROVE  NetworkOK'
<1> USE DEF SizeAssumption
<1>0. NetworkOK
    BY TypeSplit
<1>1. ASSUME UNCHANGED <<attach, wire>>
      PROVE  NetworkOK'
    BY <1>0, <1>1 DEF NetworkOK
<1>2. ASSUME NEW c \in Socket, Room(c), NEW f \in Frame,
             wire' = [wire EXCEPT ![c] = Append(wire[c], f)]
      PROVE  wire' \in [Socket -> Seq(Frame)] /\ \A d \in Socket : Len(wire'[d]) <= WireCap
  <2>1. Append(wire[c], f) \in Seq(Frame) /\ Len(Append(wire[c], f)) <= WireCap
      BY <1>0, <1>2 DEF NetworkOK, Room
  <2>. QED BY <1>0, <1>2, <2>1 DEF NetworkOK
<1>3. CASE Read \/ SendChunk \/ SendExit \/ ReadEnd \/ Remove \/ CloseSession \/ Connect \/ UNCHANGED vars
    BY <1>1, <1>3, Zenon DEF Read, SendChunk, SendExit, ReadEnd, Remove, CloseSession, Connect,
       vars, network
<1>4. ASSUME NEW c \in Socket, Upgraded(c) \/ RecvLagged(c) \/ OnClose(c)
      PROVE  NetworkOK'
    BY <1>1, <1>4, Zenon DEF Upgraded, RecvLagged, OnClose, network
<1>5. ASSUME NEW c \in Socket, ServeAttach(c)
      PROVE  NetworkOK'
  <2>1. attach[c] \in 0..MaxSeq
      BY <1>0, <1>5 DEF ServeAttach, NetworkOK
  <2>2. SnapshotSince(attach[c]) \in Frame
      BY <2>1, SnapshotType
  <2>3. wire' \in [Socket -> Seq(Frame)] /\ \A d \in Socket : Len(wire'[d]) <= WireCap
      BY <1>2, <1>5, <2>2 DEF ServeAttach
  <2>4. attach' = [attach EXCEPT ![c] = None]
      BY <1>5 DEF ServeAttach
  <2>. QED BY <1>0, <2>3, <2>4 DEF NetworkOK
<1>6. ASSUME NEW c \in Socket, RecvFrame(c)
      PROVE  NetworkOK'
  <2>1. rx[c] \in Seq(Frame) /\ rx[c] # <<>> /\ attach' = attach
      BY <1>6, RecvFrameCases DEF TypeOK
  <2>2. Head(rx[c]) \in Frame
      BY <2>1
  <2>3. CASE wire' = wire
      BY <1>1, <2>1, <2>3
  <2>4. CASE Room(c) /\ wire' = [wire EXCEPT ![c] = Append(wire[c], Head(rx[c]))]
    <3>1. wire' \in [Socket -> Seq(Frame)] /\ \A d \in Socket : Len(wire'[d]) <= WireCap
        BY <1>2, <2>2, <2>4
    <3>. QED BY <1>0, <2>1, <3>1 DEF NetworkOK
  <2>. QED BY <1>6, <2>3, <2>4, RecvFrameCases
<1>7. ASSUME NEW c \in Socket, OnOpen(c)
      PROVE  NetworkOK'
    BY <1>0, <1>7 DEF OnOpen, NetworkOK, TypeOK
<1>8. ASSUME NEW c \in Socket, OnMessage(c)
      PROVE  NetworkOK'
  <2>1. wire[c] \in Seq(Frame) /\ wire[c] # <<>> /\ Len(wire[c]) <= WireCap
      BY <1>0, <1>8 DEF OnMessage, NetworkOK
  <2>2. Tail(wire[c]) \in Seq(Frame) /\ Len(Tail(wire[c])) <= WireCap
      BY <2>1
  <2>3. wire' = [wire EXCEPT ![c] = Tail(wire[c])] /\ attach' = attach
      BY <1>8 DEF OnMessage
  <2>. QED BY <1>0, <2>2, <2>3 DEF NetworkOK
<1>9. ASSUME NEW c \in Socket, Lose(c)
      PROVE  NetworkOK'
    BY <1>0, <1>9 DEF Lose, NetworkOK
<1>10. ASSUME NEW c \in Socket, Drop(c) \/ CloseStarts(c)
      PROVE  NetworkOK'
    BY <1>9, <1>10 DEF Drop, CloseStarts
<1>11. CASE OnTunnelUrlChanged
  <2>1. handle \in Socket /\ Lose(handle)
      BY <1>11 DEF OnTunnelUrlChanged, TypeOK
  <2>. QED BY <1>9, <2>1
<1>12. CASE Reload
    BY <1>12 DEF Reload, OfSockets, NetworkOK
<1>. QED
    BY <1>3, <1>4, <1>5, <1>6, <1>7, <1>8, <1>10, <1>11, <1>12
       DEF Next, Reader, Attach, Pass, Browser, Fault

LEMMA BrowserType ==
    ASSUME SizeAssumption, TypeOK, [Next]_vars
    PROVE  BrowserOK'
<1> USE DEF SizeAssumption
<1>0. BrowserOK
    BY TypeSplit
<1>1. ASSUME UNCHANGED <<browser, faults>>
      PROVE  BrowserOK'
    BY <1>0, <1>1 DEF BrowserOK, browser, page
<1>2. CASE Read \/ SendChunk \/ SendExit \/ ReadEnd \/ Remove \/ CloseSession \/ UNCHANGED vars
    BY <1>1, <1>2, Zenon DEF Read, SendChunk, SendExit, ReadEnd, Remove, CloseSession, vars
<1>3. ASSUME NEW c \in Socket, Upgraded(c) \/ ServeAttach(c) \/ RecvLagged(c) \/ RecvFrame(c)
      PROVE  BrowserOK'
    BY <1>1, <1>3, Zenon DEF Upgraded, ServeAttach, RecvLagged, RecvFrame
<1>4. CASE Connect
  <2>1. PICK c \in Socket : ws[c] = "closed" /\ ws' = [ws EXCEPT ![c] = "connecting"] /\ handle' = c
      BY <1>4 DEF Connect
  <2>2. beside' \in BOOLEAN
      BY <1>4, Zenon DEF Connect
  <2>3. UNCHANGED <<heard, last, shown, faults>>
      BY <1>4 DEF Connect
  <2>. QED BY <1>0, <2>1, <2>2, <2>3 DEF BrowserOK
<1>5. ASSUME NEW c \in Socket, OnOpen(c)
      PROVE  BrowserOK'
    BY <1>0, <1>5 DEF OnOpen, BrowserOK, page
<1>6. ASSUME NEW c \in Socket, OnMessage(c)
      PROVE  BrowserOK'
  <2>1. wire[c] \in Seq(Frame) /\ wire[c] # <<>>
      BY <1>6 DEF OnMessage, TypeOK
  <2>2. Head(wire[c]) \in Frame
      BY <2>1
  <2> DEFINE f == Head(wire[c])
  <2>3. f.kind \in {"chunk", "snapshot", "exit"} /\ f.to \in 0..MaxSeq
      BY <2>2 DEF Frame
  <2>4. /\ shown' = [s \in Seqno |-> shown[s] + IF s \in f.from..f.to THEN 1 ELSE 0]
        /\ IF f.kind = "exit" THEN UNCHANGED last ELSE SetLastSeq(f.to)
        /\ heard' = [heard EXCEPT ![c] = heard[c] \cup ({f.kind} \ {"chunk"})]
        /\ UNCHANGED <<ws, handle, beside, faults>>
      BY <1>6 DEF OnMessage
  <2> HIDE DEF f
  <2>5. shown' \in [Seqno -> Nat]
      BY <1>0, <2>4 DEF BrowserOK
  <2>6. last' \in 0..MaxSeq
      BY <1>0, <2>3, <2>4 DEF BrowserOK, SetLastSeq
  <2>7. heard[c] \cup ({f.kind} \ {"chunk"}) \in SUBSET {"snapshot", "exit"}
      BY <1>0, <2>3 DEF BrowserOK
  <2>8. heard' \in [Socket -> SUBSET {"snapshot", "exit"}]
      BY <1>0, <2>4, <2>7 DEF BrowserOK
  <2>. QED BY <1>0, <2>4, <2>5, <2>6, <2>8 DEF BrowserOK
<1>7. ASSUME NEW c \in Socket, CloseStarts(c)
      PROVE  BrowserOK'
    BY <1>0, <1>7 DEF CloseStarts, Lose, BrowserOK, page
<1>8. CASE OnTunnelUrlChanged
  <2>1. /\ handle \in Socket /\ heard' = [heard EXCEPT ![handle] = {}]
        /\ ws' = [ws EXCEPT ![handle] = "closing"] /\ faults' = faults + 1 /\ faults < MaxFault
        /\ UNCHANGED <<handle, last, shown, beside>>
      BY <1>8 DEF OnTunnelUrlChanged, Lose, TypeOK, page
  <2>. QED BY <1>0, <2>1 DEF BrowserOK
<1>9. ASSUME NEW c \in Socket, OnClose(c)
      PROVE  BrowserOK'
    BY <1>0, <1>9 DEF OnClose, BrowserOK
<1>10. ASSUME NEW c \in Socket, Drop(c)
      PROVE  BrowserOK'
    BY <1>0, <1>10 DEF Drop, Lose, BrowserOK
<1>11. CASE Reload
  <2>1. /\ ws' = OfSockets("closed") /\ heard' = OfSockets({}) /\ handle' = None /\ last' = 0
        /\ shown' = [s \in Seqno |-> 0] /\ beside' = FALSE
        /\ faults' = faults + 1 /\ faults < MaxFault
      BY <1>11 DEF Reload
  <2>2. OfSockets("closed") \in [Socket -> {"closed", "connecting", "open", "closing"}]
      BY DEF OfSockets
  <2>3. OfSockets({}) \in [Socket -> SUBSET {"snapshot", "exit"}]
      BY DEF OfSockets
  <2>4. beside' \in BOOLEAN
      BY <2>1, Zenon
  <2>5. last' \in 0..MaxSeq /\ shown' \in [Seqno -> Nat] /\ faults' \in 0..MaxFault
      BY <1>0, <2>1 DEF BrowserOK
  <2>. QED BY <2>1, <2>2, <2>3, <2>4, <2>5, Zenon DEF BrowserOK
<1>. QED
    BY <1>2, <1>3, <1>4, <1>5, <1>6, <1>7, <1>8, <1>9, <1>10, <1>11
       DEF Next, Reader, Attach, Pass, Browser, Fault

LEMMA TypedInit == SizeAssumption /\ Init => TypeOK /\ Numbered
  BY TypeInit DEF Init, Numbered

LEMMA TypedStep == SizeAssumption /\ TypeOK /\ Numbered /\ [Next]_vars => TypeOK' /\ Numbered'
<1> SUFFICES ASSUME SizeAssumption, TypeOK, Numbered, [Next]_vars PROVE TypeOK' /\ Numbered'
    OBVIOUS
<1>1. SessionOK' /\ ServerOK' /\ NetworkOK' /\ BrowserOK'
    BY SessionType, ServerType, NetworkType, BrowserType
<1>2. Numbered'
    BY NumberedStep
<1>3. TypeOK'
    BY <1>1 DEF TypeOK, SessionOK, ServerOK, NetworkOK, BrowserOK
<1>. QED BY <1>2, <1>3

\* Every variable keeps its type.
THEOREM TypeCorrect == ASSUME SizeAssumption PROVE Spec => []TypeOK
  BY TypedInit, TypedStep, PTL DEF Spec

-----------------------------------------------------------------------------
(* The inductive invariant *)

\* The highest number that was broadcast.
Sent == IF reader = "send" THEN next - 1 ELSE next

WireIx(c) == 1..Len(wire[c])
RxIx(c)   == 1..Len(rx[c])

\* Chunk s left the ring, was shown, or is in one of the first n frames under
\* way on a socket.
Held(c, s, n) ==
    s < Oldest \/ shown[s] > 0 \/ \E j \in 1..n : s \in wire[c][j].from..wire[c][j].to

\* Where a socket stands: nothing is under way on one that is closed or
\* closing; nothing but the exit is sent before an attach is answered, an attach
\* under way asks for all that the browser misses, and after the exit nothing
\* follows.
Connection(c) ==
    /\ ring = <<>> => next = 0
    /\ last <= next
    /\ ~Live(c) => srv[c] = "none" /\ wire[c] = <<>> /\ attach[c] = None /\ heard[c] = {}
    /\ srv[c] # "serving" => ~attached[c] /\ rx[c] = <<>> /\ ~lagged[c]
    /\ srv[c] # "none" /\ ~attached[c] => wire[c] = <<>> /\ "snapshot" \notin heard[c]
    /\ attach[c] # None \/ ws[c] = "connecting" =>
         ~attached[c] /\ \A i \in WireIx(c) : wire[c][i].kind = "exit"
    /\ attach[c] # None => attach[c] <= last /\ (~beside => attach[c] = last) /\ ws[c] = "open"
    /\ "exit" \in heard[c] => wire[c] = <<>> /\ srv[c] = "none" /\ reader = "done"

\* The receiver holds chunks in the order of their numbers, and the exit after
\* them.
Received(c) ==
    /\ \A i \in RxIx(c) :
         \/ rx[c][i].kind = "chunk" /\ rx[c][i].from = rx[c][i].to /\ rx[c][i].to <= Sent
         \/ rx[c][i] = Exit /\ i = Len(rx[c]) /\ reader = "done"
    /\ \A i, j \in RxIx(c) : i < j /\ rx[c][j].kind = "chunk" => rx[c][i].to < rx[c][j].to

\* So does the network, where a snapshot comes first and has, while no socket
\* is beside another, only chunks that the browser has not seen.
InFlight(c) ==
    /\ \A i \in WireIx(c) :
         \/ wire[c][i].kind = "chunk" /\ wire[c][i].from = wire[c][i].to /\ wire[c][i].to <= Sent
         \/ /\ wire[c][i].kind = "snapshot" /\ i = 1 /\ wire[c][i].to <= next
            /\ ~beside => wire[c][i].from > last
         \/ wire[c][i] = Exit /\ i = Len(wire[c]) /\ reader = "done" /\ srv[c] = "none"
    /\ \A i, j \in WireIx(c) :
         i < j /\ wire[c][i].kind = "chunk" /\ wire[c][j].kind = "chunk"
         => wire[c][i].to < wire[c][j].to
    /\ attached[c] => \A i \in WireIx(c), j \in RxIx(c) :
         wire[c][i].kind = "chunk" /\ rx[c][j].kind = "chunk" => wire[c][i].to < rx[c][j].to

\* While no socket is beside another, a chunk that may still come by itself was
\* shown once at most.
Counted(c) ==
    ~beside => \A s \in Seqno :
      /\ shown[s] <= 2
      /\ shown[s] > 0 => s <= last
      /\ \/ s > Sent
         \/ \E i \in WireIx(c) : wire[c][i] = Chunk(s)
         \/ \E i \in RxIx(c) : rx[c][i] = Chunk(s)
         => shown[s] <= 1

\* What the browser will ask past was shown, is gone, or comes before it does.
Covered(c) ==
    /\ NoGap
    /\ \A i \in WireIx(c) : \A s \in 1..wire[c][i].to : Held(c, s, i)
    /\ attached[c] /\ ~lagged[c] =>
         /\ \A i \in RxIx(c) : \A s \in 1..rx[c][i].to :
              Held(c, s, Len(wire[c])) \/ \E j \in 1..i : rx[c][j] = Chunk(s)
         /\ \A s \in 1..Sent : Held(c, s, Len(wire[c])) \/ \E j \in RxIx(c) : rx[c][j] = Chunk(s)

\* An attached browser is on the way to the newest number, and has it when the
\* exit comes.
UpToDate(c) ==
    /\ attached[c] /\ ~lagged[c] => \/ last >= Sent
                                    \/ \E i \in WireIx(c) : wire[c][i].to >= Sent
                                    \/ \E i \in RxIx(c) : rx[c][i].to >= Sent
    /\ /\ \E i \in WireIx(c) : wire[c][i].kind = "exit"
       /\ "snapshot" \in heard[c] \/ \E i \in WireIx(c) : wire[c][i].kind = "snapshot"
       => last = next \/ \E i \in WireIx(c) : wire[c][i].to = next
    /\ "snapshot" \in heard[c] /\ "exit" \in heard[c] => last = next

IInv(c) == Connection(c) /\ Received(c) /\ InFlight(c) /\ Counted(c) /\ Covered(c) /\ UpToDate(c)

\* Until one socket is opened beside another, one at most is connecting or open.
Alone == ~beside => \A c, d \in Socket : Live(c) /\ Live(d) => c = d

StreamInv == Alone /\ \A c \in Socket : IInv(c)

THEOREM IInvInit == Init => StreamInv
<1> SUFFICES ASSUME Init PROVE StreamInv
    OBVIOUS
<1>1. Alone
    BY DEF Init, OfSockets, Alone, Live
<1>2. ASSUME NEW c \in Socket PROVE IInv(c)
  <2>1. /\ srv[c] = "none" /\ ~attached[c] /\ rx[c] = <<>> /\ ~lagged[c] /\ attach[c] = None
        /\ wire[c] = <<>> /\ ws[c] = "closed" /\ heard[c] = {}
        /\ next = 0 /\ last = 0 /\ shown = [s \in Seqno |-> 0] /\ reader = "read"
      BY DEF Init, OfSockets
  <2>2. WireIx(c) = {} /\ RxIx(c) = {} /\ Sent = 0
      BY <2>1 DEF WireIx, RxIx, Sent
  <2>3. Connection(c)
      BY <2>1, <2>2 DEF Connection
  <2>4. Received(c) /\ InFlight(c)
      BY <2>1, <2>2 DEF Received, InFlight
  <2>5. Counted(c)
      BY <2>1, <2>2 DEF Counted
  <2>6. Covered(c)
      BY <2>1, <2>2 DEF Covered, NoGap
  <2>7. UpToDate(c)
      BY <2>1, <2>2 DEF UpToDate
  <2>. QED BY <2>3, <2>4, <2>5, <2>6, <2>7 DEF IInv
<1>. QED BY <1>1, <1>2 DEF StreamInv

-----------------------------------------------------------------------------
(* A socket that a step leaves alone *)

Same(c) == UNCHANGED <<srv[c], attached[c], rx[c], lagged[c], attach[c], wire[c], ws[c], heard[c]>>

\* Nothing that concerns the socket has changed.
LEMMA OthersRest ==
    ASSUME NEW c \in Socket, IInv(c), Same(c), UNCHANGED <<next, ring, reader, last, shown>>,
           beside => beside'
    PROVE  IInv(c)'
<1> USE DEF IInv
<1>1. /\ srv'[c] = srv[c] /\ attached'[c] = attached[c] /\ rx'[c] = rx[c] /\ lagged'[c] = lagged[c]
      /\ attach'[c] = attach[c] /\ wire'[c] = wire[c] /\ ws'[c] = ws[c] /\ heard'[c] = heard[c]
    BY DEF Same
<1>2. WireIx(c)' = WireIx(c) /\ RxIx(c)' = RxIx(c) /\ Oldest' = Oldest /\ Sent' = Sent
    BY <1>1 DEF WireIx, RxIx, Oldest, Sent
<1>3. Connection(c)'
    BY <1>1, <1>2 DEF Connection, Live
<1>4. Received(c)'
    BY <1>1, <1>2 DEF Received
<1>5. InFlight(c)'
    BY <1>1, <1>2 DEF InFlight
<1>6. Counted(c)'
    BY <1>1, <1>2 DEF Counted
<1>7. Covered(c)'
    BY <1>1, <1>2 DEF Covered, NoGap, Held
<1>8. UpToDate(c)'
    BY <1>1, <1>2 DEF UpToDate
<1>. QED BY <1>3, <1>4, <1>5, <1>6, <1>7, <1>8

(* Queues *)

LEMMA TailFacts ==
    ASSUME NEW c \in Socket, NEW S, NEW q \in Seq(S), q # <<>>
    PROVE  /\ Head(q) = q[1] /\ 1 \in 1..Len(q) /\ Len(q) \in Nat
           /\ Len(Tail(q)) = Len(q) - 1
           /\ \A i \in 1..Len(Tail(q)) : i + 1 \in 1..Len(q) /\ Tail(q)[i] = q[i + 1]
  OBVIOUS

LEMMA AppendFacts ==
    ASSUME NEW c \in Socket, NEW S, NEW q \in Seq(S), NEW e
    PROVE  /\ Len(q) \in Nat /\ Len(Append(q, e)) = Len(q) + 1
           /\ \A i \in 1..Len(q) : Append(q, e)[i] = q[i]
           /\ Append(q, e)[Len(q) + 1] = e
  OBVIOUS

\* A frame under way has the numbers of a frame.
LEMMA FrameNumbers ==
    ASSUME NEW c \in Socket, SizeAssumption, TypeOK
    PROVE  /\ \A i \in WireIx(c) : wire[c][i] \in Frame /\ wire[c][i].to \in Nat /\ wire[c][i].from \in Nat
           /\ \A i \in RxIx(c) : rx[c][i] \in Frame /\ rx[c][i].to \in Nat /\ rx[c][i].from \in Nat
           /\ Len(wire[c]) \in Nat /\ Len(rx[c]) \in Nat
<1>1. wire[c] \in Seq(Frame) /\ rx[c] \in Seq(Frame)
    BY DEF TypeOK
<1>2. \A f \in Frame : f.to \in Nat /\ f.from \in Nat
    BY DEF SizeAssumption, Frame
<1>3. /\ \A i \in WireIx(c) : wire[c][i] \in Frame
      /\ \A i \in RxIx(c) : rx[c][i] \in Frame
      /\ Len(wire[c]) \in Nat /\ Len(rx[c]) \in Nat
    BY <1>1 DEF WireIx, RxIx
<1>. QED BY <1>2, <1>3

-----------------------------------------------------------------------------
(* The steps of the reader thread *)

\* Steps that only move the reader, or take the session out of the map.
LEMMA ReaderRests ==
    ASSUME NEW c \in Socket, IInv(c), ReadEnd \/ Remove \/ CloseSession
    PROVE  IInv(c)'
<1> USE DEF IInv
<1>1. /\ UNCHANGED <<next, ring, server, network, browser>>
      /\ Sent' = Sent /\ (reader = "done" => reader' = "done")
    BY DEF ReadEnd, Remove, CloseSession, Sent
<1>2. UNCHANGED <<srv[c], attached[c], rx[c], lagged[c], attach[c], wire[c], ws[c], last, shown, heard[c], beside>>
    BY <1>1, Zenon DEF server, network, browser, page
<1>3. WireIx(c)' = WireIx(c) /\ RxIx(c)' = RxIx(c) /\ Oldest' = Oldest
    BY <1>1, <1>2 DEF WireIx, RxIx, Oldest
<1>4. Connection(c)'
    BY <1>1, <1>2, <1>3 DEF Connection, Live
<1>5. Received(c)'
    BY <1>1, <1>2, <1>3 DEF Received
<1>6. InFlight(c)'
    BY <1>1, <1>2, <1>3 DEF InFlight
<1>7. Counted(c)'
    BY <1>1, <1>2, <1>3 DEF Counted
<1>8. Covered(c)'
    BY <1>1, <1>2, <1>3 DEF Covered, NoGap, Held
<1>9. UpToDate(c)'
    BY <1>1, <1>2, <1>3 DEF UpToDate
<1>. QED BY <1>4, <1>5, <1>6, <1>7, <1>8, <1>9

LEMMA ReadStep ==
    ASSUME NEW c \in Socket, SizeAssumption, TypeOK, IInv(c), Read
    PROVE  IInv(c)'
<1> USE DEF IInv
<1>1. /\ reader = "read" /\ reader' = "send" /\ next' = next + 1 /\ next \in Nat
      /\ Sent' = next /\ Sent = next
    BY DEF Read, Sent, TypeOK
<1>2. UNCHANGED <<srv[c], attached[c], rx[c], lagged[c], attach[c], wire[c], ws[c], last, shown, heard[c], beside>>
    BY Zenon DEF Read, server, network, browser, page
<1>3. WireIx(c)' = WireIx(c) /\ RxIx(c)' = RxIx(c)
    BY <1>2 DEF WireIx, RxIx
<1>4. ring' # <<>> /\ Oldest \in Int /\ Oldest' \in Int /\ Oldest <= Oldest'
  <2>1. PICK size \in Sizes : ring' = Evict(Append(ring, size))
      BY DEF Read
  <2> DEFINE longer == Append(ring, size)
  <2>2. ring \in Seq(Sizes)
      BY DEF TypeOK
  <2>3. longer \in Seq(Sizes) /\ longer # <<>> /\ Len(longer) = Len(ring) + 1
      BY <2>2, AppendFacts
  <2>4. Evict(longer) \in Seq(Sizes) /\ Len(Evict(longer)) \in 1..Len(longer)
      BY <2>3, EvictKeepsNewest
  <2> HIDE DEF longer
  <2>5. ring' \in Seq(Sizes) /\ Len(ring') \in 1..(Len(ring) + 1)
      BY <2>1, <2>3, <2>4 DEF longer
  <2>. QED BY <1>1, <2>2, <2>5 DEF Oldest
<1>5. Connection(c)'
    BY <1>1, <1>2, <1>3, <1>4 DEF Connection, Live, TypeOK
<1>6. Received(c)'
    BY <1>1, <1>2, <1>3 DEF Received
<1>7. InFlight(c)'
  <2>1. \A i \in WireIx(c) : wire[c][i].to <= next => wire[c][i].to <= next + 1
      BY <1>1, FrameNumbers
  <2>. QED BY <1>1, <1>2, <1>3, <2>1 DEF InFlight
<1>8. Counted(c)'
    BY <1>1, <1>2, <1>3 DEF Counted
<1>9. Covered(c)'
  <2>1. \A s \in Nat, n \in Nat : Held(c, s, n) => Held(c, s, n)'
      BY <1>2, <1>4 DEF Held
  <2>2. NoGap'
      BY <1>2, <1>4 DEF Covered, NoGap
  <2>3. \A i \in WireIx(c) : \A s \in 1..wire[c][i].to : Held(c, s, i)'
      BY <2>1 DEF Covered, WireIx
  <2>4. ASSUME attached[c], ~lagged[c]
        PROVE  /\ \A i \in RxIx(c) : \A s \in 1..rx[c][i].to :
                    Held(c, s, Len(wire[c]))' \/ \E j \in 1..i : rx[c][j] = Chunk(s)
               /\ \A s \in 1..Sent : Held(c, s, Len(wire[c]))' \/ \E j \in RxIx(c) : rx[c][j] = Chunk(s)
      BY <1>2, <2>1, <2>4, FrameNumbers DEF Covered
  <2>. QED BY <1>1, <1>2, <1>3, <2>2, <2>3, <2>4 DEF Covered
<1>10. UpToDate(c)'
    BY <1>1, <1>2, <1>3 DEF UpToDate, InFlight, Connection, Exit
<1>. QED BY <1>5, <1>6, <1>7, <1>8, <1>9, <1>10

\* The frame f is last, behind what was there but for the d oldest frames.
Arrived(c, f, d) ==
    /\ d <= Len(rx[c]) /\ Len(rx'[c]) = Len(rx[c]) - d + 1
    /\ \A i \in 1..Len(rx[c]) - d : rx'[c][i] = rx[c][i + d]
    /\ rx'[c][Len(rx'[c])] = f
    /\ \/ d = 0 /\ lagged'[c] = lagged[c]
       \/ d = 1 /\ lagged'[c] = TRUE

\* A receiver that is full loses its oldest frame, and knows it lags.
LEMMA BroadcastCases ==
    ASSUME SizeAssumption, TypeOK, NEW c \in Socket, NEW f, Broadcast(f)
    PROVE  \/ srv[c] # "serving" /\ UNCHANGED <<rx[c], lagged[c]>>
           \/ srv[c] = "serving" /\ \E d \in {0, 1} : Arrived(c, f, d)
<1>1. rx[c] \in Seq(Frame) /\ Len(rx[c]) \in Nat
    BY DEF TypeOK
<1>2. /\ rx'[c] = IF srv[c] # "serving" THEN rx[c]
                  ELSE Append(IF Full(c) THEN Tail(rx[c]) ELSE rx[c], f)
      /\ lagged'[c] = (lagged[c] \/ (srv[c] = "serving" /\ Full(c)))
    BY DEF Broadcast
<1>3. lagged[c] \in BOOLEAN
    BY DEF TypeOK
<1>4. CASE srv[c] # "serving"
  <2>1. lagged'[c] = lagged[c]
      BY <1>2, <1>3, <1>4, Zenon
  <2>2. rx'[c] = rx[c]
      BY <1>2, <1>4
  <2>. QED BY <1>4, <2>1, <2>2, Zenon
<1>5. CASE srv[c] = "serving" /\ ~Full(c)
  <2>1. lagged'[c] = lagged[c]
      BY <1>2, <1>3, <1>5, Zenon
  <2>2. rx'[c] = Append(rx[c], f)
      BY <1>2, <1>5
  <2>3. /\ Len(rx'[c]) = Len(rx[c]) + 1 /\ rx'[c][Len(rx[c]) + 1] = f
        /\ \A i \in 1..Len(rx[c]) : rx'[c][i] = rx[c][i]
      BY <1>1, <2>2, AppendFacts
  <2>4. /\ 0 <= Len(rx[c]) /\ Len(rx'[c]) = Len(rx[c]) - 0 + 1
        /\ \A i \in 1..Len(rx[c]) - 0 : rx'[c][i] = rx[c][i + 0]
        /\ rx'[c][Len(rx'[c])] = f
      BY <1>1, <2>3
  <2>5. Arrived(c, f, 0)
      BY <2>1, <2>4, Zenon DEF Arrived
  <2>. QED BY <1>5, <2>5
<1>6. CASE srv[c] = "serving" /\ Full(c)
  <2>1. lagged'[c] = TRUE
      BY <1>2, <1>6, Zenon
  <2>2. rx'[c] = Append(Tail(rx[c]), f)
      BY <1>2, <1>6
  <2>3. rx[c] # <<>>
      BY <1>1, <1>6 DEF SizeAssumption, Full
  <2>4. /\ Tail(rx[c]) \in Seq(Frame) /\ Len(Tail(rx[c])) = Len(rx[c]) - 1
        /\ \A i \in 1..Len(Tail(rx[c])) : i + 1 \in 1..Len(rx[c]) /\ Tail(rx[c])[i] = rx[c][i + 1]
      BY <1>1, <2>3
  <2>5. /\ Len(rx'[c]) = Len(rx[c])
        /\ \A i \in 1..Len(Tail(rx[c])) : rx'[c][i] = Tail(rx[c])[i]
        /\ rx'[c][Len(rx'[c])] = f
      BY <1>1, <2>2, <2>4, AppendFacts
  <2>6. /\ 1 <= Len(rx[c]) /\ Len(rx'[c]) = Len(rx[c]) - 1 + 1
        /\ \A i \in 1..Len(rx[c]) - 1 : rx'[c][i] = rx[c][i + 1]
        /\ rx'[c][Len(rx'[c])] = f
      BY <1>1, <2>3, <2>4, <2>5
  <2>7. Arrived(c, f, 1)
      BY <2>1, <2>6, Zenon DEF Arrived
  <2>. QED BY <1>6, <2>7
<1>. QED BY <1>4, <1>5, <1>6


LEMMA SendChunkStep ==
    ASSUME NEW c \in Socket, SizeAssumption, TypeOK, Numbered, IInv(c), SendChunk
    PROVE  IInv(c)'
<1> USE DEF IInv
<1>1. /\ reader = "send" /\ reader' = "read" /\ next \in Nat /\ next > 0 /\ next' = next
      /\ Sent = next - 1 /\ Sent' = next /\ ring' = ring /\ Oldest' = Oldest
    BY DEF SendChunk, Sent, TypeOK, Numbered, Oldest
<1>2. UNCHANGED <<srv[c], attached[c], attach[c], wire[c], ws[c], last, shown, heard[c], beside>>
    BY Zenon DEF SendChunk, network, browser, page
<1>3. WireIx(c)' = WireIx(c)
    BY <1>2 DEF WireIx
<1>4. \A s, n : Held(c, s, n)' <=> Held(c, s, n)
    BY <1>1, <1>2 DEF Held
<1>5. CASE srv[c] # "serving"
  <2>0. UNCHANGED <<rx[c], lagged[c]>>
      BY <1>5, BroadcastCases DEF SendChunk
  <2>1. rx'[c] = rx[c] /\ lagged'[c] = lagged[c] /\ RxIx(c)' = RxIx(c) /\ ~attached[c] /\ rx[c] = <<>> /\ RxIx(c) = {}
      BY <2>0, <1>5 DEF Connection, RxIx
  <2>2. Connection(c)'
      BY <1>1, <1>2, <1>3, <1>5, <2>1 DEF Connection, Live
  <2>3. Received(c)'
      BY <2>1 DEF Received
  <2>4. InFlight(c)'
      BY <1>1, <1>2, <1>3, <2>1, FrameNumbers DEF InFlight
  <2>5. Counted(c)'
    <3>1. \A s \in Seqno : s > Sent' => s > Sent
        BY <1>1 DEF SizeAssumption, Seqno
    <3>. QED BY <1>2, <1>3, <2>1, <3>1 DEF Counted
  <2>6. Covered(c)'
      BY <1>1, <1>2, <1>3, <1>4, <2>1 DEF Covered, NoGap
  <2>7. UpToDate(c)'
      BY <1>1, <1>2, <1>3, <2>1 DEF UpToDate
  <2>. QED BY <2>2, <2>3, <2>4, <2>5, <2>6, <2>7
<1>6. CASE srv[c] = "serving"
  <2>0. PICK d \in {0, 1} : Arrived(c, Chunk(next), d)
      BY <1>6, BroadcastCases DEF SendChunk
  <2>1. /\ d <= Len(rx[c]) /\ Len(rx'[c]) = Len(rx[c]) - d + 1
        /\ \A i \in 1..Len(rx[c]) - d : rx'[c][i] = rx[c][i + d]
        /\ rx'[c][Len(rx'[c])] = Chunk(next)
        /\ \/ d = 0 /\ lagged'[c] = lagged[c]
           \/ d = 1 /\ lagged'[c] = TRUE
      BY <2>0 DEF Arrived
  <2>2. Len(rx[c]) \in Nat /\ Len(rx'[c]) \in Nat /\ Len(rx'[c]) \in RxIx(c)'
      BY <2>1 DEF TypeOK, RxIx
  <2>3. ASSUME NEW i \in RxIx(c)'
        PROVE  \/ i = Len(rx'[c]) /\ rx'[c][i] = Chunk(next)
               \/ i < Len(rx'[c]) /\ i + d \in RxIx(c) /\ rx'[c][i] = rx[c][i + d]
    <3>1. i \in 1..Len(rx'[c])
        BY DEF RxIx
    <3>2. CASE i = Len(rx'[c])
        BY <2>1, <3>2
    <3>3. CASE i # Len(rx'[c])
      <4>1. /\ Len(rx[c]) \in Nat /\ Len(rx'[c]) \in Nat /\ d \in {0, 1}
            /\ d <= Len(rx[c]) /\ Len(rx'[c]) = Len(rx[c]) - d + 1
          BY <2>1, <2>2
      <4>2. i \in 1..Len(rx[c]) - d /\ i < Len(rx'[c]) /\ i + d \in 1..Len(rx[c])
          BY <3>1, <3>3, <4>1
      <4>3. rx'[c][i] = rx[c][i + d]
          BY <2>1, <4>2
      <4>. QED BY <4>2, <4>3 DEF RxIx
    <3>. QED BY <3>2, <3>3
  <2>4. Chunk(next).kind = "chunk" /\ Chunk(next).from = next /\ Chunk(next).to = next
      BY DEF Chunk
  <2>5. \A i \in RxIx(c) : rx[c][i].kind = "chunk" /\ rx[c][i].from = rx[c][i].to /\ rx[c][i].to <= next - 1
      BY <1>1 DEF Received
  <2>6. Connection(c)'
      BY <1>1, <1>2, <1>3, <1>6 DEF Connection, Live
  <2>7. Received(c)'
    <3>1. ASSUME NEW i \in RxIx(c)'
          PROVE  rx'[c][i].kind = "chunk" /\ rx'[c][i].from = rx'[c][i].to /\ rx'[c][i].to <= next
      <4>1. CASE rx'[c][i] = Chunk(next)
          BY <1>1, <2>4, <4>1
      <4>2. CASE i + d \in RxIx(c) /\ rx'[c][i] = rx[c][i + d]
        <5>1. rx[c][i + d].to <= next - 1 /\ rx[c][i + d].to \in Nat
            BY <2>5, <4>2, FrameNumbers
        <5>. QED BY <1>1, <2>5, <4>2, <5>1
      <4>. QED BY <2>3, <4>1, <4>2
    <3>2. ASSUME NEW i \in RxIx(c)', NEW j \in RxIx(c)', i < j
          PROVE  rx'[c][i].to < rx'[c][j].to
      <4>1. i # Len(rx'[c]) /\ i + d \in RxIx(c) /\ rx'[c][i] = rx[c][i + d]
          BY <2>2, <2>3, <3>2 DEF RxIx
      <4>2. CASE j = Len(rx'[c])
        <5>1. rx'[c][j].to = next /\ rx'[c][i].to = rx[c][i + d].to
            BY <2>1, <2>4, <4>1, <4>2
        <5>2. rx[c][i + d].to <= next - 1 /\ rx[c][i + d].to \in Nat
            BY <2>5, <4>1, FrameNumbers
        <5>. QED BY <1>1, <5>1, <5>2
      <4>3. CASE j # Len(rx'[c])
        <5>1. j + d \in RxIx(c) /\ rx'[c][j] = rx[c][j + d] /\ i + d < j + d
            BY <2>2, <2>3, <3>2, <4>3 DEF RxIx
        <5>. QED BY <2>5, <4>1, <5>1 DEF Received
      <4>. QED BY <4>2, <4>3
    <3>. QED BY <1>1, <3>1, <3>2 DEF Received
  <2>8. InFlight(c)'
    <3>1. \A i \in WireIx(c) : wire[c][i].kind = "chunk" => wire[c][i].to <= next - 1 /\ wire[c][i].to < next
        BY <1>1, FrameNumbers DEF InFlight
    <3>2. attached'[c] => \A i \in WireIx(c), j \in RxIx(c)' :
            wire[c][i].kind = "chunk" /\ rx'[c][j].kind = "chunk" => wire[c][i].to < rx'[c][j].to
        BY <1>2, <2>3, <2>4, <3>1 DEF InFlight
    <3>. QED BY <1>1, <1>2, <1>3, <3>1, <3>2, FrameNumbers DEF InFlight
  <2>9. Counted(c)'
    <3>1. ASSUME ~beside, NEW s \in Seqno,
                 \/ s > Sent' \/ \E i \in WireIx(c) : wire[c][i] = Chunk(s)
                 \/ \E i \in RxIx(c)' : rx'[c][i] = Chunk(s)
          PROVE  shown[s] <= 1
      <4>0. s \in Nat
          BY DEF SizeAssumption, Seqno
      <4>1. CASE s > Sent
          BY <3>1, <4>1 DEF Counted
      <4>2. CASE \E i \in WireIx(c) : wire[c][i] = Chunk(s)
          BY <3>1, <4>2 DEF Counted
      <4>3. ASSUME NEW i \in RxIx(c)', rx'[c][i] = Chunk(s) PROVE shown[s] <= 1
        <5>1. Chunk(s).to = s
            BY DEF Chunk
        <5>2. CASE rx'[c][i] = Chunk(next)
            BY <1>1, <2>4, <4>0, <4>1, <4>3, <5>1, <5>2
        <5>3. CASE i + d \in RxIx(c) /\ rx'[c][i] = rx[c][i + d]
            BY <3>1, <4>3, <5>3 DEF Counted
        <5>. QED BY <2>3, <5>2, <5>3
      <4>. QED BY <1>1, <3>1, <4>0, <4>1, <4>2, <4>3
    <3>. QED BY <1>2, <1>3, <3>1 DEF Counted
  <2>10. Covered(c)'
    <3>1. ASSUME attached[c], ~lagged'[c], NEW s \in 1..next
          PROVE  \/ Held(c, s, Len(wire[c])) \/ \E j \in RxIx(c)' : rx'[c][j] = Chunk(s)
      <4>1. d = 0 /\ ~lagged[c]
          BY <2>1, <3>1
      <4>2. CASE s = next
          BY <2>1, <2>2, <4>2
      <4>3. CASE s \in 1..Sent
        <5>1. CASE Held(c, s, Len(wire[c]))
            BY <5>1
        <5>2. ASSUME NEW j \in RxIx(c), rx[c][j] = Chunk(s)
              PROVE  j \in RxIx(c)' /\ rx'[c][j] = Chunk(s)
            BY <2>1, <2>2, <4>1, <5>2 DEF RxIx
        <5>. QED BY <3>1, <4>1, <4>3, <5>1, <5>2 DEF Covered
      <4>. QED BY <1>1, <4>2, <4>3
    <3>2. ASSUME attached[c], ~lagged'[c], NEW i \in RxIx(c)', NEW s \in 1..rx'[c][i].to
          PROVE  Held(c, s, Len(wire[c])) \/ \E j \in 1..i : rx'[c][j] = Chunk(s)
      <4>1. d = 0 /\ ~lagged[c]
          BY <2>1, <3>2
      <4>2. CASE i = Len(rx'[c])
          BY <1>1, <2>1, <2>4, <3>1, <3>2, <4>2 DEF RxIx
      <4>3. CASE i # Len(rx'[c])
        <5>1. i \in RxIx(c) /\ rx'[c][i] = rx[c][i]
            BY <2>3, <4>1, <4>3 DEF RxIx
        <5>2. ASSUME NEW j \in 1..i, rx[c][j] = Chunk(s)
              PROVE  rx'[c][j] = Chunk(s)
            BY <2>1, <2>2, <4>1, <5>1, <5>2 DEF RxIx
        <5>. QED BY <3>2, <4>1, <5>1, <5>2 DEF Covered
      <4>. QED BY <4>2, <4>3
    <3>. QED BY <1>1, <1>2, <1>3, <1>4, <3>1, <3>2 DEF Covered, NoGap
  <2>11. UpToDate(c)'
    <3>1. \E i \in RxIx(c)' : rx'[c][i].to >= Sent'
        BY <1>1, <2>1, <2>2, <2>4
    <3>. QED BY <1>1, <1>2, <1>3, <3>1 DEF UpToDate
  <2>. QED BY <2>6, <2>7, <2>8, <2>9, <2>10, <2>11
<1>. QED BY <1>5, <1>6

LEMMA SendExitStep ==
    ASSUME NEW c \in Socket, SizeAssumption, TypeOK, IInv(c), SendExit
    PROVE  IInv(c)'
<1> USE DEF IInv
<1>1. /\ reader = "exit" /\ reader' = "done" /\ next \in Nat /\ next' = next
      /\ Sent = next /\ Sent' = next /\ ring' = ring /\ Oldest' = Oldest
    BY DEF SendExit, Sent, TypeOK, Oldest
<1>2. UNCHANGED <<srv[c], attached[c], attach[c], wire[c], ws[c], last, shown, heard[c], beside>>
    BY Zenon DEF SendExit, network, browser, page
<1>3. WireIx(c)' = WireIx(c)
    BY <1>2 DEF WireIx
<1>4. \A s, n : Held(c, s, n)' <=> Held(c, s, n)
    BY <1>1, <1>2 DEF Held
<1>5. CASE srv[c] # "serving"
  <2>0. UNCHANGED <<rx[c], lagged[c]>>
      BY <1>5, BroadcastCases DEF SendExit
  <2>1. rx'[c] = rx[c] /\ lagged'[c] = lagged[c] /\ RxIx(c)' = RxIx(c) /\ ~attached[c] /\ rx[c] = <<>> /\ RxIx(c) = {}
      BY <2>0, <1>5 DEF Connection, RxIx
  <2>2. Connection(c)'
      BY <1>1, <1>2, <1>3, <1>5, <2>1 DEF Connection, Live
  <2>3. Received(c)'
      BY <2>1 DEF Received
  <2>4. InFlight(c)'
      BY <1>1, <1>2, <1>3, <2>1, FrameNumbers DEF InFlight
  <2>5. Counted(c)'
      BY <1>1, <1>2, <1>3, <2>1 DEF Counted
  <2>6. Covered(c)'
      BY <1>1, <1>2, <1>3, <1>4, <2>1 DEF Covered, NoGap
  <2>7. UpToDate(c)'
      BY <1>1, <1>2, <1>3, <2>1 DEF UpToDate
  <2>. QED BY <2>2, <2>3, <2>4, <2>5, <2>6, <2>7
<1>6. CASE srv[c] = "serving"
  <2>0. PICK d \in {0, 1} : Arrived(c, Exit, d)
      BY <1>6, BroadcastCases DEF SendExit
  <2>1. /\ d <= Len(rx[c]) /\ Len(rx'[c]) = Len(rx[c]) - d + 1
        /\ \A i \in 1..Len(rx[c]) - d : rx'[c][i] = rx[c][i + d]
        /\ rx'[c][Len(rx'[c])] = Exit
        /\ \/ d = 0 /\ lagged'[c] = lagged[c]
           \/ d = 1 /\ lagged'[c] = TRUE
      BY <2>0 DEF Arrived
  <2>2. Len(rx[c]) \in Nat /\ Len(rx'[c]) \in Nat /\ Len(rx'[c]) \in RxIx(c)'
      BY <2>1 DEF TypeOK, RxIx
  <2>3. ASSUME NEW i \in RxIx(c)'
        PROVE  \/ i = Len(rx'[c]) /\ rx'[c][i] = Exit
               \/ i < Len(rx'[c]) /\ i + d \in RxIx(c) /\ rx'[c][i] = rx[c][i + d]
    <3>1. i \in 1..Len(rx'[c])
        BY DEF RxIx
    <3>2. CASE i = Len(rx'[c])
        BY <2>1, <3>2
    <3>3. CASE i # Len(rx'[c])
      <4>1. /\ Len(rx[c]) \in Nat /\ Len(rx'[c]) \in Nat /\ d \in {0, 1}
            /\ d <= Len(rx[c]) /\ Len(rx'[c]) = Len(rx[c]) - d + 1
          BY <2>1, <2>2
      <4>2. i \in 1..Len(rx[c]) - d /\ i < Len(rx'[c]) /\ i + d \in 1..Len(rx[c])
          BY <3>1, <3>3, <4>1
      <4>3. rx'[c][i] = rx[c][i + d]
          BY <2>1, <4>2
      <4>. QED BY <4>2, <4>3 DEF RxIx
    <3>. QED BY <3>2, <3>3
  <2>4. Exit.kind = "exit" /\ Exit.to = 0 /\ \A s : Exit # Chunk(s)
      BY DEF Exit, Chunk
  <2>5. \A i \in RxIx(c) : rx[c][i].kind = "chunk" /\ rx[c][i].from = rx[c][i].to /\ rx[c][i].to <= Sent
      BY <1>1 DEF Received
  <2>6. Connection(c)'
      BY <1>1, <1>2, <1>3, <1>6 DEF Connection, Live
  <2>7. Received(c)'
    <3>1. ASSUME NEW i \in RxIx(c)', NEW j \in RxIx(c)', i < j, rx'[c][j].kind = "chunk"
          PROVE  rx'[c][i].to < rx'[c][j].to
      <4>1. j + d \in RxIx(c) /\ rx'[c][j] = rx[c][j + d]
          BY <2>3, <2>4, <3>1
      <4>2. i + d \in RxIx(c) /\ rx'[c][i] = rx[c][i + d] /\ i + d < j + d
          BY <2>2, <2>3, <3>1 DEF RxIx
      <4>. QED BY <3>1, <4>1, <4>2 DEF Received
    <3>. QED BY <1>1, <2>3, <2>4, <2>5, <3>1 DEF Received
  <2>8. InFlight(c)'
    <3>1. attached[c] => \A i \in WireIx(c), j \in RxIx(c)' :
            wire[c][i].kind = "chunk" /\ rx'[c][j].kind = "chunk" => wire[c][i].to < rx'[c][j].to
        BY <2>3, <2>4 DEF InFlight
    <3>. QED BY <1>1, <1>2, <1>3, <3>1 DEF InFlight
  <2>9. Counted(c)'
    <3>1. \A s \in Seqno, i \in RxIx(c)' : rx'[c][i] = Chunk(s) => \E j \in RxIx(c) : rx[c][j] = Chunk(s)
        BY <2>3, <2>4
    <3>. QED BY <1>1, <1>2, <1>3, <3>1 DEF Counted
  <2>10. Covered(c)'
    <3>1. ASSUME attached[c], ~lagged'[c]
          PROVE  /\ d = 0 /\ ~lagged[c]
                 /\ \A i \in RxIx(c) : i \in RxIx(c)' /\ rx'[c][i] = rx[c][i]
                 /\ \A i \in RxIx(c)' : i \in RxIx(c) \/ rx'[c][i].to = 0
        BY <2>1, <2>2, <2>3, <2>4, <3>1 DEF RxIx
    <3>2. ASSUME attached[c], ~lagged'[c], NEW s \in 1..Sent
          PROVE  Held(c, s, Len(wire[c])) \/ \E j \in RxIx(c)' : rx'[c][j] = Chunk(s)
        BY <3>1, <3>2 DEF Covered
    <3>3. ASSUME attached[c], ~lagged'[c], NEW i \in RxIx(c)', NEW s \in 1..rx'[c][i].to
          PROVE  Held(c, s, Len(wire[c])) \/ \E j \in 1..i : rx'[c][j] = Chunk(s)
      <4>1. i \in RxIx(c) /\ rx'[c][i] = rx[c][i] /\ 1..i \subseteq RxIx(c)
          BY <2>2, <3>1, <3>3 DEF RxIx
      <4>. QED BY <3>1, <3>3, <4>1 DEF Covered
    <3>. QED BY <1>1, <1>2, <1>3, <1>4, <3>2, <3>3 DEF Covered, NoGap
  <2>11. UpToDate(c)'
    <3>1. ASSUME attached[c], ~lagged'[c], NEW i \in RxIx(c), rx[c][i].to >= Sent
          PROVE  \E j \in RxIx(c)' : rx'[c][j].to >= Sent
        BY <2>1, <2>2, <3>1 DEF RxIx
    <3>2. attached[c] /\ ~lagged'[c] => ~lagged[c]
        BY <2>1
    <3>. QED BY <1>1, <1>2, <1>3, <3>1, <3>2 DEF UpToDate
  <2>. QED BY <2>6, <2>7, <2>8, <2>9, <2>10, <2>11
<1>. QED BY <1>5, <1>6

-----------------------------------------------------------------------------
(* The steps of the websocket task *)

\* The task ends, whatever is still under way to the browser.
LEMMA QuitKeeps ==
    ASSUME NEW c \in Socket, TypeOK, IInv(c), Quit(c), UNCHANGED <<session, network, browser>>
    PROVE  IInv(c)'
<1> USE DEF IInv
<1>1. srv'[c] = "none" /\ ~attached'[c] /\ ~lagged'[c] /\ rx'[c] = <<>> /\ RxIx(c)' = {}
    BY QuitFacts DEF RxIx
<1>2. UNCHANGED <<next, ring, reader, attach[c], wire[c], ws[c], last, shown, heard[c], beside>>
    BY Zenon DEF session, network, browser, page
<1>3. WireIx(c)' = WireIx(c) /\ Sent' = Sent /\ Oldest' = Oldest
    BY <1>2 DEF WireIx, Sent, Oldest
<1>4. Connection(c)'
    BY <1>1, <1>2, <1>3 DEF Connection, Live
<1>5. Received(c)' /\ InFlight(c)' /\ Counted(c)'
    BY <1>1, <1>2, <1>3 DEF Received, InFlight, Counted
<1>6. Covered(c)'
    BY <1>1, <1>2, <1>3 DEF Covered, NoGap, Held
<1>7. UpToDate(c)'
    BY <1>1, <1>2, <1>3 DEF UpToDate
<1>. QED BY <1>4, <1>5, <1>6, <1>7

LEMMA UpgradedStep ==
    ASSUME NEW c \in Socket, TypeOK, IInv(c), Upgraded(c)
    PROVE  IInv(c)'
<1> USE DEF IInv
<1>1. CASE Quit(c)
    BY <1>1, QuitKeeps DEF Upgraded
<1>2. CASE srv' = [srv EXCEPT ![c] = "serving"] /\ UNCHANGED <<attached, rx, lagged>>
  <2>1. srv[c] = "checked" /\ UNCHANGED <<next, ring, reader, attach[c], wire[c], ws[c], last, shown, heard[c], beside>>
      BY Zenon DEF Upgraded, session, network, browser, page
  <2>0. srv'[c] = "serving" /\ UNCHANGED <<attached[c], rx[c], lagged[c]>>
      BY <1>2 DEF TypeOK
  <2>2. WireIx(c)' = WireIx(c) /\ RxIx(c)' = RxIx(c) /\ Sent' = Sent /\ Oldest' = Oldest
      BY <2>0, <2>1 DEF WireIx, RxIx, Sent, Oldest
  <2>3. ~attached[c] /\ wire[c] = <<>> /\ WireIx(c) = {}
      BY <2>1 DEF Connection, WireIx
  <2>4. Connection(c)'
      BY <2>0, <2>1, <2>2, <2>3 DEF Connection, Live
  <2>5. Received(c)' /\ InFlight(c)' /\ Counted(c)'
      BY <2>0, <2>1, <2>2, <2>3 DEF Received, InFlight, Counted
  <2>6. Covered(c)'
      BY <2>0, <2>1, <2>2, <2>3 DEF Covered, NoGap, Held
  <2>7. UpToDate(c)'
      BY <2>0, <2>1, <2>2, <2>3 DEF UpToDate
  <2>. QED BY <2>4, <2>5, <2>6, <2>7
<1>. QED BY <1>1, <1>2 DEF Upgraded

\* A snapshot reaches to the newest number, from behind what was asked for,
\* and leaves out only what was asked past or has left the ring.
LEMMA SnapshotFacts ==
    ASSUME NEW c \in Socket, SizeAssumption, TypeOK, Connection(c), NEW ls \in 0..MaxSeq, ls <= next
    PROVE  /\ SnapshotSince(ls).kind = "snapshot"
           /\ SnapshotSince(ls).from > ls
           /\ SnapshotSince(ls).to = next
           /\ \A s \in 1..next : \/ s <= ls \/ s < Oldest
                                 \/ s \in SnapshotSince(ls).from..SnapshotSince(ls).to
<1>1. next \in Nat /\ Oldest \in Int /\ (ring = <<>> => next = 0)
    BY DEF Connection, Oldest, TypeOK
<1> DEFINE known == ls > 0 /\ ring # <<>> /\ ls + 1 >= Oldest
           start == IF known THEN ls ELSE 0
<1>2. CASE ring = <<>> \/ start >= next
  <2>1. SnapshotSince(ls) = [kind |-> "snapshot", from |-> start + 1, to |-> start]
      BY <1>2 DEF SnapshotSince
  <2>2. start = next /\ start + 1 > ls
      BY <1>1, <1>2 DEF SizeAssumption
  <2>. QED BY <1>1, <2>1, <2>2
<1>3. CASE ~(ring = <<>> \/ start >= next)
  <2>1. SnapshotSince(ls) = [kind |-> "snapshot",
                             from |-> IF start + 1 > Oldest THEN start + 1 ELSE Oldest,
                             to |-> next]
      BY <1>3 DEF SnapshotSince
  <2>. QED BY <1>1, <1>3, <2>1 DEF SizeAssumption
<1>. QED BY <1>2, <1>3

LEMMA ServeAttachStep ==
    ASSUME NEW c \in Socket, SizeAssumption, TypeOK, IInv(c), ServeAttach(c)
    PROVE  IInv(c)'
<1> USE DEF IInv
<1>1. /\ srv[c] = "serving" /\ ~attached[c] /\ attach[c] # None /\ attached'[c] /\ attach'[c] = None
      /\ wire'[c] = Append(wire[c], SnapshotSince(attach[c]))
      /\ UNCHANGED <<next, ring, reader, srv[c], rx[c], lagged[c], ws[c], last, shown, heard[c], beside>>
  <2>1. /\ attached' = [attached EXCEPT ![c] = TRUE] /\ attach' = [attach EXCEPT ![c] = None]
        /\ wire' = [wire EXCEPT ![c] = Append(wire[c], SnapshotSince(attach[c]))]
        /\ srv[c] = "serving" /\ ~attached[c] /\ attach[c] # None
        /\ UNCHANGED <<next, ring, reader, srv, rx, lagged, ws, last, shown, heard, beside>>
      BY Zenon DEF ServeAttach, session, browser, page
  <2>2. attached'[c] /\ attach'[c] = None /\ wire'[c] = Append(wire[c], SnapshotSince(attach[c]))
      BY <2>1 DEF TypeOK
  <2>. QED BY <2>1, <2>2, Zenon
<1>2. /\ attach[c] <= last /\ (~beside => attach[c] = last) /\ wire[c] = <<>>
      /\ attach[c] \in 0..MaxSeq /\ last \in 0..MaxSeq /\ last <= next /\ next \in Nat
      /\ attach[c] <= next
  <2>1. /\ attach[c] <= last /\ (~beside => attach[c] = last) /\ wire[c] = <<>> /\ last <= next
      BY <1>1 DEF Connection
  <2>2. attach[c] \in 0..MaxSeq /\ last \in 0..MaxSeq /\ next \in Nat /\ MaxSeq \in Nat
      BY <1>1 DEF TypeOK, SizeAssumption
  <2>. QED BY <2>1, <2>2
<1> DEFINE f == SnapshotSince(attach[c])
<1>3. /\ f.kind = "snapshot" /\ (~beside => f.from > last) /\ f.to = next
      /\ \A s \in 1..next : s <= attach[c] \/ s < Oldest \/ s \in f.from..f.to
    BY <1>2, SnapshotFacts
<1>4. Len(wire'[c]) = 1 /\ wire'[c][1] = f /\ WireIx(c)' = {1}
    BY <1>1, <1>2 DEF WireIx
<1> HIDE DEF f
<1>5. RxIx(c)' = RxIx(c) /\ Sent' = Sent /\ Oldest' = Oldest /\ Sent <= next /\ Sent \in Int
    BY <1>1, <1>2 DEF RxIx, Sent, Oldest
<1>6. Connection(c)'
    BY <1>1, <1>2, <1>4 DEF Connection, Live
<1>7. Received(c)'
    BY <1>1, <1>5 DEF Received
<1>8. InFlight(c)'
    BY <1>1, <1>2, <1>3, <1>4 DEF InFlight
<1>9. Counted(c)'
  <2>1. \A s : f # Chunk(s)
      BY <1>3 DEF Chunk
  <2>. QED BY <1>1, <1>4, <1>5, <2>1 DEF Counted
<1>10. Covered(c)'
  <2>1. \A s \in 1..next : Held(c, s, 1)'
    <3>1. ASSUME NEW s \in 1..next, s <= attach[c]
          PROVE  shown[s] > 0 \/ s < Oldest
        BY <1>2, <3>1 DEF Covered, NoGap
    <3>. QED BY <1>1, <1>3, <1>4, <1>5, <3>1 DEF Held
  <2>2. NoGap'
      BY <1>1, <1>5 DEF Covered, NoGap
  <2>3. \A i \in WireIx(c)' : \A s \in 1..wire'[c][i].to : Held(c, s, i)'
      BY <1>3, <1>4, <2>1
  <2>4. \A s \in 1..Sent : Held(c, s, Len(wire[c]))'
      BY <1>2, <1>4, <1>5, <2>1
  <2>5. \A i \in RxIx(c) : rx[c][i].to <= next
      BY <1>2, <1>5, FrameNumbers DEF Received, Exit
  <2>6. \A i \in RxIx(c) : \A s \in 1..rx[c][i].to : Held(c, s, Len(wire[c]))'
      BY <1>2, <1>4, <2>1, <2>5, FrameNumbers
  <2>. QED BY <1>1, <1>5, <2>2, <2>3, <2>4, <2>6 DEF Covered
<1>11. UpToDate(c)'
    BY <1>1, <1>2, <1>3, <1>4, <1>5 DEF UpToDate
<1>. QED BY <1>6, <1>7, <1>8, <1>9, <1>10, <1>11

LEMMA RecvFrameStep ==
    ASSUME NEW c \in Socket, SizeAssumption, TypeOK, IInv(c), RecvFrame(c)
    PROVE  IInv(c)'
<1> USE DEF IInv
<1>1. /\ srv[c] = "serving" /\ rx[c] # <<>> /\ ~lagged[c] /\ rx[c] \in Seq(Frame) /\ wire[c] \in Seq(Frame)
      /\ UNCHANGED <<next, ring, reader, attach[c], ws[c], last, shown, heard[c], beside>>
    BY RecvFrameCases DEF TypeOK, session, browser, page
<1>2. /\ Head(rx[c]) = rx[c][1] /\ 1 \in RxIx(c) /\ Len(rx[c]) \in Nat /\ Len(wire[c]) \in Nat
      /\ Len(Tail(rx[c])) = Len(rx[c]) - 1
      /\ \A i \in 1..Len(Tail(rx[c])) : i + 1 \in RxIx(c) /\ Tail(rx[c])[i] = rx[c][i + 1]
    BY <1>1, TailFacts DEF RxIx
<1>3. Sent' = Sent /\ Oldest' = Oldest /\ Sent \in Int /\ Sent <= next /\ next \in Nat
    BY <1>1 DEF Sent, Oldest, TypeOK
<1>4. "exit" \notin heard[c] /\ \A i \in WireIx(c) : wire[c][i].kind # "exit"
    BY <1>1 DEF Connection, InFlight, Exit
<1>5. CASE ~attached[c] /\ Head(rx[c]).kind = "chunk" /\ wire'[c] = wire[c] /\ rx'[c] = Tail(rx[c])
           /\ UNCHANGED <<srv[c], attached[c], lagged[c]>>
  <2>1. WireIx(c)' = WireIx(c) /\ \A i \in RxIx(c)' : i + 1 \in RxIx(c) /\ rx'[c][i] = rx[c][i + 1]
      BY <1>2, <1>5 DEF WireIx, RxIx
  <2>2. Connection(c)'
      BY <1>1, <1>5, <2>1 DEF Connection, Live
  <2>3. Received(c)'
    <3>1. \A i \in RxIx(c)' : i + 1 = Len(rx[c]) => i = Len(rx'[c])
        BY <1>2, <1>5 DEF RxIx
    <3>2. \A i, j \in RxIx(c)' : i < j => i + 1 < j + 1
        BY DEF RxIx
    <3>. QED BY <1>1, <1>3, <2>1, <3>1, <3>2 DEF Received
  <2>4. InFlight(c)'
      BY <1>1, <1>3, <1>5, <2>1 DEF InFlight
  <2>5. Counted(c)'
      BY <1>1, <1>3, <1>5, <2>1 DEF Counted
  <2>6. Covered(c)'
      BY <1>1, <1>3, <1>5, <2>1 DEF Covered, NoGap, Held
  <2>7. UpToDate(c)'
      BY <1>1, <1>3, <1>5, <2>1 DEF UpToDate
  <2>. QED BY <2>2, <2>3, <2>4, <2>5, <2>6, <2>7
<1>6. CASE /\ attached[c] /\ Head(rx[c]).kind = "chunk" /\ wire'[c] = Append(wire[c], Head(rx[c]))
           /\ rx'[c] = Tail(rx[c]) /\ UNCHANGED <<srv[c], attached[c], lagged[c]>>
  <2>1. \A i \in RxIx(c)' : i + 1 \in RxIx(c) /\ rx'[c][i] = rx[c][i + 1]
      BY <1>2, <1>6 DEF RxIx
  <2>2. /\ Len(wire'[c]) = Len(wire[c]) + 1 /\ wire'[c][Len(wire[c]) + 1] = rx[c][1]
        /\ \A i \in WireIx(c) : wire'[c][i] = wire[c][i]
      BY <1>1, <1>2, <1>6, AppendFacts DEF WireIx
  <2>3. WireIx(c)' = WireIx(c) \cup {Len(wire[c]) + 1} /\ Len(wire[c]) + 1 \notin WireIx(c)
      BY <1>2, <2>2 DEF WireIx
  <2>4. rx[c][1].kind = "chunk" /\ rx[c][1].from = rx[c][1].to /\ rx[c][1].to <= Sent
      BY <1>2, <1>6 DEF Received, Exit
  <2>5. Connection(c)'
      BY <1>1, <1>6 DEF Connection, Live
  <2>6. Received(c)'
    <3>1. \A i \in RxIx(c)' : i + 1 = Len(rx[c]) => i = Len(rx'[c])
        BY <1>2, <1>6 DEF RxIx
    <3>2. \A i, j \in RxIx(c)' : i < j => i + 1 < j + 1
        BY DEF RxIx
    <3>. QED BY <1>1, <1>3, <2>1, <3>1, <3>2 DEF Received
  <2>7. InFlight(c)'
    <3>1. \A i \in WireIx(c)' :
            \/ wire'[c][i].kind = "chunk" /\ wire'[c][i].from = wire'[c][i].to /\ wire'[c][i].to <= Sent
            \/ /\ wire'[c][i].kind = "snapshot" /\ i = 1 /\ wire'[c][i].to <= next
               /\ ~beside => wire'[c][i].from > last
        BY <1>1, <1>4, <2>2, <2>3, <2>4 DEF InFlight, Exit
    <3>2. ASSUME NEW i \in WireIx(c)', NEW j \in WireIx(c)', i < j,
                 wire'[c][i].kind = "chunk", wire'[c][j].kind = "chunk"
          PROVE  wire'[c][i].to < wire'[c][j].to
      <4>1. i \in WireIx(c)
          BY <1>2, <2>2, <3>2 DEF WireIx
      <4>2. wire'[c][i] = wire[c][i] /\ wire[c][i].kind = "chunk"
          BY <2>2, <3>2, <4>1
      <4>3. CASE j \in WireIx(c)
          BY <2>2, <3>2, <4>1, <4>3 DEF InFlight
      <4>4. CASE j = Len(wire[c]) + 1
        <5>1. wire[c][i].to < rx[c][1].to
            BY <1>2, <1>6, <2>4, <4>1, <4>2 DEF InFlight
        <5>. QED BY <2>2, <4>2, <4>4, <5>1
      <4>. QED BY <2>3, <4>3, <4>4
    <3>3. ASSUME NEW i \in WireIx(c)', NEW j \in RxIx(c)',
                 wire'[c][i].kind = "chunk", rx'[c][j].kind = "chunk"
          PROVE  wire'[c][i].to < rx'[c][j].to
      <4>1. j + 1 \in RxIx(c) /\ 1 < j + 1 /\ rx'[c][j] = rx[c][j + 1]
          BY <2>1 DEF RxIx
      <4>2. rx[c][1].to < rx[c][j + 1].to
          BY <1>2, <3>3, <4>1 DEF Received
      <4>3. CASE i \in WireIx(c)
        <5>1. wire[c][i].kind = "chunk" /\ wire'[c][i] = wire[c][i] /\ rx[c][j + 1].kind = "chunk"
            BY <2>2, <3>3, <4>1, <4>3
        <5>2. wire[c][i].to < rx[c][j + 1].to
            BY <1>6, <4>1, <4>3, <5>1 DEF InFlight
        <5>. QED BY <4>1, <5>1, <5>2
      <4>4. CASE i = Len(wire[c]) + 1
          BY <2>2, <4>1, <4>2, <4>4
      <4>. QED BY <2>3, <4>3, <4>4
    <3>. QED BY <1>1, <1>3, <3>1, <3>2, <3>3 DEF InFlight
  <2>8. Counted(c)'
    <3>1. ASSUME NEW s \in Seqno,
                 (\E i \in WireIx(c)' : wire'[c][i] = Chunk(s)) \/ (\E i \in RxIx(c)' : rx'[c][i] = Chunk(s))
          PROVE  (\E i \in WireIx(c) : wire[c][i] = Chunk(s)) \/ (\E i \in RxIx(c) : rx[c][i] = Chunk(s))
        BY <1>2, <2>1, <2>2, <2>3, <3>1
    <3>. QED BY <1>1, <1>3, <3>1 DEF Counted
  <2>9. Covered(c)'
    <3>0. PICK n \in Nat : n = Len(wire[c])
        BY <1>2
    <3>1. \A s \in Nat, k \in 0..n : Held(c, s, k) => Held(c, s, k)'
        BY <1>1, <1>3, <2>2, <3>0 DEF Held, WireIx
    <3>2. ASSUME NEW s \in Nat, Held(c, s, n) \/ rx[c][1] = Chunk(s)
          PROVE  Held(c, s, n + 1)'
      <4>1. CASE s < Oldest \/ shown[s] > 0
          BY <1>1, <1>3, <4>1 DEF Held
      <4>2. ASSUME NEW j \in 1..n, s \in wire[c][j].from..wire[c][j].to
            PROVE  Held(c, s, n + 1)'
        <5>1. j \in 1..n + 1 /\ s \in wire'[c][j].from..wire'[c][j].to
            BY <2>2, <3>0, <4>2 DEF WireIx
        <5>. QED BY <5>1 DEF Held
      <4>3. CASE rx[c][1] = Chunk(s)
        <5>1. rx[c][1].from = s /\ rx[c][1].to = s
            BY <4>3 DEF Chunk
        <5>2. n + 1 \in 1..n + 1 /\ s \in wire'[c][n + 1].from..wire'[c][n + 1].to
            BY <2>2, <3>0, <5>1
        <5>. QED BY <5>2 DEF Held
      <4>. QED BY <3>2, <4>1, <4>2, <4>3 DEF Held
    <3>3. \A i \in WireIx(c)' : \A s \in 1..wire'[c][i].to : Held(c, s, i)'
      <4>1. ASSUME NEW i \in WireIx(c), NEW s \in 1..wire'[c][i].to PROVE Held(c, s, i)'
        <5>1. Held(c, s, i) /\ s \in Nat /\ i \in 0..n
            BY <2>2, <3>0, <4>1 DEF Covered, WireIx
        <5>. QED BY <3>1, <5>1
      <4>2. ASSUME NEW s \in 1..rx[c][1].to PROVE Held(c, s, n + 1)'
        <5>1. Held(c, s, n) \/ \E j \in 1..1 : rx[c][j] = Chunk(s)
            BY <1>1, <1>2, <1>6, <3>0 DEF Covered
        <5>2. s \in Nat /\ (Held(c, s, n) \/ rx[c][1] = Chunk(s))
            BY <5>1
        <5>. QED BY <3>2, <5>2
      <4>3. wire'[c][n + 1] = rx[c][1] /\ WireIx(c)' = WireIx(c) \cup {n + 1}
          BY <2>2, <2>3, <3>0
      <4>. QED BY <4>1, <4>2, <4>3
    <3>4. ASSUME NEW i \in RxIx(c)', NEW s \in 1..rx'[c][i].to
          PROVE  Held(c, s, n + 1)' \/ \E j \in 1..i : rx'[c][j] = Chunk(s)
      <4>1. s \in Nat /\ i + 1 \in RxIx(c) /\ s \in 1..rx[c][i + 1].to
          BY <2>1, <3>4
      <4>2. CASE Held(c, s, n)
          BY <3>2, <4>1, <4>2
      <4>3. ASSUME NEW j \in 1..i + 1, rx[c][j] = Chunk(s)
            PROVE  Held(c, s, n + 1)' \/ \E k \in 1..i : rx'[c][k] = Chunk(s)
        <5>1. CASE j = 1
            BY <3>2, <4>1, <4>3, <5>1
        <5>2. CASE j # 1
          <6>1. j - 1 \in 1..i /\ j - 1 \in RxIx(c)'
              BY <3>4, <4>3, <5>2 DEF RxIx
          <6>2. rx'[c][j - 1] = rx[c][j]
              BY <2>1, <6>1
          <6>. QED BY <4>3, <6>1, <6>2
        <5>. QED BY <5>1, <5>2
      <4>. QED BY <1>1, <1>6, <3>0, <4>1, <4>2, <4>3 DEF Covered
    <3>5. ASSUME NEW s \in 1..Sent
          PROVE  Held(c, s, n + 1)' \/ \E j \in RxIx(c)' : rx'[c][j] = Chunk(s)
      <4>0. s \in Nat
          BY <1>3
      <4>1. CASE Held(c, s, n)
          BY <3>2, <4>0, <4>1
      <4>2. ASSUME NEW j \in RxIx(c), rx[c][j] = Chunk(s)
            PROVE  Held(c, s, n + 1)' \/ \E k \in RxIx(c)' : rx'[c][k] = Chunk(s)
        <5>1. CASE j = 1
            BY <3>2, <4>0, <4>2, <5>1
        <5>2. CASE j # 1
          <6>1. j - 1 \in RxIx(c)'
              BY <1>2, <1>6, <4>2, <5>2 DEF RxIx
          <6>2. rx'[c][j - 1] = rx[c][j]
              BY <2>1, <4>2, <6>1 DEF RxIx
          <6>. QED BY <4>2, <6>1, <6>2
        <5>. QED BY <5>1, <5>2
      <4>. QED BY <1>1, <1>6, <3>0, <4>1, <4>2 DEF Covered
    <3>6. n + 1 = Len(wire'[c]) /\ 1..Sent' = 1..Sent
        BY <1>3, <2>2, <3>0
    <3>. QED BY <1>1, <1>3, <3>3, <3>4, <3>5, <3>6 DEF Covered, NoGap
  <2>10. UpToDate(c)'
    <3>1. ASSUME NEW i \in RxIx(c), rx[c][i].to >= Sent
          PROVE  (\E j \in WireIx(c)' : wire'[c][j].to >= Sent) \/ (\E j \in RxIx(c)' : rx'[c][j].to >= Sent)
      <4>1. CASE i = 1
          BY <2>2, <2>3, <3>1, <4>1
      <4>2. CASE i # 1
        <5>1. i - 1 \in RxIx(c)' /\ rx'[c][i - 1] = rx[c][i]
            BY <1>2, <1>6, <2>1, <3>1, <4>2 DEF RxIx
        <5>. QED BY <3>1, <5>1
      <4>. QED BY <4>1, <4>2
    <3>2. \A i \in WireIx(c) : i \in WireIx(c)' /\ wire'[c][i] = wire[c][i]
        BY <2>2, <2>3
    <3>3. \A i \in WireIx(c)' : wire'[c][i].kind # "exit"
        BY <1>4, <2>2, <2>3, <2>4
    <3>. QED BY <1>1, <1>3, <1>4, <1>6, <3>1, <3>2, <3>3 DEF UpToDate
  <2>. QED BY <2>5, <2>6, <2>7, <2>8, <2>9, <2>10
<1>7. CASE Head(rx[c]).kind = "exit" /\ wire'[c] = Append(wire[c], Head(rx[c])) /\ Quit(c)
  <2>1. srv'[c] = "none" /\ ~attached'[c] /\ ~lagged'[c] /\ rx'[c] = <<>> /\ RxIx(c)' = {}
      BY <1>7, QuitFacts DEF RxIx
  <2>2. rx[c][1] = Exit /\ Len(rx[c]) = 1 /\ reader = "done" /\ Sent = next
      BY <1>2, <1>7 DEF Received, Sent
  <2>3. /\ Len(wire'[c]) = Len(wire[c]) + 1 /\ wire'[c][Len(wire[c]) + 1] = Exit
        /\ \A i \in WireIx(c) : wire'[c][i] = wire[c][i]
      BY <1>1, <1>2, <1>7, <2>2, AppendFacts DEF WireIx
  <2>4. WireIx(c)' = WireIx(c) \cup {Len(wire[c]) + 1} /\ Len(wire[c]) + 1 \notin WireIx(c)
      BY <1>2, <2>3 DEF WireIx
  <2>5. Exit.kind = "exit" /\ Exit.to = 0 /\ \A s : Exit # Chunk(s)
      BY DEF Exit, Chunk
  <2>6. Connection(c)'
      BY <1>1, <1>4, <2>1, <2>3, <2>4, <2>5 DEF Connection, Live
  <2>7. Received(c)' /\ Counted(c)'
      BY <1>1, <1>3, <2>1, <2>3, <2>4, <2>5 DEF Received, Counted
  <2>8. InFlight(c)'
      BY <1>1, <1>3, <1>4, <2>1, <2>2, <2>3, <2>4, <2>5 DEF InFlight
  <2>9. Covered(c)'
    <3>0. PICK n \in Nat : n = Len(wire[c])
        BY <1>2
    <3>1. \A s \in Nat, k \in 0..n : Held(c, s, k) => Held(c, s, k)'
        BY <1>1, <1>3, <2>3, <3>0 DEF Held, WireIx
    <3>2. ASSUME NEW i \in WireIx(c), NEW s \in 1..wire'[c][i].to PROVE Held(c, s, i)'
      <4>1. Held(c, s, i) /\ s \in Nat /\ i \in 0..n
          BY <2>3, <3>0, <3>2 DEF Covered, WireIx
      <4>. QED BY <3>1, <4>1
    <3>. QED BY <1>1, <1>3, <2>1, <2>3, <2>4, <2>5, <3>2 DEF Covered, NoGap
  <2>10. UpToDate(c)'
    <3>1. ASSUME "snapshot" \in heard[c] \/ \E i \in WireIx(c)' : wire'[c][i].kind = "snapshot"
          PROVE  last = next \/ \E i \in WireIx(c)' : wire'[c][i].to = next
      <4>1. attached[c]
          BY <1>1, <2>3, <2>4, <2>5, <3>1 DEF Connection, WireIx
      <4>2. last \in Nat /\ last <= next
          BY DEF TypeOK, SizeAssumption, Connection
      <4>3. \A i \in WireIx(c) : wire[c][i].to <= next
          BY <1>3, <1>4, FrameNumbers DEF InFlight, Exit
      <4>4. \A i \in RxIx(c) : rx[c][i].to = 0
          BY <2>2, <2>5 DEF RxIx
      <4>5. last >= next \/ (\E i \in WireIx(c) : wire[c][i].to >= next) \/ (\E i \in RxIx(c) : 0 >= next)
          BY <1>1, <2>2, <4>1, <4>4 DEF UpToDate
      <4>6. CASE last >= next \/ (\E i \in RxIx(c) : 0 >= next)
          BY <1>3, <4>2, <4>6
      <4>7. ASSUME NEW i \in WireIx(c), wire[c][i].to >= next
            PROVE  i \in WireIx(c)' /\ wire'[c][i].to = next
          BY <1>3, <2>3, <2>4, <4>3, <4>7, FrameNumbers
      <4>. QED BY <4>5, <4>6, <4>7
    <3>. QED BY <1>1, <1>3, <1>4, <2>1, <3>1 DEF UpToDate
  <2>. QED BY <2>6, <2>7, <2>8, <2>9, <2>10
<1>8. Head(rx[c]).kind \in {"chunk", "exit"}
    BY <1>2 DEF Received, Exit
<1>9. /\ \/ ~attached[c] /\ Head(rx[c]).kind = "chunk" /\ wire'[c] = wire[c]
         \/ /\ wire'[c] = Append(wire[c], Head(rx[c]))
            /\ attached[c] \/ Head(rx[c]).kind # "chunk"
      /\ \/ Head(rx[c]).kind = "exit" /\ Quit(c)
         \/ /\ Head(rx[c]).kind # "exit" /\ rx'[c] = Tail(rx[c])
            /\ UNCHANGED <<srv[c], attached[c], lagged[c]>>
    BY RecvFrameCases DEF TypeOK
<1>. QED BY <1>5, <1>6, <1>7, <1>8, <1>9

LEMMA RecvLaggedStep ==
    ASSUME NEW c \in Socket, TypeOK, IInv(c), RecvLagged(c)
    PROVE  IInv(c)'
  BY QuitKeeps, Zenon DEF RecvLagged

-----------------------------------------------------------------------------
-----------------------------------------------------------------------------
(* The steps of the browser *)

\* A socket is opened: nothing is under way on it yet.
LEMMA ConnectFacts ==
    ASSUME TypeOK, Connect
    PROVE  \E c \in Socket :
             /\ ws[c] = "closed" /\ ws'[c] = "connecting" /\ srv'[c] = "checked"
             /\ \A d \in Socket : d # c => ws'[d] = ws[d] /\ srv'[d] = srv[d]
             /\ beside' <=> (beside \/ \E d \in Socket : Live(d))
             /\ UNCHANGED <<session, attached, rx, lagged, network, heard, last, shown>>
<1>1. PICK c \in Socket : /\ ws[c] = "closed" /\ ws' = [ws EXCEPT ![c] = "connecting"]
                          /\ srv' = [srv EXCEPT ![c] = "checked"]
    BY DEF Connect
<1>2. ws'[c] = "connecting" /\ srv'[c] = "checked"
    BY <1>1 DEF TypeOK
<1>3. \A d \in Socket : d # c => ws'[d] = ws[d] /\ srv'[d] = srv[d]
    BY <1>1 DEF TypeOK
<1>4. beside' <=> (beside \/ \E d \in Socket : Live(d))
    BY Zenon DEF Connect
<1>5. UNCHANGED <<session, attached, rx, lagged, network, heard, last, shown>>
    BY Zenon DEF Connect
<1>. QED BY <1>1, <1>2, <1>3, <1>4, <1>5, Zenon

\* The state of a socket may change where nothing is under way on it.
LEMMA TurnStep ==
    ASSUME TypeOK, NEW c \in Socket, IInv(c), Connection(c)',
           UNCHANGED <<attached[c], rx[c], lagged[c], wire[c], heard[c]>>,
           UNCHANGED <<session, last, shown>>, beside => beside',
           srv'[c] = srv[c] \/ wire[c] = <<>>
    PROVE  IInv(c)'
<1> USE DEF IInv
<1>1. UNCHANGED <<next, ring, reader>>
    BY DEF session
<1>2. /\ WireIx(c)' = WireIx(c) /\ RxIx(c)' = RxIx(c) /\ Oldest' = Oldest /\ Sent' = Sent
      /\ wire[c] = <<>> => WireIx(c) = {}
    BY <1>1 DEF WireIx, RxIx, Oldest, Sent
<1>3. /\ attached'[c] = attached[c] /\ rx'[c] = rx[c] /\ lagged'[c] = lagged[c]
      /\ wire'[c] = wire[c] /\ heard'[c] = heard[c]
    OBVIOUS
<1>4. Received(c)'
    BY <1>1, <1>2, <1>3 DEF Received
<1>5. InFlight(c)'
    BY <1>1, <1>2, <1>3 DEF InFlight
<1>6. Counted(c)'
    BY <1>1, <1>2, <1>3 DEF Counted
<1>7. Covered(c)'
    BY <1>1, <1>2, <1>3 DEF Covered, NoGap, Held
<1>8. UpToDate(c)'
    BY <1>1, <1>2, <1>3 DEF UpToDate
<1>. QED BY <1>4, <1>5, <1>6, <1>7, <1>8

LEMMA ConnectStep ==
    ASSUME TypeOK, Connect, \A c \in Socket : IInv(c)
    PROVE  \A c \in Socket : IInv(c)'
<1>1. PICK c \in Socket :
             /\ ws[c] = "closed" /\ ws'[c] = "connecting" /\ srv'[c] = "checked"
             /\ \A d \in Socket : d # c => ws'[d] = ws[d] /\ srv'[d] = srv[d]
             /\ beside' <=> (beside \/ \E d \in Socket : Live(d))
             /\ UNCHANGED <<session, attached, rx, lagged, network, heard, last, shown>>
    BY ConnectFacts
<1>2. UNCHANGED <<next, ring, reader, attach, wire>> /\ (beside => beside')
    BY <1>1, Zenon DEF session, network
<1>3. ASSUME NEW d \in Socket, d # c PROVE IInv(d)'
  <2>1. Same(d)
      BY <1>1, <1>2, <1>3, Zenon DEF Same
  <2>. QED BY <1>1, <1>2, <2>1, OthersRest
<1>4. IInv(c)'
  <2>1. /\ UNCHANGED <<attached[c], rx[c], lagged[c], attach[c], wire[c], heard[c]>>
        /\ WireIx(c)' = WireIx(c)
      BY <1>1, <1>2 DEF WireIx
  <2>2. /\ srv[c] = "none" /\ wire[c] = <<>> /\ attach[c] = None /\ heard[c] = {}
        /\ ~attached[c] /\ rx[c] = <<>> /\ ~lagged[c] /\ WireIx(c) = {}
        /\ ring = <<>> => next = 0
        /\ last <= next
      BY <1>1 DEF IInv, Connection, Live, WireIx
  <2>3. Connection(c)'
      BY <1>1, <1>2, <2>1, <2>2 DEF Connection, Live
  <2>4. IInv(c)
      OBVIOUS
  <2>. QED BY <1>1, <1>2, <2>1, <2>2, <2>3, <2>4, TurnStep
<1>. QED BY <1>3, <1>4

\* The socket is open and asks for what the browser misses; or has closed.
LEMMA OpenStep ==
    ASSUME TypeOK, NEW c \in Socket, IInv(c), OnOpen(c) \/ OnClose(c)
    PROVE  IInv(c)'
<1>1. /\ UNCHANGED <<attached[c], rx[c], lagged[c], wire[c], heard[c], srv[c], beside>>
      /\ UNCHANGED <<session, next, ring, reader, last, shown>>
    BY Zenon DEF OnOpen, OnClose, session, server, network, page
<1>2. WireIx(c)' = WireIx(c)
    BY <1>1 DEF WireIx
<1>3. CASE OnOpen(c)
  <2>1. ws[c] = "connecting" /\ ws'[c] = "open" /\ attach'[c] = last
      BY <1>3 DEF OnOpen, TypeOK
  <2>2. last <= last
      BY DEF TypeOK
  <2>3. Connection(c)'
      BY <1>1, <1>2, <2>1, <2>2 DEF IInv, Connection, Live
  <2>. QED BY <1>1, <2>3, TurnStep
<1>4. CASE OnClose(c)
  <2>1. ws[c] = "closing" /\ ws'[c] = "closed" /\ attach' = attach
      BY <1>4 DEF OnClose, TypeOK, network
  <2>3. Connection(c)'
      BY <1>1, <1>2, <2>1 DEF IInv, Connection, Live
  <2>. QED BY <1>1, <2>3, TurnStep
<1>. QED BY <1>3, <1>4

\* Nothing is under way on a socket any more, and what the terminal shows is as
\* before or empty.
Gone(c) ==
    /\ srv[c] = "none" /\ ~attached[c] /\ rx[c] = <<>> /\ ~lagged[c]
    /\ ws[c] \in {"closed", "closing"} /\ attach[c] = None /\ wire[c] = <<>> /\ heard[c] = {}

LEMMA LoseStep ==
    ASSUME SizeAssumption, TypeOK, NEW c \in Socket, IInv(c), Gone(c)',
           UNCHANGED <<next, ring, reader>>,
           \/ UNCHANGED <<last, shown, beside>>
           \/ last' = 0 /\ shown' = [s \in Seqno |-> 0]
    PROVE  IInv(c)'
<1> USE DEF IInv
<1>1. /\ srv'[c] = "none" /\ ~attached'[c] /\ rx'[c] = <<>> /\ ~lagged'[c]
      /\ ws'[c] \in {"closed", "closing"} /\ attach'[c] = None /\ wire'[c] = <<>> /\ heard'[c] = {}
    BY DEF Gone
<1>2. WireIx(c)' = {} /\ RxIx(c)' = {} /\ Sent' = Sent /\ Oldest' = Oldest
    BY <1>1 DEF WireIx, RxIx, Sent, Oldest
<1>3. Connection(c)'
    BY <1>1, <1>2 DEF Connection, Live, TypeOK
<1>4. Received(c)' /\ InFlight(c)'
    BY <1>1, <1>2 DEF Received, InFlight
<1>5. Counted(c)'
    BY <1>2 DEF Counted
<1>6. Covered(c)'
    BY <1>1, <1>2 DEF Covered, NoGap
<1>7. UpToDate(c)'
    BY <1>1, <1>2 DEF UpToDate
<1>. QED BY <1>3, <1>4, <1>5, <1>6, <1>7

LEMMA LoseFacts ==
    ASSUME TypeOK, NEW c \in Socket, Lose(c), NEW to \in {"closed", "closing"},
           ws' = [ws EXCEPT ![c] = to]
    PROVE  Gone(c)' /\ \A d \in Socket : d # c => Same(d)
<1>1. /\ srv'[c] = "none" /\ ~attached'[c] /\ rx'[c] = <<>> /\ ~lagged'[c]
      /\ \A d \in Socket : d # c => UNCHANGED <<srv[d], attached[d], rx[d], lagged[d]>>
    BY QuitFacts DEF Lose
<1>2. /\ attach'[c] = None /\ wire'[c] = <<>> /\ heard'[c] = {} /\ ws'[c] = to
      /\ \A d \in Socket : d # c => UNCHANGED <<attach[d], wire[d], heard[d], ws[d]>>
    BY DEF Lose, TypeOK
<1>3. Gone(c)'
    BY <1>1, <1>2, Zenon DEF Gone
<1>4. ASSUME NEW d \in Socket, d # c PROVE Same(d)
    BY <1>1, <1>2, <1>4, Zenon DEF Same
<1>. QED BY <1>3, <1>4

LEMMA ClosingStep ==
    ASSUME TypeOK, SizeAssumption, \A c \in Socket : IInv(c),
           OnTunnelUrlChanged \/ \E c \in Socket : CloseStarts(c) \/ Drop(c)
    PROVE  \A c \in Socket : IInv(c)'
<1>1. PICK c \in Socket, to \in {"closed", "closing"} :
           Lose(c) /\ ws' = [ws EXCEPT ![c] = to]
    BY DEF OnTunnelUrlChanged, CloseStarts, Drop, TypeOK
<1>2. UNCHANGED <<session, last, shown, beside>>
    BY Zenon DEF OnTunnelUrlChanged, CloseStarts, Drop, page
<1>3. UNCHANGED <<next, ring, reader, last, shown, beside>>
    BY <1>2, Zenon DEF session
<1>4. Gone(c)' /\ \A d \in Socket : d # c => Same(d)
    BY <1>1, LoseFacts
<1>5. IInv(c)'
    BY <1>3, <1>4, LoseStep
<1>6. ASSUME NEW d \in Socket, d # c PROVE IInv(d)'
    BY <1>3, <1>4, <1>6, OthersRest
<1>. QED BY <1>5, <1>6

LEMMA ReloadStep ==
    ASSUME SizeAssumption, TypeOK, NEW c \in Socket, IInv(c), Reload
    PROVE  IInv(c)'
<1>1. /\ srv'[c] = "none" /\ ~attached'[c] /\ rx'[c] = <<>> /\ ~lagged'[c]
      /\ ws'[c] = "closed" /\ attach'[c] = None /\ wire'[c] = <<>> /\ heard'[c] = {}
    BY DEF Reload, OfSockets
<1>2. last' = 0 /\ shown' = [s \in Seqno |-> 0] /\ UNCHANGED <<next, ring, reader>>
    BY DEF Reload, session
<1>3. Gone(c)'
    BY <1>1, Zenon DEF Gone
<1>. QED BY <1>2, <1>3, LoseStep

\* What a message does: the first frame leaves the network, its chunks are
\* shown, and the browser asks past it from then on.
LEMMA MessageCases ==
    ASSUME SizeAssumption, TypeOK, NEW c \in Socket, OnMessage(c)
    PROVE  /\ ws[c] = "open" /\ wire[c] # <<>> /\ wire'[c] = Tail(wire[c])
           /\ UNCHANGED <<session, server, attach, ws, beside>>
           /\ \A s \in Seqno :
                shown'[s] = shown[s] + IF s \in wire[c][1].from..wire[c][1].to THEN 1 ELSE 0
           /\ \/ wire[c][1].kind = "exit" /\ last' = last
              \/ wire[c][1].kind # "exit" /\ last' = IF wire[c][1].to > last THEN wire[c][1].to ELSE last
           /\ "exit" \in heard'[c] <=> ("exit" \in heard[c] \/ wire[c][1].kind = "exit")
           /\ "snapshot" \in heard'[c] <=> ("snapshot" \in heard[c] \/ wire[c][1].kind = "snapshot")
           /\ \A d \in Socket : d # c => wire'[d] = wire[d] /\ heard'[d] = heard[d]
<1>1. Head(wire[c]) = wire[c][1] /\ wire[c] # <<>>
    BY DEF OnMessage, TypeOK
<1>2. /\ shown' = [s \in Seqno |-> shown[s] + IF s \in wire[c][1].from..wire[c][1].to THEN 1 ELSE 0]
      /\ IF wire[c][1].kind = "exit" THEN UNCHANGED last ELSE SetLastSeq(wire[c][1].to)
      /\ heard' = [heard EXCEPT ![c] = heard[c] \cup ({wire[c][1].kind} \ {"chunk"})]
    BY <1>1, Zenon DEF OnMessage
<1>3. /\ ws[c] = "open" /\ wire' = [wire EXCEPT ![c] = Tail(wire[c])]
      /\ UNCHANGED <<session, server, attach, ws, beside>>
    BY Zenon DEF OnMessage
<1>4. wire'[c] = Tail(wire[c]) /\ \A d \in Socket : d # c => wire'[d] = wire[d]
    BY <1>3 DEF TypeOK
<1>5. \A s \in Seqno :
        shown'[s] = shown[s] + IF s \in wire[c][1].from..wire[c][1].to THEN 1 ELSE 0
    BY <1>2
<1>6. \/ wire[c][1].kind = "exit" /\ last' = last
      \/ wire[c][1].kind # "exit" /\ last' = IF wire[c][1].to > last THEN wire[c][1].to ELSE last
    BY <1>2 DEF SetLastSeq
<1>7. /\ heard'[c] = heard[c] \cup ({wire[c][1].kind} \ {"chunk"})
      /\ \A d \in Socket : d # c => heard'[d] = heard[d]
    BY <1>2 DEF TypeOK
<1>8. /\ "exit" \in heard'[c] <=> ("exit" \in heard[c] \/ wire[c][1].kind = "exit")
      /\ "snapshot" \in heard'[c] <=> ("snapshot" \in heard[c] \/ wire[c][1].kind = "snapshot")
    BY <1>7
<1>. QED BY <1>1, <1>3, <1>4, <1>5, <1>6, <1>7, <1>8, Zenon

LEMMA MessageStep ==
    ASSUME NEW c \in Socket, SizeAssumption, TypeOK, IInv(c), OnMessage(c)
    PROVE  IInv(c)'
<1> USE DEF IInv
<1>1. /\ ws[c] = "open" /\ wire[c] # <<>> /\ wire'[c] = Tail(wire[c]) /\ wire[c] \in Seq(Frame)
      /\ UNCHANGED <<next, ring, reader, srv[c], attached[c], rx[c], lagged[c], attach[c], ws[c], beside>>
    BY MessageCases DEF TypeOK, session, server
<1>2. /\ \A s \in Seqno : shown'[s] = shown[s] + IF s \in wire[c][1].from..wire[c][1].to THEN 1 ELSE 0
      /\ \A s \in Seqno : shown[s] \in Nat /\ s \in Nat
  <2>1. \A s \in Seqno : shown'[s] = shown[s] + IF s \in wire[c][1].from..wire[c][1].to THEN 1 ELSE 0
      BY MessageCases, Zenon
  <2>2. \A s \in Seqno : shown[s] \in Nat /\ s \in Nat
      BY DEF TypeOK, SizeAssumption, Seqno
  <2>. QED BY <2>1, <2>2
<1>3. /\ \/ wire[c][1].kind = "exit" /\ last' = last
         \/ wire[c][1].kind # "exit" /\ last' = IF wire[c][1].to > last THEN wire[c][1].to ELSE last
      /\ "exit" \in heard'[c] <=> ("exit" \in heard[c] \/ wire[c][1].kind = "exit")
      /\ "snapshot" \in heard'[c] <=> ("snapshot" \in heard[c] \/ wire[c][1].kind = "snapshot")
    BY MessageCases, Zenon
<1>4. PICK n \in Nat : n + 1 = Len(wire[c]) /\ n = Len(wire'[c])
  <2>1. Len(wire[c]) \in Nat /\ Len(wire[c]) > 0 /\ Len(Tail(wire[c])) = Len(wire[c]) - 1
      BY <1>1
  <2>2. Len(wire[c]) - 1 \in Nat /\ (Len(wire[c]) - 1) + 1 = Len(wire[c]) /\ Len(wire[c]) - 1 = Len(wire'[c])
      BY <1>1, <2>1
  <2>. QED BY <2>2
<1>5. /\ 1 \in WireIx(c)
      /\ \A i \in WireIx(c)' : i + 1 \in WireIx(c) /\ wire'[c][i] = wire[c][i + 1] /\ i + 1 # 1 /\ i \in Nat
      /\ \A i \in WireIx(c) : i = 1 \/ (i - 1 \in WireIx(c)' /\ wire'[c][i - 1] = wire[c][i])
  <2>1. \A i \in 1..n : wire'[c][i] = wire[c][i + 1]
      BY <1>1, <1>4
  <2>. QED BY <1>4, <2>1 DEF WireIx
<1>6. RxIx(c)' = RxIx(c) /\ Sent' = Sent /\ Oldest' = Oldest /\ Sent <= next /\ Sent \in Int /\ next \in Nat
    BY <1>1 DEF RxIx, Sent, Oldest, TypeOK
<1>7. /\ wire[c][1] \in Frame /\ wire[c][1].to \in Nat /\ wire[c][1].from \in Nat /\ wire[c][1].to <= MaxSeq
      /\ last \in Nat /\ last <= next /\ last <= MaxSeq
  <2>1. wire[c][1] \in Frame /\ wire[c][1].to \in Nat /\ wire[c][1].from \in Nat
      BY <1>5, FrameNumbers
  <2>2. wire[c][1].to <= MaxSeq
      BY <2>1 DEF Frame, SizeAssumption
  <2>3. last \in Nat /\ last <= next /\ last <= MaxSeq
      BY DEF TypeOK, SizeAssumption, Connection
  <2>. QED BY <2>1, <2>2, <2>3
<1>8. "exit" \notin heard[c] /\ (srv[c] = "none" \/ attached[c])
    BY <1>1 DEF Connection, Live
<1>9. \/ wire[c][1].kind = "chunk" /\ wire[c][1].from = wire[c][1].to /\ wire[c][1].to <= Sent
      \/ /\ wire[c][1].kind = "snapshot" /\ wire[c][1].to <= next
         /\ ~beside => wire[c][1].from > last
      \/ wire[c][1] = Exit /\ 1 = Len(wire[c]) /\ reader = "done" /\ srv[c] = "none"
    BY <1>5 DEF InFlight
<1>10. Exit.kind = "exit" /\ Exit.to = 0 /\ Exit.from = 1
    BY DEF Exit
<1>11. /\ last <= last' /\ last' <= next /\ last' \in Nat
       /\ wire[c][1].to <= last' \/ wire[c][1] = Exit
    BY <1>3, <1>6, <1>7, <1>9, <1>10
<1>12. wire[c][1].kind = "exit" => /\ wire[c][1] = Exit /\ wire'[c] = <<>> /\ WireIx(c)' = {} /\ last' = last
                                   /\ WireIx(c) = {1} /\ reader = "done" /\ srv[c] = "none"
  <2>1. ASSUME wire[c][1].kind = "exit"
        PROVE  wire[c][1] = Exit /\ n = 0 /\ last' = last /\ reader = "done" /\ srv[c] = "none"
    <3>1. wire[c][1] = Exit /\ 1 = Len(wire[c]) /\ reader = "done" /\ srv[c] = "none"
        BY <1>9, <2>1
    <3>2. last' = last
        BY <1>3, <2>1
    <3>3. n = 0
      <4>1. n + 1 = 1
          BY <1>4, <3>1, Zenon
      <4>. QED BY <4>1
    <3>. QED BY <3>1, <3>2, <3>3
  <2>2. n = 0 => wire'[c] = <<>> /\ WireIx(c)' = {} /\ WireIx(c) = {1}
    <3>1. wire'[c] \in Seq(Frame) /\ Len(wire'[c]) = n /\ Len(wire[c]) = n + 1
        BY <1>1, <1>4
    <3>2. n = 0 => wire'[c] = <<>>
        BY <3>1
    <3>3. n = 0 => 1..Len(wire'[c]) = {} /\ 1..Len(wire[c]) = {1}
        BY <3>1
    <3>. QED BY <3>2, <3>3 DEF WireIx
  <2>. QED BY <2>1, <2>2
<1>13. Connection(c)'
  <2>1. attach[c] # None => wire[c][1].kind = "exit" /\ ~attached[c]
      BY <1>5 DEF Connection, Live
  <2>2. \A i \in WireIx(c)' : (\A j \in WireIx(c) : wire[c][j].kind = "exit") => wire'[c][i].kind = "exit"
      BY <1>5
  <2>3. attach'[c] # None \/ ws'[c] = "connecting" => ~attached'[c] /\ \A i \in WireIx(c)' : wire'[c][i].kind = "exit"
      BY <1>1, <2>2 DEF Connection, Live
  <2>4. attach'[c] # None =>
          attach'[c] <= last' /\ (~beside' => attach'[c] = last') /\ ws'[c] = "open"
      BY <1>1, <1>12, <2>1 DEF Connection, Live
  <2>5. "exit" \in heard'[c] => wire'[c] = <<>> /\ srv'[c] = "none" /\ reader' = "done"
      BY <1>1, <1>3, <1>8, <1>12
  <2>6. srv'[c] # "none" => attached'[c]
      BY <1>1, <1>8
  <2>7. Live(c)'
      BY <1>1 DEF Live
  <2>. QED BY <1>1, <1>11, <2>3, <2>4, <2>5, <2>6, <2>7 DEF Connection, Live
<1>14. Received(c)'
    BY <1>1, <1>6 DEF Received
<1>15. InFlight(c)'
  <2>1. \A i \in WireIx(c)' : i + 1 = Len(wire[c]) => i = Len(wire'[c])
      BY <1>4, <1>5
  <2>2. \A i \in WireIx(c)' :
         \/ wire'[c][i].kind = "chunk" /\ wire'[c][i].from = wire'[c][i].to /\ wire'[c][i].to <= Sent
         \/ wire'[c][i] = Exit /\ i = Len(wire'[c]) /\ reader = "done" /\ srv[c] = "none"
      BY <1>5, <2>1 DEF InFlight
  <2>3. \A i, j \in WireIx(c)' : i < j => i + 1 < j + 1
      BY <1>5
  <2>4. \A i, j \in WireIx(c)' :
          i < j /\ wire'[c][i].kind = "chunk" /\ wire'[c][j].kind = "chunk" => wire'[c][i].to < wire'[c][j].to
      BY <1>5, <2>3 DEF InFlight
  <2>5. attached[c] => \A i \in WireIx(c)', j \in RxIx(c) :
          wire'[c][i].kind = "chunk" /\ rx[c][j].kind = "chunk" => wire'[c][i].to < rx[c][j].to
    <3>1. ASSUME attached[c], NEW i \in WireIx(c)', NEW j \in RxIx(c),
                 wire'[c][i].kind = "chunk", rx[c][j].kind = "chunk"
          PROVE  wire'[c][i].to < rx[c][j].to
      <4>1. i + 1 \in WireIx(c) /\ wire'[c][i] = wire[c][i + 1]
          BY <1>5
      <4>. QED BY <3>1, <4>1 DEF InFlight
    <3>. QED BY <3>1
  <2>. QED BY <1>1, <1>6, <2>2, <2>4, <2>5 DEF InFlight
<1>16. Counted(c)'
  <2>1. ASSUME ~beside, NEW s \in Seqno, s \in wire[c][1].from..wire[c][1].to
        PROVE  shown[s] = 0 \/ (wire[c][1] = Chunk(s) /\ shown[s] <= 1 /\ s <= Sent)
    <3>1. CASE wire[c][1].kind = "chunk"
      <4>1. wire[c][1].from = s /\ wire[c][1].to = s /\ s <= Sent
          BY <1>2, <1>7, <1>9, <1>10, <2>1, <3>1
      <4>2. wire[c][1] = Chunk(s)
          BY <1>7, <3>1, <4>1 DEF Frame, Chunk
      <4>. QED BY <2>1, <1>5, <4>1, <4>2 DEF Counted
    <3>2. CASE wire[c][1].kind = "snapshot"
        BY <1>2, <1>7, <1>9, <1>10, <2>1, <3>2 DEF Counted
    <3>3. CASE wire[c][1] = Exit
        BY <1>2, <1>10, <2>1, <3>3
    <3>. QED BY <1>9, <3>1, <3>2, <3>3
  <2>2. ASSUME ~beside, NEW s \in Seqno, s > Sent \/ (\E i \in WireIx(c)' : wire'[c][i] = Chunk(s))
                                         \/ (\E i \in RxIx(c) : rx[c][i] = Chunk(s))
        PROVE  shown'[s] <= 1
    <3>1. shown[s] <= 1
        BY <1>5, <2>2 DEF Counted
    <3>2. CASE wire[c][1] = Chunk(s) /\ s <= Sent
      <4>1. wire[c][1].kind = "chunk" /\ wire[c][1].to = s /\ Chunk(s).kind = "chunk" /\ Chunk(s).to = s
          BY <3>2 DEF Chunk
      <4>2. ASSUME NEW i \in WireIx(c)', wire'[c][i] = Chunk(s) PROVE FALSE
        <5>1. i + 1 \in WireIx(c) /\ wire[c][i + 1] = Chunk(s) /\ 1 < i + 1
            BY <1>5, <4>2 DEF WireIx
        <5>. QED BY <1>2, <1>5, <4>1, <5>1 DEF InFlight
      <4>3. ASSUME NEW i \in RxIx(c), rx[c][i] = Chunk(s) PROVE FALSE
        <5>1. attached[c]
            BY <1>8 DEF Connection, RxIx
        <5>. QED BY <1>2, <1>5, <4>1, <4>3, <5>1 DEF InFlight
      <4>. QED BY <1>2, <1>6, <2>2, <3>2, <4>2, <4>3
    <3>3. CASE s \notin wire[c][1].from..wire[c][1].to
        BY <1>2, <3>1, <3>3
    <3>4. CASE shown[s] = 0
        BY <1>2, <3>4
    <3>. QED BY <2>1, <2>2, <3>2, <3>3, <3>4
  <2>3. ASSUME ~beside, NEW s \in Seqno PROVE shown'[s] <= 2 /\ (shown'[s] > 0 => s <= last')
    <3>1. CASE s \notin wire[c][1].from..wire[c][1].to
        BY <2>3, <1>2, <1>7, <1>11, <3>1 DEF Counted
    <3>2. CASE s \in wire[c][1].from..wire[c][1].to
      <4>1. wire[c][1] # Exit
          BY <1>2, <1>10, <3>2
      <4>2. s <= last'
          BY <1>2, <1>7, <1>11, <3>2, <4>1
      <4>. QED BY <1>2, <2>1, <2>3, <3>2, <4>2
    <3>. QED BY <3>1, <3>2
  <2>. QED BY <1>1, <1>6, <2>2, <2>3 DEF Counted
<1>17. Covered(c)'
  <2>1. ASSUME NEW s \in Seqno, NEW k \in 0..n, Held(c, s, k + 1)
        PROVE  Held(c, s, k)'
    <3>1. CASE s < Oldest
        BY <1>6, <3>1 DEF Held
    <3>2. CASE shown[s] > 0 \/ s \in wire[c][1].from..wire[c][1].to
      <4>1. shown'[s] > 0
          BY <1>2, <3>2
      <4>. QED BY <4>1 DEF Held
    <3>3. ASSUME NEW j \in 1..k + 1, s \in wire[c][j].from..wire[c][j].to, j # 1
          PROVE  Held(c, s, k)'
      <4>1. j \in WireIx(c) /\ j - 1 \in 1..k
          BY <1>4, <3>3 DEF WireIx
      <4>2. wire'[c][j - 1] = wire[c][j]
          BY <1>5, <3>3, <4>1
      <4>. QED BY <3>3, <4>1, <4>2 DEF Held
    <3>. QED BY <2>1, <3>1, <3>2, <3>3 DEF Held
  <2>2. NoGap'
    <3>1. ASSUME NEW s \in 1..last' PROVE shown'[s] > 0 \/ s < Oldest
      <4>1. s \in Seqno /\ 0 \in 0..n
          BY <1>3, <1>4, <1>7, <3>1 DEF Seqno, SizeAssumption
      <4>2. CASE s <= last
          BY <1>2, <1>7, <4>1, <4>2 DEF Covered, NoGap
      <4>3. CASE s > last
        <5>1. s \in 1..wire[c][1].to
            BY <1>2, <1>3, <1>7, <3>1, <4>1, <4>3
        <5>2. Held(c, s, 1)
            BY <1>5, <5>1 DEF Covered
        <5>3. s < Oldest \/ shown[s] > 0 \/ s \in wire[c][1].from..wire[c][1].to
            BY <5>2 DEF Held
        <5>. QED BY <1>2, <4>1, <5>3
      <4>. QED BY <1>2, <1>7, <4>1, <4>2, <4>3
    <3>. QED BY <1>6, <3>1 DEF NoGap
  <2>3. ASSUME NEW i \in WireIx(c)', NEW s \in 1..wire'[c][i].to PROVE Held(c, s, i)'
    <3>1. i + 1 \in WireIx(c) /\ s \in 1..wire[c][i + 1].to /\ wire[c][i + 1].to <= MaxSeq /\ i \in 0..n
      <4>1. i + 1 \in WireIx(c) /\ wire'[c][i] = wire[c][i + 1] /\ i \in 1..n
          BY <1>4, <1>5 DEF WireIx
      <4>2. wire[c][i + 1] \in Frame
          BY <4>1, FrameNumbers
      <4>3. wire[c][i + 1].to <= MaxSeq
          BY <4>2 DEF Frame, SizeAssumption
      <4>. QED BY <2>3, <4>1, <4>3
    <3>2. s \in Seqno
        BY <3>1, FrameNumbers DEF Seqno, SizeAssumption
    <3>3. Held(c, s, i + 1)
        BY <3>1 DEF Covered
    <3>. QED BY <2>1, <3>1, <3>2, <3>3
  <2>4. ASSUME NEW s \in 1..Sent, Held(c, s, Len(wire[c])) PROVE Held(c, s, n)'
    <3>1. s \in Seqno
      <4>1. next <= MaxSeq /\ MaxSeq \in Nat /\ s \in Nat /\ s >= 1 /\ s <= Sent
          BY <1>6 DEF TypeOK, SizeAssumption
      <4>. QED BY <1>6, <4>1 DEF Seqno
    <3>2. n \in 0..n /\ Held(c, s, n + 1)
        BY <1>4, <2>4
    <3>. QED BY <2>1, <3>1, <3>2
  <2>5. \A i \in RxIx(c) : \A s \in 1..rx[c][i].to : s \in 1..Sent
    <3>1. \A i \in RxIx(c) : rx[c][i].to <= Sent \/ rx[c][i].to = 0
        BY <1>10 DEF Received
    <3>. QED BY <1>6, <3>1, FrameNumbers
  <2>6. ASSUME attached[c], ~lagged[c]
        PROVE  /\ \A i \in RxIx(c) : \A s \in 1..rx[c][i].to :
                    Held(c, s, n)' \/ \E j \in 1..i : rx[c][j] = Chunk(s)
               /\ \A s \in 1..Sent : Held(c, s, n)' \/ \E j \in RxIx(c) : rx[c][j] = Chunk(s)
      BY <2>4, <2>5, <2>6 DEF Covered
  <2>7. /\ Len(wire'[c]) = n /\ 1..Sent' = 1..Sent
        /\ rx'[c] = rx[c] /\ RxIx(c)' = RxIx(c) /\ attached'[c] = attached[c] /\ lagged'[c] = lagged[c]
      BY <1>1, <1>4, <1>6
  <2>8. attached'[c] /\ ~lagged'[c] =>
          /\ \A i \in RxIx(c)' : \A s \in 1..rx'[c][i].to :
               Held(c, s, n)' \/ \E j \in 1..i : rx'[c][j] = Chunk(s)
          /\ \A s \in 1..Sent' : Held(c, s, n)' \/ \E j \in RxIx(c)' : rx'[c][j] = Chunk(s)
      BY <2>6, <2>7
  <2>. QED BY <2>2, <2>3, <2>7, <2>8 DEF Covered
<1>18. UpToDate(c)'
  <2>1. attached[c] => wire[c][1] # Exit
      BY <1>10, <1>12 DEF Connection, Live
  <2>2. attached[c] /\ ~lagged[c] => \/ last' >= Sent
                                     \/ \E i \in WireIx(c)' : wire'[c][i].to >= Sent
                                     \/ \E i \in RxIx(c) : rx[c][i].to >= Sent
    <3>1. ASSUME attached[c], NEW i \in WireIx(c), wire[c][i].to >= Sent
          PROVE  last' >= Sent \/ \E j \in WireIx(c)' : wire'[c][j].to >= Sent
      <4>1. CASE i = 1
          BY <1>6, <1>7, <1>11, <2>1, <3>1, <4>1
      <4>2. CASE i # 1
          BY <1>5, <3>1, <4>2
      <4>. QED BY <4>1, <4>2
    <3>2. last >= Sent => last' >= Sent
        BY <1>6, <1>7, <1>11
    <3>. QED BY <3>1, <3>2 DEF UpToDate
  <2>3. ASSUME \E i \in WireIx(c)' : wire'[c][i].kind = "exit",
               "snapshot" \in heard'[c] \/ \E i \in WireIx(c)' : wire'[c][i].kind = "snapshot"
        PROVE  last' = next \/ \E i \in WireIx(c)' : wire'[c][i].to = next
    <3>1. \E i \in WireIx(c) : wire[c][i].kind = "exit"
        BY <1>5, <2>3
    <3>2. "snapshot" \in heard[c] \/ \E i \in WireIx(c) : wire[c][i].kind = "snapshot"
        BY <1>3, <1>5, <2>3
    <3>3. last = next => last' = next
        BY <1>6, <1>7, <1>11
    <3>4. ASSUME NEW i \in WireIx(c), wire[c][i].to = next
          PROVE  last' = next \/ \E j \in WireIx(c)' : wire'[c][j].to = next
      <4>1. CASE i = 1
        <5>1. wire[c][1] # Exit
            BY <1>10, <1>12, <2>3
        <5>. QED BY <1>6, <1>7, <1>11, <3>4, <4>1, <5>1
      <4>2. CASE i # 1
          BY <1>5, <3>4, <4>2
      <4>. QED BY <4>1, <4>2
    <3>. QED BY <3>1, <3>2, <3>3, <3>4 DEF UpToDate
  <2>4. ASSUME "exit" \in heard'[c], "snapshot" \in heard'[c] PROVE last' = next
    <3>1. wire[c][1].kind = "exit"
        BY <1>3, <1>8, <2>4
    <3>2. "snapshot" \in heard[c]
        BY <1>3, <2>4, <3>1
    <3>3. last = next \/ wire[c][1].to = next
        BY <1>5, <1>12, <3>1, <3>2 DEF UpToDate
    <3>. QED BY <1>6, <1>7, <1>10, <1>12, <3>1, <3>3
  <2>. QED BY <1>1, <1>6, <2>2, <2>3, <2>4 DEF UpToDate
<1>. QED BY <1>13, <1>14, <1>15, <1>16, <1>17, <1>18


\* A message of another socket: the terminal shows more, and asks past more.
LEMMA OtherMessage ==
    ASSUME SizeAssumption, TypeOK, Alone, NEW c \in Socket, NEW d \in Socket, d # c,
           OnMessage(d), IInv(c), IInv(d)
    PROVE  IInv(c)'
<1>1. IInv(d)'
    BY MessageStep
<1>2. /\ ws[d] = "open" /\ UNCHANGED <<next, ring, reader, beside>>
      /\ srv'[c] = srv[c] /\ attached'[c] = attached[c] /\ rx'[c] = rx[c] /\ lagged'[c] = lagged[c]
      /\ attach'[c] = attach[c] /\ wire'[c] = wire[c] /\ ws'[c] = ws[c] /\ heard'[c] = heard[c]
    BY MessageCases, Zenon DEF session, server
<1>3. last <= last' /\ last' <= next /\ last \in Nat /\ last' \in Nat /\ next \in Nat
  <2>1. wire[d][1].to \in Nat
    <3>1. wire[d] # <<>> /\ wire[d] \in Seq(Frame)
        BY MessageCases DEF TypeOK
    <3>2. 1 \in WireIx(d)
        BY <3>1 DEF WireIx
    <3>. QED BY <3>2, FrameNumbers
  <2>2. last \in Nat /\ next \in Nat
      BY DEF TypeOK, SizeAssumption
  <2>3. last' = last \/ last' = IF wire[d][1].to > last THEN wire[d][1].to ELSE last
      BY MessageCases, Zenon
  <2>4. last' <= next'
      BY <1>1 DEF IInv, Connection
  <2>. QED BY <1>2, <2>1, <2>2, <2>3, <2>4
<1>4. \A s \in Seqno : shown[s] > 0 => shown'[s] > 0
  <2>1. \A s \in Seqno : shown'[s] = shown[s] + IF s \in wire[d][1].from..wire[d][1].to THEN 1 ELSE 0
      BY MessageCases, Zenon
  <2>2. \A s \in Seqno : shown[s] \in Nat
      BY DEF TypeOK
  <2>. QED BY <2>1, <2>2
<1>5. WireIx(c)' = WireIx(c) /\ RxIx(c)' = RxIx(c) /\ Oldest' = Oldest /\ Sent' = Sent
    BY <1>2 DEF WireIx, RxIx, Oldest, Sent
<1>6. ~beside => /\ srv[c] = "none" /\ wire[c] = <<>> /\ attach[c] = None /\ rx[c] = <<>>
                 /\ WireIx(c) = {} /\ RxIx(c) = {}
  <2>1. ASSUME ~beside
        PROVE  srv[c] = "none" /\ wire[c] = <<>> /\ attach[c] = None /\ rx[c] = <<>>
    <3>1. Live(d)
        BY <1>2 DEF Live
    <3>2. ~Live(c)
        BY <2>1, <3>1 DEF Alone
    <3>. QED BY <3>2 DEF IInv, Connection
  <2>. QED BY <2>1 DEF WireIx, RxIx
<1>7. Connection(c)'
  <2>1. attach[c] # None => attach[c] \in Nat
      BY DEF TypeOK, SizeAssumption
  <2>2. attach[c] # None => attach[c] <= last' /\ (~beside => attach[c] = last') /\ ws[c] = "open"
      BY <1>3, <1>6, <2>1 DEF IInv, Connection
  <2>. QED BY <1>2, <1>3, <1>5, <2>2 DEF IInv, Connection, Live
<1>8. Received(c)'
    BY <1>2, <1>5 DEF IInv, Received
<1>9. InFlight(c)'
    BY <1>2, <1>5, <1>6 DEF IInv, InFlight
<1>10. Counted(c)'
  <2>1. ~beside' => \A s \in Seqno : /\ shown'[s] <= 2
                                     /\ shown'[s] > 0 => s <= last'
                                     /\ s > Sent' => shown'[s] <= 1
      BY <1>1 DEF IInv, Counted
  <2>. QED BY <1>2, <1>5, <1>6, <2>1 DEF Counted
<1>11. Covered(c)'
  <2>1. \A s \in Seqno, n \in Nat : Held(c, s, n) => Held(c, s, n)'
      BY <1>2, <1>4, <1>5 DEF Held
  <2>2. NoGap'
      BY <1>1 DEF IInv, Covered
  <2>3. MaxSeq \in Nat /\ next \in Nat /\ next <= MaxSeq /\ Sent \in Int /\ Sent <= next
      BY DEF TypeOK, SizeAssumption, Sent
  <2>4. ASSUME NEW i \in WireIx(c), NEW s \in 1..wire[c][i].to PROVE Held(c, s, i)'
    <3>1. wire[c][i] \in Frame /\ i \in Nat
        BY FrameNumbers DEF WireIx
    <3>2. s \in Seqno
        BY <2>3, <3>1 DEF Frame, Seqno
    <3>. QED BY <2>1, <3>1, <3>2 DEF IInv, Covered
  <2>5. ASSUME attached[c], ~lagged[c], NEW i \in RxIx(c), NEW s \in 1..rx[c][i].to
        PROVE  Held(c, s, Len(wire[c]))' \/ \E j \in 1..i : rx[c][j] = Chunk(s)
    <3>1. rx[c][i] \in Frame /\ Len(wire[c]) \in Nat
        BY FrameNumbers
    <3>2. s \in Seqno
        BY <2>3, <3>1 DEF Frame, Seqno
    <3>3. Held(c, s, Len(wire[c])) \/ \E j \in 1..i : rx[c][j] = Chunk(s)
        BY <2>5 DEF IInv, Covered
    <3>. QED BY <1>2, <2>1, <3>1, <3>2, <3>3
  <2>6. ASSUME attached[c], ~lagged[c], NEW s \in 1..Sent
        PROVE  Held(c, s, Len(wire[c]))' \/ \E j \in RxIx(c) : rx[c][j] = Chunk(s)
    <3>1. Len(wire[c]) \in Nat
        BY FrameNumbers
    <3>2. s \in Seqno
        BY <2>3 DEF Seqno
    <3>3. Held(c, s, Len(wire[c])) \/ \E j \in RxIx(c) : rx[c][j] = Chunk(s)
        BY <2>6 DEF IInv, Covered
    <3>. QED BY <1>2, <2>1, <3>1, <3>2, <3>3
  <2>. QED BY <1>2, <1>5, <2>2, <2>4, <2>5, <2>6 DEF Covered
<1>12. UpToDate(c)'
  <2>1. Sent \in Int
      BY DEF TypeOK, SizeAssumption, Sent
  <2>2. (last >= Sent => last' >= Sent) /\ (last = next => last' = next)
      BY <1>3, <2>1
  <2>. QED BY <1>2, <1>5, <2>2 DEF IInv, UpToDate
<1>. QED BY <1>7, <1>8, <1>9, <1>10, <1>11, <1>12 DEF IInv

-----------------------------------------------------------------------------

\* No step but Connect makes a socket alive.
LEMMA AloneStep ==
    ASSUME TypeOK, Alone, [Next]_vars
    PROVE  Alone'
<1>1. CASE Reload
    BY <1>1 DEF Reload, OfSockets, Alone, Live
<1>2. CASE Connect
  <2>1. PICK c \in Socket :
             /\ \A d \in Socket : d # c => ws'[d] = ws[d]
             /\ beside' <=> (beside \/ \E d \in Socket : Live(d))
      BY <1>2, ConnectFacts
  <2>2. ASSUME ~beside', NEW d \in Socket, d # c PROVE ~Live(d)'
      BY <2>1, <2>2 DEF Live
  <2>. QED BY <2>2 DEF Alone
<1>3. ASSUME beside' = beside, \A c \in Socket : Live(c)' => Live(c)
      PROVE  Alone'
    BY <1>3 DEF Alone
<1>4. ASSUME NEW c \in Socket, OnOpen(c) \/ CloseStarts(c) \/ OnClose(c) \/ Drop(c)
      PROVE  Alone'
  <2>1. beside' = beside
      BY <1>4, Zenon DEF OnOpen, CloseStarts, OnClose, Drop, page
  <2>2. \A d \in Socket : Live(d)' => Live(d)
      BY <1>4 DEF OnOpen, CloseStarts, OnClose, Drop, Live, TypeOK
  <2>. QED BY <1>3, <2>1, <2>2
<1>5. CASE OnTunnelUrlChanged
  <2>1. beside' = beside /\ ws' = [ws EXCEPT ![handle] = "closing"]
      BY <1>5, Zenon DEF OnTunnelUrlChanged, page
  <2>2. \A d \in Socket : Live(d)' => Live(d)
      BY <2>1 DEF Live, TypeOK
  <2>. QED BY <1>3, <2>1, <2>2
<1>6. ASSUME UNCHANGED <<ws, beside>>
      PROVE  Alone'
    BY <1>6 DEF Alone, Live
<1>7. CASE Read \/ SendChunk \/ SendExit \/ ReadEnd \/ Remove \/ CloseSession \/ UNCHANGED vars
    BY <1>6, <1>7, Zenon DEF Read, SendChunk, SendExit, ReadEnd, Remove, CloseSession, vars,
       browser, page
<1>8. ASSUME NEW c \in Socket,
             Upgraded(c) \/ ServeAttach(c) \/ RecvLagged(c) \/ RecvFrame(c) \/ OnMessage(c)
      PROVE  Alone'
    BY <1>6, <1>8, Zenon DEF Upgraded, ServeAttach, RecvLagged, RecvFrame, OnMessage,
       browser, page
<1>. QED
    BY <1>1, <1>2, <1>4, <1>5, <1>7, <1>8 DEF Next, Reader, Attach, Pass, Browser, Fault

\* A step of a websocket task, or the opening or the end of a socket, concerns
\* no other socket.
LEMMA ElsewhereStep ==
    ASSUME TypeOK, NEW c \in Socket, NEW d \in Socket, d # c, IInv(d),
           \/ Upgraded(c) \/ ServeAttach(c) \/ RecvLagged(c) \/ RecvFrame(c)
           \/ OnOpen(c) \/ OnClose(c)
    PROVE  IInv(d)'
<1>1. ASSUME Same(d), UNCHANGED <<session, last, shown, beside>>
      PROVE  IInv(d)'
    BY <1>1, OthersRest DEF session
<1>2. UNCHANGED <<session, last, shown, beside>>
    BY Zenon DEF Upgraded, ServeAttach, RecvLagged, RecvFrame, OnOpen, OnClose, browser, page
<1>3. CASE Quit(c) /\ (wire' = wire \/ wire' = [wire EXCEPT ![c] = Append(wire[c], Head(rx[c]))])
           /\ UNCHANGED <<attach, browser>>
  <2>1. UNCHANGED <<srv[d], attached[d], rx[d], lagged[d]>>
      BY <1>3, QuitFacts
  <2>2. UNCHANGED <<attach[d], wire[d], ws[d], heard[d]>>
      BY <1>3 DEF browser, TypeOK
  <2>. QED BY <1>1, <1>2, <2>1, <2>2, Zenon DEF Same
<1>4. CASE Upgraded(c)
  <2>1. UNCHANGED <<attach, wire, browser>>
      BY <1>4, Zenon DEF Upgraded, network
  <2>2. CASE Quit(c)
      BY <1>3, <2>1, <2>2
  <2>3. CASE srv' = [srv EXCEPT ![c] = "serving"] /\ UNCHANGED <<attached, rx, lagged>>
    <3>1. srv'[d] = srv[d]
        BY <2>3 DEF TypeOK
    <3>2. Same(d)
        BY <2>1, <2>3, <3>1, Zenon DEF Same, browser
    <3>. QED BY <1>1, <1>2, <3>2
  <2>. QED BY <1>4, <2>2, <2>3, Zenon DEF Upgraded
<1>5. CASE ServeAttach(c)
  <2>1. /\ attached' = [attached EXCEPT ![c] = TRUE] /\ attach' = [attach EXCEPT ![c] = None]
        /\ wire' = [wire EXCEPT ![c] = Append(wire[c], SnapshotSince(attach[c]))]
        /\ UNCHANGED <<srv, rx, lagged, ws, heard>>
      BY <1>5, Zenon DEF ServeAttach, browser
  <2>2. UNCHANGED <<attached[d], attach[d], wire[d]>>
      BY <2>1 DEF TypeOK
  <2>3. Same(d)
      BY <2>1, <2>2, Zenon DEF Same
  <2>. QED BY <1>1, <1>2, <2>3
<1>6. CASE RecvLagged(c)
    BY <1>3, <1>6, Zenon DEF RecvLagged, network
<1>7. CASE RecvFrame(c)
  <2>1. /\ wire' = wire \/ wire' = [wire EXCEPT ![c] = Append(wire[c], Head(rx[c]))]
        /\ UNCHANGED <<attach, browser>>
      BY <1>7, RecvFrameCases, Zenon
  <2>2. CASE Quit(c)
      BY <1>3, <2>1, <2>2
  <2>3. CASE rx' = [rx EXCEPT ![c] = Tail(rx[c])] /\ UNCHANGED <<srv, attached, lagged>>
    <3>1. UNCHANGED <<rx[d], wire[d]>>
        BY <2>1, <2>3 DEF TypeOK
    <3>2. Same(d)
        BY <2>1, <2>3, <3>1, Zenon DEF Same, browser
    <3>. QED BY <1>1, <1>2, <3>2
  <2>. QED BY <1>7, <2>2, <2>3, RecvFrameCases, Zenon
<1>8. CASE OnOpen(c) \/ OnClose(c)
  <2>1. UNCHANGED <<srv, attached, rx, lagged, wire, heard>>
      BY <1>8, Zenon DEF OnOpen, OnClose, server, network
  <2>2. UNCHANGED <<attach[d], ws[d]>>
      BY <1>8 DEF OnOpen, OnClose, network, TypeOK
  <2>3. Same(d)
      BY <2>1, <2>2, Zenon DEF Same
  <2>. QED BY <1>1, <1>2, <2>3
<1>. QED BY <1>4, <1>5, <1>6, <1>7, <1>8

THEOREM IInvStep ==
    ASSUME SizeAssumption, TypeOK, Numbered, StreamInv, [Next]_vars
    PROVE  StreamInv'
<1>1. Alone'
    BY AloneStep DEF StreamInv
<1>2. \A c \in Socket : IInv(c)
    BY DEF StreamInv
<1>3. \A c \in Socket : IInv(c)'
  <2>1. CASE UNCHANGED vars
    <3>1. ASSUME NEW c \in Socket PROVE IInv(c)'
      <4>1. Same(c) /\ UNCHANGED <<next, ring, reader, last, shown, beside>>
          BY <2>1, Zenon DEF vars, session, server, network, browser, page, Same
      <4>. QED BY <1>2, <4>1, OthersRest
    <3>. QED BY <3>1
  <2>2. CASE Read \/ ReadEnd \/ CloseSession \/ Reader
      BY <1>2, <2>2, ReadStep, ReaderRests, SendChunkStep, SendExitStep DEF Reader
  <2>3. CASE Attach \/ Pass \/ \E c \in Socket : OnOpen(c) \/ OnClose(c)
    <3>1. PICK c \in Socket : \/ Upgraded(c) \/ ServeAttach(c) \/ RecvLagged(c) \/ RecvFrame(c)
                              \/ OnOpen(c) \/ OnClose(c)
        BY <2>3 DEF Attach, Pass
    <3>2. IInv(c)'
        BY <1>2, <3>1, ServeAttachStep, UpgradedStep, RecvLaggedStep, RecvFrameStep, OpenStep
    <3>3. \A d \in Socket : d # c => IInv(d)'
        BY <1>2, <3>1, ElsewhereStep
    <3>. QED BY <3>2, <3>3
  <2>4. CASE Connect
      BY <1>2, <2>4, ConnectStep
  <2>5. CASE \E c \in Socket : OnMessage(c)
    <3>1. PICK c \in Socket : OnMessage(c)
        BY <2>5
    <3>2. IInv(c)'
        BY <1>2, <3>1, MessageStep
    <3>3. \A d \in Socket : d # c => IInv(d)'
        BY <1>2, <3>1, OtherMessage DEF StreamInv
    <3>. QED BY <3>2, <3>3
  <2>6. CASE OnTunnelUrlChanged \/ \E c \in Socket : CloseStarts(c) \/ Drop(c)
      BY <1>2, <2>6, ClosingStep
  <2>7. CASE Reload
      BY <1>2, <2>7, ReloadStep
  <2>. QED
      BY <2>1, <2>2, <2>3, <2>4, <2>5, <2>6, <2>7 DEF Next, Attach, Pass, Browser, Fault
<1>. QED BY <1>1, <1>3 DEF StreamInv

\* The invariant with what it rests on.
LEMMA Invariant ==
    ASSUME SizeAssumption
    PROVE  Spec => [](TypeOK /\ Numbered /\ StreamInv)
<1>1. Init => TypeOK /\ Numbered /\ StreamInv
    BY TypedInit, IInvInit
<1>2. TypeOK /\ Numbered /\ StreamInv /\ [Next]_vars => (TypeOK /\ Numbered /\ StreamInv)'
    BY TypedStep, IInvStep
<1>. QED BY <1>1, <1>2, PTL DEF Spec

\* The terminal misses nothing the agent still has, through lost frames,
\* overflowing subscribers, broken connections, a second socket and reloads.
THEOREM NothingMissed == ASSUME SizeAssumption PROVE Spec => []NoGap
<1>1. StreamInv => NoGap
    BY DEF StreamInv, IInv, Covered, SizeAssumption
<1>. QED BY <1>1, Invariant, PTL

\* Until a socket is opened beside another, a chunk is written at most twice: by
\* a snapshot and live.
THEOREM AtMostTwice == ASSUME SizeAssumption PROVE Spec => []ShownAtMostTwice
<1>1. StreamInv => ShownAtMostTwice
    BY DEF StreamInv, IInv, Counted, ShownAtMostTwice, SizeAssumption
<1>. QED BY <1>1, Invariant, PTL

\* When a browser that got its snapshot hears of the exit on the same socket, it
\* has the last chunk.
THEOREM LastWordShown == ASSUME SizeAssumption PROVE Spec => []ExitComesLast
<1>1. StreamInv => ExitComesLast
    BY DEF StreamInv, IInv, UpToDate, ExitComesLast
<1>. QED BY <1>1, Invariant, PTL

=============================================================================
