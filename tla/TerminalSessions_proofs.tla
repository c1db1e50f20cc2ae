----------------------- MODULE TerminalSessions_proofs -----------------------
(***************************************************************************)
(* Proofs about TerminalSessions.  The map and the reader threads are tied   *)
(* together by where the creating handler is (InvCreate); the rows and the  *)
(* map by the requests that have taken a session out (NoOrphanRow).  Last,  *)
(* what is proved of the sessions and of a stream is shown to hold of both  *)
(* together, as MCWorkbench composes them.                                  *)
(***************************************************************************)
EXTENDS MCWorkbench, TLAPS

THEOREM TypeInit == Init => TypeOK
  BY DEF Init, TypeOK, Status

\* What a request does next is one of its steps.
LEMMA WorkStep ==
    ASSUME TypeOK, NEW r \in Request, NEW step \in Step, At(r, step)
    PROVE  req[r] \in Work /\ req[r].s \in Session /\ req[r].at = step
  BY DEF TypeOK, At, Work

LEMMA GotoType ==
    ASSUME TypeOK, NEW r \in Request, req[r] \in Work, NEW step \in Step, Goto(r, step)
    PROVE  /\ req' \in [Request -> Work \cup {NoRequest}]
           /\ req'[r] = [at |-> step, s |-> req[r].s]
           /\ \A q \in Request : q # r => req'[q] = req[q]
  BY DEF TypeOK, Goto, Work

LEMMA AnswerType ==
    ASSUME TypeOK, NEW r \in Request, Answer(r)
    PROVE  /\ req' \in [Request -> Work \cup {NoRequest}]
           /\ req'[r] = NoRequest
           /\ \A q \in Request : q # r => req'[q] = req[q]
  BY DEF TypeOK, Answer

LEMMA SetRowType ==
    ASSUME TypeOK, NEW s \in Session, NEW status \in Status, SetRow(s, status)
    PROVE  /\ row' \in [Session -> Status]
           /\ row'[s] = status
           /\ \A t \in Session : t # s => row'[t] = row[t]
  BY DEF TypeOK, SetRow

THEOREM TypeStep == TypeOK /\ [Next]_vars => TypeOK'
<1> SUFFICES ASSUME TypeOK, [Next]_vars PROVE TypeOK'
    OBVIOUS
<1>1. ASSUME NEW s \in Session, Admit(s) \/ Creation(s) PROVE TypeOK'
  <2>1. CASE Admit(s) BY <2>1 DEF Admit, TypeOK
  <2>2. CASE InsertRow(s)
      BY <2>2, SetRowType DEF InsertRow, TypeOK, Status
  <2>3. CASE Spawn(s) BY <2>3 DEF Spawn, TypeOK
  <2>4. CASE StartReader(s) BY <2>4 DEF StartReader, TypeOK
  <2>5. CASE SpawnFails(s) BY <2>5 DEF SpawnFails, TypeOK
  <2>6. CASE MarkFailed(s)
      BY <2>6, SetRowType DEF MarkFailed, TypeOK, Status
  <2>. QED BY <1>1, <2>1, <2>2, <2>3, <2>4, <2>5, <2>6 DEF Creation
<1>2. ASSUME NEW s \in Session, Reader(s) PROVE TypeOK'
  <2>1. CASE ReadEnd(s) BY <2>1 DEF ReadEnd, TypeOK
  <2>2. CASE LockChild(s) BY <2>2 DEF LockChild, TypeOK
  <2>3. CASE Wait(s) BY <2>3 DEF Wait, TypeOK
  <2>4. CASE SaveExit(s)
      BY <2>4, SetRowType DEF SaveExit, TypeOK, Status
  <2>5. CASE Remove(s) BY <2>5 DEF Remove, TypeOK
  <2>. QED BY <1>2, <2>1, <2>2, <2>3, <2>4, <2>5 DEF Reader
<1>3. ASSUME NEW s \in Session, ShellExits(s) \/ TtyCloses(s) PROVE TypeOK'
    BY <1>3 DEF ShellExits, TtyCloses, TypeOK
<1>4. ASSUME NEW r \in Request, NEW s \in Session, CloseReads(r, s) \/ Touch(r, s)
      PROVE  TypeOK'
    BY <1>4 DEF CloseReads, Touch, TypeOK, Work, Step
<1>5. ASSUME NEW r \in Request, Handler(r) PROVE TypeOK'
  <2>1. CASE Dismiss(r)
      BY <2>1, WorkStep, SetRowType, AnswerType DEF Dismiss, TypeOK, Status, Step
  <2>2. CASE TakeFromMap(r)
      BY <2>2, WorkStep, GotoType DEF TakeFromMap, TypeOK, Step
  <2>3. CASE Kill(r)
    <3>1. req[r].s \in Session /\ req' \in [Request -> Work \cup {NoRequest}]
        BY <2>3, WorkStep, GotoType DEF Kill, Step
    <3>2. tty' \in [Session -> BOOLEAN]
      <4>1. PICK kept \in {tty[req[r].s], FALSE} : tty' = [tty EXCEPT ![req[r].s] = kept]
          BY <2>3 DEF Kill
      <4>2. kept \in BOOLEAN
          BY <3>1, <4>1, Zenon DEF TypeOK
      <4>. QED BY <4>1, <4>2 DEF TypeOK
    <3>3. shell' \in [Session -> {"none", "live", "gone"}]
        BY <2>3 DEF Kill, TypeOK
    <3>. QED BY <2>3, <3>1, <3>2, <3>3 DEF Kill, TypeOK
  <2>4. CASE SaveClosed(r)
      BY <2>4, WorkStep, SetRowType, AnswerType DEF SaveClosed, TypeOK, Status, Step
  <2>5. CASE MarkGone(r)
      BY <2>5, WorkStep, SetRowType, AnswerType DEF MarkGone, TypeOK, Status, Step
  <2>. QED BY <1>5, <2>1, <2>2, <2>3, <2>4, <2>5 DEF Handler
<1>6. CASE Restart
    BY <1>6 DEF Restart, TypeOK, Status
<1>7. CASE UNCHANGED vars
    BY <1>7 DEF vars, TypeOK
<1>. QED BY <1>1, <1>2, <1>3, <1>4, <1>5, <1>6, <1>7 DEF Next

\* Every variable keeps its type.
THEOREM TypeCorrect == Spec => []TypeOK
  BY TypeInit, TypeStep, PTL DEF Spec

-----------------------------------------------------------------------------
\* A reader runs only for a creation that is over.
InvCreate == \A s \in Session : create[s] # "done" => reader[s] = "none"

\* Who is about to leave the map has written its row, and no creation will
\* write "running" over it.
InvRemove == \A s \in Session : reader[s] = "remove" => row[s] # "running"

IInv == TypeOK /\ InvCreate /\ InvRemove /\ NoPhantom /\ NoOrphanRow

THEOREM IInvInit == Init => IInv
  BY TypeInit DEF Init, IInv, InvCreate, InvRemove, NoPhantom, NoOrphanRow

LEMMA CreateStep ==
    ASSUME IInv, NEW s \in Session, Admit(s) \/ Creation(s)
    PROVE  InvCreate' /\ InvRemove' /\ NoPhantom' /\ NoOrphanRow'
<1>. USE DEF IInv
<1>0. UNCHANGED req => \A r \in Request : (At(r, "kill") <=> At(r, "kill")') /\ (At(r, "close") <=> At(r, "close")')
    BY DEF At
<1>1. CASE Admit(s)
    BY <1>1, <1>0 DEF Admit, TypeOK, InvCreate, InvRemove, NoPhantom, NoOrphanRow
<1>2. CASE InsertRow(s)
    BY <1>2, <1>0, SetRowType DEF InsertRow, TypeOK, Status, InvCreate, InvRemove, NoPhantom, NoOrphanRow
<1>3. CASE Spawn(s)
    BY <1>3, <1>0 DEF Spawn, TypeOK, InvCreate, InvRemove, NoPhantom, NoOrphanRow
<1>4. CASE StartReader(s)
    BY <1>4, <1>0 DEF StartReader, TypeOK, InvCreate, InvRemove, NoPhantom, NoOrphanRow
<1>5. CASE SpawnFails(s)
    BY <1>5, <1>0 DEF SpawnFails, TypeOK, InvCreate, InvRemove, NoPhantom, NoOrphanRow
<1>6. CASE MarkFailed(s)
    BY <1>6, <1>0, SetRowType DEF MarkFailed, TypeOK, Status, InvCreate, InvRemove, NoPhantom, NoOrphanRow
<1>. QED BY <1>1, <1>2, <1>3, <1>4, <1>5, <1>6 DEF Creation

LEMMA ReaderStep ==
    ASSUME IInv, NEW s \in Session, Reader(s) \/ ShellExits(s) \/ TtyCloses(s)
    PROVE  InvCreate' /\ InvRemove' /\ NoPhantom' /\ NoOrphanRow'
<1>. USE DEF IInv
<1>0. UNCHANGED req => \A r \in Request : (At(r, "kill") <=> At(r, "kill")') /\ (At(r, "close") <=> At(r, "close")')
    BY DEF At
<1>1. CASE ReadEnd(s)
    BY <1>1, <1>0 DEF ReadEnd, TypeOK, InvCreate, InvRemove, NoPhantom, NoOrphanRow
<1>2. CASE LockChild(s)
    BY <1>2, <1>0 DEF LockChild, TypeOK, InvCreate, InvRemove, NoPhantom, NoOrphanRow
<1>3. CASE Wait(s)
    BY <1>3, <1>0 DEF Wait, TypeOK, InvCreate, InvRemove, NoPhantom, NoOrphanRow
<1>4. CASE SaveExit(s)
    BY <1>4, <1>0, SetRowType DEF SaveExit, TypeOK, Status, InvCreate, InvRemove, NoPhantom, NoOrphanRow
<1>5. CASE Remove(s)
    BY <1>5, <1>0 DEF Remove, TypeOK, InvCreate, InvRemove, NoPhantom, NoOrphanRow
<1>6. CASE ShellExits(s) \/ TtyCloses(s)
    BY <1>6, <1>0 DEF ShellExits, TtyCloses, InvCreate, InvRemove, NoPhantom, NoOrphanRow
<1>. QED BY <1>1, <1>2, <1>3, <1>4, <1>5, <1>6 DEF Reader

\* A step of one request leaves the others where they are.
LEMMA OthersStay ==
    ASSUME NEW r \in Request, \A q \in Request : q # r => req'[q] = req[q]
    PROVE  \A q \in Request : q # r =>
             (At(q, "kill") \/ At(q, "close")
                 => (At(q, "kill")' \/ At(q, "close")') /\ req'[q].s = req[q].s)
  BY DEF At

LEMMA HandlerStep ==
    ASSUME IInv, NEW r \in Request, Handler(r)
    PROVE  InvCreate' /\ InvRemove' /\ NoPhantom' /\ NoOrphanRow'
<1>. USE DEF IInv
<1>. DEFINE Closing(s) == \E q \in Request : (At(q, "kill") \/ At(q, "close")) /\ req[q].s = s
<1>1. CASE Dismiss(r)
  <2>1. req[r].s \in Session /\ req[r].at = "dismiss"
      BY <1>1, WorkStep DEF Dismiss, Step
  <2>2. /\ row'[req[r].s] = "closed"
        /\ \A t \in Session : t # req[r].s => row'[t] = row[t]
      BY <1>1, <2>1, SetRowType DEF Dismiss, Status
  <2>3. \A s \in Session : Closing(s) => Closing(s)'
      BY <1>1, <2>1, AnswerType, OthersStay DEF Dismiss, At
  <2>. QED BY <1>1, <2>1, <2>2, <2>3 DEF Dismiss, InvCreate, InvRemove, NoPhantom, NoOrphanRow
<1>2. CASE TakeFromMap(r)
  <2>1. req[r].s \in Session /\ req[r].at = "lookup" /\ req[r] \in Work
      BY <1>2, WorkStep DEF TakeFromMap, Step
  <2>2. /\ req'[r] = [at |-> IF req[r].s \in map THEN "kill" ELSE "gone", s |-> req[r].s]
        /\ \A q \in Request : q # r => req'[q] = req[q]
      BY <1>2, <2>1, GotoType DEF TakeFromMap, Step
  <2>3. \A s \in Session : Closing(s) => Closing(s)'
      BY <2>1, <2>2, OthersStay DEF At
  <2>4. ASSUME req[r].s \in map PROVE At(r, "kill")' /\ req'[r].s = req[r].s
      <3>1. req'[r] = [at |-> "kill", s |-> req[r].s]
          BY <2>2, <2>4
      <3>2. req'[r] \in Work
          BY <2>1, <3>1 DEF Work, Step
      <3>3. At(r, "kill")' /\ req'[r].s = req[r].s
          BY <3>1, <3>2, NoRequestAssumption DEF At
      <3>. QED BY <3>3
  <2>. QED BY <1>2, <2>1, <2>3, <2>4 DEF TakeFromMap, InvCreate, InvRemove, NoPhantom, NoOrphanRow
<1>3. CASE Kill(r)
  <2>1. req[r].s \in Session /\ req[r] \in Work
      BY <1>3, WorkStep DEF Kill, Step
  <2>2. /\ req'[r] = [at |-> "close", s |-> req[r].s]
        /\ \A q \in Request : q # r => req'[q] = req[q]
      BY <1>3, <2>1, GotoType DEF Kill, Step
  <2>3. At(r, "close")' /\ req'[r].s = req[r].s
      <3>1. req'[r] \in Work
          BY <2>1, <2>2 DEF Work, Step
      <3>. QED BY <2>2, <3>1, NoRequestAssumption DEF At
  <2>4. \A s \in Session : Closing(s) => Closing(s)'
      BY <2>2, <2>3, OthersStay DEF At
  <2>. QED BY <1>3, <2>4 DEF Kill, InvCreate, InvRemove, NoPhantom, NoOrphanRow
<1>4. CASE SaveClosed(r) \/ MarkGone(r)
  <2>1. req[r].s \in Session
      BY <1>4, WorkStep DEF SaveClosed, MarkGone, Step
  <2>2. /\ row'[req[r].s] # "running"
        /\ \A t \in Session : t # req[r].s => row'[t] = row[t]
      BY <1>4, <2>1, SetRowType DEF SaveClosed, MarkGone, Status
  <2>3. \A q \in Request : q # r => req'[q] = req[q]
      BY <1>4, AnswerType DEF SaveClosed, MarkGone
  <2>4. \A s \in Session : s # req[r].s /\ Closing(s) => Closing(s)'
      BY <2>3, OthersStay DEF At
  <2>. QED BY <1>4, <2>1, <2>2, <2>4
           DEF SaveClosed, MarkGone, InvCreate, InvRemove, NoPhantom, NoOrphanRow
<1>. QED BY <1>1, <1>2, <1>3, <1>4 DEF Handler

LEMMA RequestStep ==
    ASSUME IInv, NEW r \in Request, NEW s \in Session, CloseReads(r, s) \/ Touch(r, s)
    PROVE  InvCreate' /\ InvRemove' /\ NoPhantom' /\ NoOrphanRow'
<1>1. ~At(r, "kill") /\ ~At(r, "close")
    BY DEF CloseReads, Touch, Free, At
<1>2. \A q \in Request : q # r => req'[q] = req[q]
    BY DEF CloseReads, Touch, IInv, TypeOK
<1>3. \A q \in Request : At(q, "kill") \/ At(q, "close") =>
          (At(q, "kill")' \/ At(q, "close")') /\ req'[q].s = req[q].s
    BY <1>1, <1>2 DEF At
<1>. QED BY <1>3 DEF CloseReads, Touch, IInv, InvCreate, InvRemove, NoPhantom, NoOrphanRow

THEOREM IInvStep == IInv /\ [Next]_vars => IInv'
<1> SUFFICES ASSUME IInv, [Next]_vars PROVE IInv'
    OBVIOUS
<1>1. TypeOK'
    BY TypeStep DEF IInv
<1>2. InvCreate' /\ InvRemove' /\ NoPhantom' /\ NoOrphanRow'
  <2>1. CASE Restart
      BY <2>1 DEF Restart, IInv, TypeOK, InvCreate, InvRemove, NoPhantom, NoOrphanRow
  <2>2. CASE UNCHANGED vars
      BY <2>2 DEF vars, IInv, InvCreate, InvRemove, NoPhantom, NoOrphanRow, At
  <2>. QED BY <2>1, <2>2, CreateStep, ReaderStep, HandlerStep, RequestStep DEF Next
<1>. QED BY <1>1, <1>2 DEF IInv

THEOREM Invariance == Spec => []IInv
  BY IInvInit, IInvStep, PTL DEF Spec

\* No interleaving leaves an entry in the map that nobody will remove.
THEOREM NoPhantoms == Spec => []NoPhantom
<1>1. IInv => NoPhantom
    BY DEF IInv
<1>. QED BY Invariance, <1>1, PTL

\* A row says "running" without a live session only while its handler is on
\* the way to change that.
THEOREM NoOrphans == Spec => []NoOrphanRow
<1>1. IInv => NoOrphanRow
    BY DEF IInv
<1>. QED BY Invariance, <1>1, PTL

-----------------------------------------------------------------------------
(* The sessions and a stream in one behaviour: what TerminalStream_proofs   *)
(* shows of a stream holds of the stream here.                              *)

StreamProofs == INSTANCE TerminalStream_proofs WITH reader <- thread

\* StreamProofs has its own copy of the stream's definitions, expanded here.
LEMMA SameSizes == StreamProofs!SizeAssumption
  BY StreamAssumption DEF Stream!SizeAssumption, StreamProofs!SizeAssumption

LEMMA SameProperties ==
    /\ Stream!TypeOK <=> StreamProofs!TypeOK
    /\ Stream!NoGap <=> StreamProofs!NoGap
    /\ Stream!ShownAtMostTwice <=> StreamProofs!ShownAtMostTwice
    /\ Stream!ExitComesLast <=> StreamProofs!ExitComesLast
<1>1. Stream!TypeOK <=> StreamProofs!TypeOK
    BY DEF Stream!TypeOK, StreamProofs!TypeOK, Stream!Frame, StreamProofs!Frame,
       Stream!Seqno, StreamProofs!Seqno
<1>2. Stream!NoGap <=> StreamProofs!NoGap
    BY DEF Stream!NoGap, StreamProofs!NoGap, Stream!Oldest, StreamProofs!Oldest
<1>3. Stream!ShownAtMostTwice <=> StreamProofs!ShownAtMostTwice
    BY DEF Stream!ShownAtMostTwice, StreamProofs!ShownAtMostTwice, Stream!Seqno, StreamProofs!Seqno
<1>4. Stream!ExitComesLast <=> StreamProofs!ExitComesLast
    BY DEF Stream!ExitComesLast, StreamProofs!ExitComesLast
<1>. QED BY <1>1, <1>2, <1>3, <1>4

LEMMA SameSteps ==
    /\ Stream!Init <=> StreamProofs!Init
    /\ Stream!Next <=> StreamProofs!Next
<1>. USE DEF Stream!session, StreamProofs!session, Stream!server, StreamProofs!server,
       Stream!network, StreamProofs!network, Stream!browser, StreamProofs!browser,
       Stream!page, StreamProofs!page, Stream!Quit, StreamProofs!Quit,
       Stream!OfSockets, StreamProofs!OfSockets
<1>1. Stream!Init <=> StreamProofs!Init
    BY DEF Stream!Init, StreamProofs!Init, Stream!Seqno, StreamProofs!Seqno
<1>2. Stream!Read <=> StreamProofs!Read
    BY DEF Stream!Read, StreamProofs!Read, Stream!Evict, StreamProofs!Evict,
       Stream!Total, StreamProofs!Total
<1>3. Stream!Reader <=> StreamProofs!Reader
    BY DEF Stream!Reader, StreamProofs!Reader, Stream!SendChunk, StreamProofs!SendChunk,
       Stream!Chunk, StreamProofs!Chunk, Stream!Broadcast, StreamProofs!Broadcast,
       Stream!Full, StreamProofs!Full, Stream!Remove, StreamProofs!Remove,
       Stream!SendExit, StreamProofs!SendExit, Stream!Exit, StreamProofs!Exit
<1>4. /\ Stream!ReadEnd <=> StreamProofs!ReadEnd
      /\ Stream!CloseSession <=> StreamProofs!CloseSession
    BY DEF Stream!ReadEnd, StreamProofs!ReadEnd, Stream!CloseSession, StreamProofs!CloseSession
<1>5. Stream!Attach <=> StreamProofs!Attach
    BY DEF Stream!Attach, StreamProofs!Attach, Stream!ServeAttach, StreamProofs!ServeAttach,
       Stream!SnapshotSince, StreamProofs!SnapshotSince, Stream!Oldest, StreamProofs!Oldest,
       Stream!Room, StreamProofs!Room
<1>6. Stream!Pass <=> StreamProofs!Pass
    BY DEF Stream!Pass, StreamProofs!Pass, Stream!Upgraded, StreamProofs!Upgraded,
       Stream!RecvLagged, StreamProofs!RecvLagged, Stream!RecvFrame, StreamProofs!RecvFrame,
       Stream!Room, StreamProofs!Room
<1>7. Stream!Connect <=> StreamProofs!Connect
    BY DEF Stream!Connect, StreamProofs!Connect, Stream!Live, StreamProofs!Live
<1>8. \A c \in Socket :
        /\ Stream!OnOpen(c) <=> StreamProofs!OnOpen(c)
        /\ Stream!OnMessage(c) <=> StreamProofs!OnMessage(c)
        /\ Stream!CloseStarts(c) <=> StreamProofs!CloseStarts(c)
        /\ Stream!OnClose(c) <=> StreamProofs!OnClose(c)
        /\ Stream!Drop(c) <=> StreamProofs!Drop(c)
    BY DEF Stream!OnOpen, StreamProofs!OnOpen, Stream!OnMessage, StreamProofs!OnMessage,
       Stream!SetLastSeq, StreamProofs!SetLastSeq, Stream!Seqno, StreamProofs!Seqno,
       Stream!CloseStarts, StreamProofs!CloseStarts, Stream!OnClose, StreamProofs!OnClose,
       Stream!Drop, StreamProofs!Drop, Stream!Live, StreamProofs!Live,
       Stream!Lose, StreamProofs!Lose
<1>9. Stream!Browser <=> StreamProofs!Browser
    BY <1>7, <1>8, Zenon DEF Stream!Browser, StreamProofs!Browser
<1>10. /\ Stream!OnTunnelUrlChanged <=> StreamProofs!OnTunnelUrlChanged
       /\ Stream!Reload <=> StreamProofs!Reload
    BY DEF Stream!OnTunnelUrlChanged, StreamProofs!OnTunnelUrlChanged, Stream!Reload, StreamProofs!Reload,
       Stream!Live, StreamProofs!Live, Stream!Lose, StreamProofs!Lose,
       Stream!Seqno, StreamProofs!Seqno
<1>11. Stream!Fault <=> StreamProofs!Fault
    BY <1>8, <1>10, Zenon DEF Stream!Fault, StreamProofs!Fault
<1>. QED
    BY <1>1, <1>2, <1>3, <1>4, <1>5, <1>6, <1>9, <1>11, Zenon DEF Stream!Next, StreamProofs!Next

\* A behaviour of the workbench is one of the sessions,
THEOREM SessionsInWorkbench == WorkbenchSpec => Spec
<1>1. WorkbenchInit => Init
    BY DEF WorkbenchInit
<1>2. [InSessions(Next) \/ InStream(Stream!Next)]_all => [Next]_vars
    BY DEF InSessions, InStream, all
<1>. QED BY <1>1, <1>2, PTL DEF WorkbenchSpec, Spec

\* ... and one of the stream.
THEOREM StreamInWorkbench == WorkbenchSpec => Stream!Spec
<1>1. WorkbenchInit => Stream!Init
    BY DEF WorkbenchInit
<1>2. UNCHANGED streamVars => UNCHANGED Stream!vars
    BY Zenon DEF streamVars, Stream!vars, Stream!session, Stream!server, Stream!network,
       Stream!browser, Stream!page
<1>3. [InSessions(Next) \/ InStream(Stream!Next)]_all => [Stream!Next]_Stream!vars
    BY <1>2 DEF InSessions, InStream, all
<1>. QED BY <1>1, <1>3, PTL DEF WorkbenchSpec, Stream!Spec

LEMMA SameSpec == Stream!Spec => StreamProofs!Spec
<1>1. UNCHANGED Stream!vars => UNCHANGED StreamProofs!vars
    BY DEF Stream!vars, StreamProofs!vars, Stream!session, StreamProofs!session,
       Stream!server, StreamProofs!server, Stream!network, StreamProofs!network,
       Stream!browser, StreamProofs!browser, Stream!page, StreamProofs!page
<1>2. [Stream!Next]_Stream!vars => [StreamProofs!Next]_StreamProofs!vars
    BY <1>1, SameSteps
<1>. QED BY <1>2, SameSteps, PTL DEF Stream!Spec, StreamProofs!Spec

\* A terminal misses no output the agent still has and, until a socket is opened
\* beside another, shows none of it more than twice.
THEOREM OutputComplete == WorkbenchSpec => []NoGap
<1>1. StreamProofs!Spec => [](StreamProofs!TypeOK /\ StreamProofs!NoGap /\ StreamProofs!ShownAtMostTwice)
    BY SameSizes, StreamProofs!TypeCorrect, StreamProofs!NothingMissed, StreamProofs!AtMostTwice, PTL
<1>2. StreamProofs!TypeOK /\ StreamProofs!NoGap /\ StreamProofs!ShownAtMostTwice => NoGap
    BY SameProperties DEF NoGap
<1>. QED BY <1>1, <1>2, StreamInWorkbench, SameSpec, PTL

\* An attached terminal that hears of the exit shows the last output.
THEOREM ExitLast == WorkbenchSpec => []ExitComesLast
<1>1. StreamProofs!Spec => []StreamProofs!ExitComesLast
    BY SameSizes, StreamProofs!LastWordShown
<1>2. StreamProofs!ExitComesLast => ExitComesLast
    BY SameProperties DEF ExitComesLast
<1>. QED BY <1>1, <1>2, StreamInWorkbench, SameSpec, PTL

=============================================================================
