------------------------ MODULE EdgeMonitor_proofs ------------------------
(***************************************************************************)
(* Proofs about the edge-health monitor and the other small services of    *)
(* the agent that MCHost runs beside it: the event bus, the processes that *)
(* compete for the port, the dashboard's keys, the health probe, the       *)
(* notifier and what watches the terminal sessions.                        *)
(*                                                                         *)
(* Monitor: Spacing is inductive together with TypeOK: a probe that fails  *)
(* moves `since + timer` up by the doubled interval, every other step      *)
(* leaves the sum where it was or lets it grow.                            *)
(* Services: each has its own inductive invariant (CountInv, BusInv,       *)
(* ProcInv, KeysInv, ProbeInv, ToastInv, WatchInv), with one lemma for its *)
(* initial state, one for its steps, one for the steps of the others and   *)
(* one for what it implies; the last section puts the parts together.      *)
(***************************************************************************)
EXTENDS MCHost, SequenceTheorems, FiniteSetTheorems, WellFoundedInduction, TLAPS

LEMMA PushType ==
    ASSUME rx \in Seq(Event), Len(rx) <= BusCapacity, NEW e \in Event
    PROVE  Push(e) \in Seq(Event) /\ Len(Push(e)) <= BusCapacity
<1> USE EdgeAssumption
<1>1. CASE Len(rx) < BusCapacity
    <2>1. Push(e) = Append(rx, e)
        BY <1>1 DEF Push
    <2> QED
        BY <1>1, <2>1
<1>2. CASE ~(Len(rx) < BusCapacity)
    <2>1. Len(rx) = BusCapacity /\ rx # <<>>
        BY <1>2, LenProperties
    <2>2. Tail(rx) \in Seq(Event) /\ Len(Tail(rx)) = Len(rx) - 1
        BY <2>1, HeadTailProperties
    <2>3. Push(e) = Append(Tail(rx), e)
        BY <1>2 DEF Push
    <2> QED
        BY <2>1, <2>2, <2>3
<1> QED
    BY <1>1, <1>2

LEMMA HeadType ==
    ASSUME rx \in Seq(Event), Len(rx) <= BusCapacity, rx # <<>>
    PROVE  /\ Head(rx) \in Event
           /\ Tail(rx) \in Seq(Event) /\ Len(Tail(rx)) <= BusCapacity
<1> USE EdgeAssumption
<1>1. Head(rx) \in Event /\ Tail(rx) \in Seq(Event) /\ Len(Tail(rx)) = Len(rx) - 1
    BY HeadTailProperties
<1>2. Len(rx) \in Nat
    BY LenProperties
<1> QED
    BY <1>1, <1>2

Inv == TypeOK /\ Spacing

LEMMA InvInit == Init => Inv
<1> SUFFICES ASSUME Init PROVE Inv
    OBVIOUS
<1>1. rx \in Seq(Event) /\ Len(rx) <= BusCapacity
    BY EmptySeq, EdgeAssumption DEF Init
<1>2. TypeOK!2 /\ TypeOK!3 /\ TypeOK!8 /\ TypeOK!11
    BY DEF Init
<1>3. TypeOK!4 /\ TypeOK!5 /\ TypeOK!6 /\ TypeOK!7
    BY DEF Init, INITIAL_INTERVAL, MAX_INTERVAL, FAIL_THRESHOLD, Long
<1>4. TypeOK!9 /\ TypeOK!10
    BY EdgeAssumption DEF Init
<1>5. Spacing
    BY DEF Init, Spacing, NoUrl, INITIAL_INTERVAL, Long, NotBefore
<1> QED
    BY <1>1, <1>2, <1>3, <1>4, <1>5 DEF Inv, TypeOK

LEMMA InvNext == Inv /\ [Next]_vars => Inv'
<1> SUFFICES ASSUME Inv, [Next]_vars
             PROVE  Inv'
    OBVIOUS
<1> USE EdgeAssumption
        DEF Inv, TypeOK, Spacing, monVars, envVars, Url, NoUrl, INITIAL_INTERVAL,
            MAX_INTERVAL, FAIL_THRESHOLD, Long, RESPAWN_THROTTLE, NotBefore
<1>1. CASE Announce
    <2>1. [type |-> "url", url |-> announced + 1] \in Event
        BY <1>1 DEF Announce, Event
    <2> QED
        BY <1>1, <2>1, PushType DEF Announce
<1>2. ASSUME NEW v \in {"ready", "degraded"}, Verdict(v)
      PROVE  Inv'
    <2>1. [type |-> v, url |-> verdicts + 1] \in Event
        BY <1>2 DEF Verdict, Event
    <2> QED
        BY <1>2, <2>1, PushType DEF Verdict
<1>3. CASE EdgeFlips
    BY <1>3 DEF EdgeFlips
<1>4. CASE Tick
    BY <1>4 DEF Tick
<1>5. CASE Recv
    <2>1. /\ Head(rx) \in Event
          /\ rx' \in Seq(Event) /\ Len(rx') <= BusCapacity
        BY <1>5, HeadType DEF Recv
    <2>2. CASE Head(rx).type = "url"
        <3>1. /\ url' = Head(rx).url /\ failures' = 0 /\ counted' = {}
              /\ interval' = INITIAL_INTERVAL
              /\ engaged' = FALSE /\ recovering' = FALSE
              /\ since' = since /\ timer' = timer
              /\ probing' = probing /\ probing = NoUrl /\ UNCHANGED envVars
            BY <1>5, <2>2 DEF Recv
        <3>2. Head(rx).url \in Url
            BY <2>1 DEF Event
        <3>3. NotBefore(1)
            OBVIOUS
        <3>4. TypeOK!1' /\ TypeOK!2' /\ TypeOK!3'
            BY <2>1, <3>1, <3>2
        <3>5. TypeOK!4' /\ TypeOK!5' /\ TypeOK!6' /\ TypeOK!7' /\ TypeOK!8'
            BY <3>1
        <3>6. TypeOK!9' /\ TypeOK!10' /\ TypeOK!11' /\ Spacing'
            BY <3>1, <3>3
        <3> QED
            BY <3>4, <3>5, <3>6
    <2>3. CASE Head(rx).type # "url"
        BY <1>5, <2>1, <2>3 DEF Recv, Event
    <2> QED
        BY <2>2, <2>3
<1>6. CASE SleepAgain
    BY <1>6 DEF SleepAgain
<1>7. CASE StartProbe
    BY <1>7 DEF StartProbe
<1>8. CASE ProbeOk
    <2>1. [type |-> "ready", url |-> probing] \in Event
        BY <1>8 DEF ProbeOk, Event
    <2>2. rx' \in Seq(Event) /\ Len(rx') <= BusCapacity
        BY <1>8, <2>1, PushType DEF ProbeOk
    <2>3. /\ recovering' = FALSE /\ failures' = 0 /\ counted' = {}
          /\ interval' = INITIAL_INTERVAL /\ timer' = INITIAL_INTERVAL
          /\ probing' = NoUrl
          /\ UNCHANGED <<url, engaged, since, envVars>>
        BY <1>8 DEF ProbeOk
    <2>4. TypeOK!1' /\ TypeOK!2' /\ TypeOK!3'
        BY <2>2, <2>3
    <2>5. TypeOK!4' /\ TypeOK!5' /\ TypeOK!6' /\ TypeOK!7' /\ TypeOK!8'
        BY <2>3
    <2>6. TypeOK!9' /\ TypeOK!10' /\ TypeOK!11' /\ Spacing'
        BY <2>3
    <2> QED
        BY <2>4, <2>5, <2>6
<1>9. CASE ProbeFails
    <2>1. /\ timer = 0 /\ since' = since
          /\ failures' = failures + 1
          /\ interval' = 2 * interval /\ timer' = interval'
        BY <1>9 DEF ProbeFails, NextBackoff
    <2> QED
        BY <1>9, <2>1 DEF ProbeFails
<1>10. CASE Threshold
    BY <1>10 DEF Threshold
<1>11. CASE UNCHANGED vars
    BY <1>11 DEF vars
<1> QED
    BY <1>1, <1>2, <1>3, <1>4, <1>5, <1>6, <1>7, <1>8, <1>9, <1>10, <1>11
       DEF Next, MonitorStep

(* Every variable of the monitor keeps its type: in particular fewer than     *)
(* three failures are ever on the counter between two steps.                  *)
THEOREM TypeCorrect == Spec => []TypeOK
<1>1. Inv => TypeOK
    BY DEF Inv
<1> QED
    BY <1>1, InvInit, InvNext, PTL DEF Spec

(* The interval is the power of two of the failure counter, and the next      *)
(* respawn is at least 7 units (210 s) after the last one.                    *)
THEOREM SpacingHolds == Spec => []Spacing
<1>1. Inv => Spacing
    BY DEF Inv
<1> QED
    BY <1>1, InvInit, InvNext, PTL DEF Spec

(* Two respawns are at least 210 s apart for every number of URLs, edge       *)
(* failures and every bus capacity: the 60 s throttle is never needed.        *)
THEOREM RespawnsAreApart == Spec => RespawnsApart
<1>1. Inv /\ [Next]_vars => [Threshold => since >= 7]_vars
    BY DEF Inv, TypeOK, Spacing, Threshold, NotBefore, Long, FAIL_THRESHOLD,
           Url, NoUrl
<1> QED
    BY <1>1, InvInit, InvNext, PTL DEF Spec, RespawnsApart

-----------------------------------------------------------------------------
(* A probe that is awaited is one of the current URL: the bus arm, which     *)
(* alone changes the URL, is not taken meanwhile.                            *)
CountInv == (probing # NoUrl => probing = url) /\ CountedFailuresShareUrl

LEMMA CountInit == Init => CountInv
  BY DEF Init, CountInv, CountedFailuresShareUrl

LEMMA CountNext == ASSUME CountInv, Next \/ UNCHANGED vars PROVE CountInv'
  <1> USE DEF CountInv, CountedFailuresShareUrl
  <1>1. CASE Recv
    <2>1. probing' = NoUrl /\ ((url' = url /\ counted' = counted) \/ counted' = {})
      BY <1>1 DEF Recv
    <2> QED
      BY <2>1
  <1>2. CASE SleepAgain \/ StartProbe \/ EdgeFlips \/ Tick \/ Announce \/ UNCHANGED vars
    BY <1>2 DEF SleepAgain, StartProbe, EdgeFlips, Tick, Announce, vars, monVars, envVars
  <1>3. ASSUME NEW v \in {"ready", "degraded"}, Verdict(v) PROVE CountInv'
    BY <1>3 DEF Verdict, monVars, envVars
  <1>4. CASE ProbeOk \/ Threshold
    BY <1>4 DEF ProbeOk, Threshold
  <1>5. CASE ProbeFails
    BY <1>5 DEF ProbeFails
  <1> QED
    BY <1>1, <1>2, <1>3, <1>4, <1>5 DEF Next, MonitorStep

-----------------------------------------------------------------------------
(* The bus, while senders of tunnel URLs do not overlap.  The snapshot is    *)
(* what one is about to broadcast, or the last URL that was; a subscriber    *)
(* that has no URL before it and lost none believes in the snapshot.         *)
SendsInTurn == \A s, t \in Senders : sending[s] # Bus!Idle /\ sending[t] # Bus!Idle => s = t
UrlAfter(n) == \E i \in (n + 1)..Len(log) : log[i] \in Urls
MirrorFirst == \A s \in Senders : sending[s] # Bus!Idle => sending[s] = snapUrl
SnapIsLast == Bus!Quiet => \A i \in 1..Len(log) : log[i] \in Urls /\ ~UrlAfter(i) => log[i] = snapUrl
InStep == \A r \in Subscribers :
  hydrated[r] /\ ~missed[r] /\ ~UrlAfter(cursor[r]) /\ Bus!Quiet => view[r] = snapUrl
BusInv == Bus!TypeOK /\ MirrorFirst /\ SnapIsLast /\ InStep

LEMMA BusFields ==
    ASSUME Bus!TypeOK
    PROVE  /\ log \in Seq(Bus!Events) /\ Len(log) \in Nat /\ Bus!Dropped \in Nat /\ Bus!Dropped <= Len(log)
           /\ \A i \in 1..Len(log) : log[i] \in Urls \cup {Other}
           /\ \A r \in Subscribers : cursor[r] \in Int /\ cursor[r] >= -1 /\ cursor[r] <= Len(log) /\ (hydrated[r] => cursor[r] >= 0)
           /\ snapUrl \in Urls \cup {NoBusUrl} /\ sending \in [Senders -> Urls \cup {Bus!Idle}]
           /\ cursor \in [Subscribers -> Int] /\ hydrated \in [Subscribers -> BOOLEAN]
           /\ view \in [Subscribers -> Urls \cup {NoBusUrl}] /\ missed \in [Subscribers -> BOOLEAN]
  <1>1. log \in Seq(Bus!Events) /\ Len(log) \in Nat
    BY DEF Bus!TypeOK
  <1>2. \A i \in 1..Len(log) : log[i] \in Urls \cup {Other}
    BY <1>1 DEF Bus!Events
  <1>3. Bus!Dropped \in Nat /\ Bus!Dropped <= Len(log)
    BY <1>1, BusAssumption DEF Bus!BusAssumption, Bus!Dropped
  <1>4. \A r \in Subscribers : cursor[r] \in Int /\ cursor[r] >= -1 /\ cursor[r] <= Len(log) /\ (hydrated[r] => cursor[r] >= 0)
    BY <1>1 DEF Bus!TypeOK
  <1> QED
    BY <1>1, <1>2, <1>3, <1>4 DEF Bus!TypeOK

\* A message goes out: every receiver has it before it.
LEMMA LogGrows ==
    ASSUME Bus!TypeOK, NEW e \in Urls \cup {Other}, log' = Append(log, e)
    PROVE  /\ log' \in Seq(Bus!Events) /\ Len(log') = Len(log) + 1
           /\ \A i \in 1..Len(log) : log'[i] = log[i]
           /\ log'[Len(log) + 1] = e
           /\ \A n \in Nat : n <= Len(log) => (UrlAfter(n)' <=> UrlAfter(n) \/ e \in Urls)
  <1>1. /\ log \in Seq(Bus!Events) /\ e \in Bus!Events /\ Len(log) \in Nat
    BY BusFields DEF Bus!Events
  <1>2. /\ log' \in Seq(Bus!Events) /\ Len(log') = Len(log) + 1
        /\ \A i \in 1..Len(log) : log'[i] = log[i]
        /\ log'[Len(log) + 1] = e
    BY <1>1
  <1>3. ASSUME NEW n \in Nat, n <= Len(log) PROVE UrlAfter(n)' <=> UrlAfter(n) \/ e \in Urls
    <2>1. \A i \in (n + 1)..(Len(log) + 1) : i \in 1..Len(log) \/ i = Len(log) + 1
      BY <1>1, <1>3
    <2>2. \A i \in (n + 1)..Len(log) : i \in 1..Len(log)
      BY <1>1, <1>3
    <2>3. Len(log) + 1 \in (n + 1)..(Len(log) + 1)
      BY <1>1, <1>3
    <2>4. UrlAfter(n)' <=> \E i \in (n + 1)..(Len(log) + 1) : log'[i] \in Urls
      BY <1>2 DEF UrlAfter
    <2> QED
      BY <1>1, <1>2, <2>1, <2>2, <2>3, <2>4 DEF UrlAfter
  <1> QED
    BY <1>2, <1>3

LEMMA BusBegins == Bus!Init => BusInv
  <1> SUFFICES ASSUME Bus!Init PROVE BusInv
    OBVIOUS
  <1> USE DEF Bus!Init
  <1>1. log \in Seq(Bus!Events) /\ Len(log) = 0 /\ \A i \in 1..Len(log) : FALSE
    OBVIOUS
  <1>2. Bus!TypeOK
    BY <1>1 DEF Bus!TypeOK
  <1>3. MirrorFirst /\ SnapIsLast /\ InStep
    BY <1>1 DEF MirrorFirst, SnapIsLast, InStep
  <1> QED
    BY <1>2, <1>3 DEF BusInv

LEMMA MessageTypes ==
    ASSUME Bus!TypeOK, NEW e \in Urls \cup {Other}, log' = Append(log, e),
           sending' \in [Senders -> Urls \cup {Bus!Idle}], UNCHANGED <<snapUrl, cursor, hydrated, view, missed>>
    PROVE  Bus!TypeOK'
  <1>1. log' \in Seq(Bus!Events) /\ Len(log') = Len(log) + 1 /\ Len(log) \in Nat
    BY LogGrows, BusFields
  <1>2. \A r \in Subscribers : -1 <= cursor'[r] /\ cursor'[r] <= Len(log') /\ (hydrated'[r] => cursor'[r] >= 0)
    BY <1>1, BusFields
  <1> QED
    BY <1>1, <1>2, BusFields DEF Bus!TypeOK

\* A broadcast, of a URL that was mirrored or of anything else.
LEMMA MessageKeeps ==
    ASSUME BusInv, NEW e \in Urls \cup {Other}, log' = Append(log, e), UNCHANGED <<snapUrl, cursor, hydrated, view, missed>>,
           \/ e \notin Urls /\ sending' = sending
           \/ e \in Urls /\ e = snapUrl /\ \E s \in Senders : sending' = [sending EXCEPT ![s] = Bus!Idle]
    PROVE  BusInv'
  <1>0. Bus!TypeOK /\ MirrorFirst /\ SnapIsLast /\ InStep
    BY DEF BusInv
  <1>1. /\ log' \in Seq(Bus!Events) /\ Len(log') = Len(log) + 1 /\ Len(log) \in Nat
        /\ \A i \in 1..Len(log) : log'[i] = log[i]
        /\ log'[Len(log) + 1] = e
        /\ \A n \in Nat : n <= Len(log) => (UrlAfter(n)' <=> UrlAfter(n) \/ e \in Urls)
    BY <1>0, LogGrows, BusFields
  <1>2. sending' \in [Senders -> Urls \cup {Bus!Idle}]
    BY <1>0, BusFields
  <1>3. Bus!TypeOK'
    BY <1>0, <1>2, MessageTypes
  <1>4. MirrorFirst'
    BY <1>0, BusFields DEF MirrorFirst
  <1>5. SnapIsLast'
    <2> SUFFICES ASSUME Bus!Quiet', NEW i \in 1..Len(log'), log'[i] \in Urls, ~UrlAfter(i)' PROVE log'[i] = snapUrl'
      BY DEF SnapIsLast, UrlAfter
    <2>1. CASE i = Len(log) + 1
      BY <1>1, <2>1
    <2>2. CASE i \in 1..Len(log)
      <3>1. e \notin Urls /\ ~UrlAfter(i) /\ sending' = sending
        BY <1>1, <2>2
      <3>2. Bus!Quiet
        BY <3>1 DEF Bus!Quiet
      <3> QED
        BY <1>0, <1>1, <2>2, <3>1, <3>2 DEF SnapIsLast
    <2> QED
      BY <1>1, <2>1, <2>2
  <1>6. InStep'
    <2> SUFFICES ASSUME NEW r \in Subscribers, hydrated[r], ~missed[r], Bus!Quiet',
                        \A n : n = cursor[r] => ~UrlAfter(n)'
                 PROVE  view[r] = snapUrl
      BY DEF InStep, UrlAfter
    <2>1. cursor[r] \in Nat /\ cursor[r] <= Len(log)
      BY <1>0, BusFields
    <2>2. e \notin Urls /\ ~UrlAfter(cursor[r]) /\ sending' = sending
      BY <1>1, <2>1
    <2>3. Bus!Quiet
      BY <2>2 DEF Bus!Quiet
    <2> QED
      BY <1>0, <2>2, <2>3 DEF InStep
  <1> QED
    BY <1>3, <1>4, <1>5, <1>6 DEF BusInv

LEMMA MirrorKeeps == ASSUME SendsInTurn', BusInv, NEW s \in Senders, NEW u \in Urls, Bus!Mirror(s, u) PROVE BusInv'
  <1>0. Bus!TypeOK /\ MirrorFirst /\ SnapIsLast /\ InStep
    BY DEF BusInv
  <1>1. /\ snapUrl' = u /\ sending' = [sending EXCEPT ![s] = u]
        /\ UNCHANGED <<log, cursor, hydrated, view, missed>>
    BY DEF Bus!Mirror
  <1>2. Bus!TypeOK'
    BY <1>0, <1>1 DEF Bus!TypeOK
  <1>3. sending'[s] = u /\ u # Bus!Idle
    BY <1>0, <1>1, BusFields, BusAssumption DEF Bus!BusAssumption, Bus!Idle
  <1>4. MirrorFirst'
    BY <1>1, <1>3 DEF MirrorFirst, SendsInTurn
  <1>5. ~Bus!Quiet'
    BY <1>3 DEF Bus!Quiet
  <1> QED
    BY <1>2, <1>4, <1>5 DEF BusInv, SnapIsLast, InStep

LEMMA BroadcastKeeps == ASSUME BusInv, NEW s \in Senders, Bus!Broadcast(s) PROVE BusInv'
  <1>1. /\ sending[s] # Bus!Idle /\ log' = Append(log, sending[s]) /\ sending' = [sending EXCEPT ![s] = Bus!Idle]
        /\ UNCHANGED <<snapUrl, cursor, hydrated, view, missed>>
    BY DEF Bus!Broadcast
  <1>2. sending[s] \in Urls /\ sending[s] = snapUrl
    BY <1>1, BusFields DEF BusInv, MirrorFirst
  <1> QED
    BY <1>1, <1>2, MessageKeeps

LEMMA OtherKeeps == ASSUME BusInv, Bus!SendOther PROVE BusInv'
  BY MessageKeeps, BusAssumption DEF Bus!SendOther, Bus!BusAssumption

\* What a receiver does concerns its own cursor and belief.
LEMMA ReceiverTypes ==
    ASSUME Bus!TypeOK, NEW r \in Subscribers, NEW c \in Int, NEW h \in BOOLEAN, NEW w \in Urls \cup {NoBusUrl}, NEW m \in BOOLEAN,
           UNCHANGED <<snapUrl, log, sending>>,
           cursor' = [cursor EXCEPT ![r] = c], hydrated' = [hydrated EXCEPT ![r] = h],
           view' = [view EXCEPT ![r] = w], missed' = [missed EXCEPT ![r] = m],
           c >= -1, c <= Len(log), h => c >= 0
    PROVE  /\ Bus!TypeOK'
           /\ cursor'[r] = c /\ hydrated'[r] = h /\ view'[r] = w /\ missed'[r] = m
           /\ \A q \in Subscribers : q # r => /\ cursor'[q] = cursor[q] /\ hydrated'[q] = hydrated[q]
                                            /\ view'[q] = view[q] /\ missed'[q] = missed[q]
  <1>1. /\ cursor' \in [Subscribers -> Int] /\ hydrated' \in [Subscribers -> BOOLEAN]
        /\ view' \in [Subscribers -> Urls \cup {NoBusUrl}] /\ missed' \in [Subscribers -> BOOLEAN]
        /\ cursor'[r] = c /\ hydrated'[r] = h /\ view'[r] = w /\ missed'[r] = m
        /\ \A q \in Subscribers : q # r => /\ cursor'[q] = cursor[q] /\ hydrated'[q] = hydrated[q]
                                         /\ view'[q] = view[q] /\ missed'[q] = missed[q]
    BY BusFields
  <1>2. -1 <= c /\ c <= Len(log) /\ Len(log') = Len(log)
    BY BusFields
  <1>3. \A q \in Subscribers : -1 <= cursor'[q] /\ cursor'[q] <= Len(log') /\ (hydrated'[q] => cursor'[q] >= 0)
    <2>1. \A q \in Subscribers : q # r => -1 <= cursor'[q] /\ cursor'[q] <= Len(log') /\ (hydrated'[q] => cursor'[q] >= 0)
      BY <1>1, <1>2, BusFields
    <2>2. -1 <= cursor'[r] /\ cursor'[r] <= Len(log') /\ (hydrated'[r] => cursor'[r] >= 0)
      BY <1>1, <1>2
    <2> QED
      BY <2>1, <2>2
  <1> QED
    BY <1>1, <1>3 DEF Bus!TypeOK

LEMMA ReceiverKeeps ==
    ASSUME BusInv, NEW r \in Subscribers, NEW c \in Int, NEW h \in BOOLEAN, NEW w \in Urls \cup {NoBusUrl}, NEW m \in BOOLEAN,
           UNCHANGED <<snapUrl, log, sending>>,
           cursor' = [cursor EXCEPT ![r] = c], hydrated' = [hydrated EXCEPT ![r] = h],
           view' = [view EXCEPT ![r] = w], missed' = [missed EXCEPT ![r] = m],
           c >= -1, c <= Len(log), h => c >= 0,
           h /\ ~m /\ ~UrlAfter(c) /\ Bus!Quiet => w = snapUrl
    PROVE  BusInv'
  <1>0. Bus!TypeOK /\ MirrorFirst /\ SnapIsLast /\ InStep
    BY DEF BusInv
  <1>1. /\ Bus!TypeOK'
        /\ cursor'[r] = c /\ hydrated'[r] = h /\ view'[r] = w /\ missed'[r] = m
        /\ \A q \in Subscribers : q # r => /\ cursor'[q] = cursor[q] /\ hydrated'[q] = hydrated[q]
                                         /\ view'[q] = view[q] /\ missed'[q] = missed[q]
    BY <1>0, ReceiverTypes
  <1>3. MirrorFirst' /\ SnapIsLast' /\ (Bus!Quiet' <=> Bus!Quiet)
    BY <1>0 DEF MirrorFirst, SnapIsLast, Bus!Quiet, UrlAfter
  <1>4. InStep'
    <2> SUFFICES ASSUME NEW q \in Subscribers, hydrated'[q], ~missed'[q], Bus!Quiet', ~UrlAfter(cursor[q])'
                 PROVE  view'[q] = snapUrl
      BY DEF InStep
    <2>1. \A n : n = cursor'[q] => ~UrlAfter(n)
      BY DEF UrlAfter
    <2>2. CASE q = r
      BY <1>1, <1>3, <2>1, <2>2
    <2>3. CASE q # r
      BY <1>0, <1>1, <1>3, <2>1, <2>3 DEF InStep
    <2> QED
      BY <2>2, <2>3
  <1> QED
    BY <1>1, <1>3, <1>4 DEF BusInv

\* Each step of a receiver is of that kind: what it believes afterwards is
\* the last URL before its cursor, or what it believed before.
Believes(r, c, h, w, m) ==
  /\ UNCHANGED <<snapUrl, log, sending>>
  /\ cursor' = [cursor EXCEPT ![r] = c] /\ hydrated' = [hydrated EXCEPT ![r] = h]
  /\ view' = [view EXCEPT ![r] = w] /\ missed' = [missed EXCEPT ![r] = m]
  /\ c >= -1 /\ c <= Len(log) /\ (h => c >= 0)
  /\ BusInv => (h /\ ~m /\ ~UrlAfter(c) /\ Bus!Quiet => w = snapUrl)

LEMMA ReceivesAs ==
    ASSUME Bus!TypeOK, NEW r \in Subscribers,
           Bus!Subscribe(r) \/ Bus!Hydrate(r) \/ Bus!Receive(r) \/ Bus!ReceiveLagged(r)
    PROVE  \E c \in Int, h \in BOOLEAN, w \in Urls \cup {NoBusUrl}, m \in BOOLEAN : Believes(r, c, h, w, m)
  <1>1. /\ cursor[r] \in Int /\ cursor[r] >= -1 /\ cursor[r] <= Len(log) /\ (hydrated[r] => cursor[r] >= 0) /\ hydrated[r] \in BOOLEAN
        /\ view[r] \in Urls \cup {NoBusUrl} /\ missed[r] \in BOOLEAN /\ snapUrl \in Urls \cup {NoBusUrl}
        /\ Len(log) \in Nat /\ Bus!Dropped \in Nat /\ Bus!Dropped <= Len(log)
        /\ cursor = [cursor EXCEPT ![r] = cursor[r]] /\ hydrated = [hydrated EXCEPT ![r] = hydrated[r]]
        /\ view = [view EXCEPT ![r] = view[r]] /\ missed = [missed EXCEPT ![r] = missed[r]]
    BY BusFields
  <1>2. CASE Bus!Subscribe(r)
    <2>1. ~hydrated[r]
      BY <1>1, <1>2 DEF Bus!Subscribe, Bus!Subscribed
    <2>2. /\ cursor' = [cursor EXCEPT ![r] = Len(log)] /\ hydrated' = [hydrated EXCEPT ![r] = hydrated[r]]
          /\ view' = [view EXCEPT ![r] = view[r]] /\ missed' = [missed EXCEPT ![r] = missed[r]]
          /\ UNCHANGED <<snapUrl, log, sending>>
      BY <1>1, <1>2 DEF Bus!Subscribe
    <2>3. Len(log) \in Int /\ Len(log) >= -1 /\ Len(log) <= Len(log) /\ (hydrated[r] => Len(log) >= 0)
      BY <1>1
    <2>4. hydrated[r] /\ ~missed[r] /\ ~UrlAfter(Len(log)) /\ Bus!Quiet => view[r] = snapUrl
      BY <2>1
    <2>10. Len(log) \in Int /\ hydrated[r] \in BOOLEAN /\ view[r] \in Urls \cup {NoBusUrl} /\ missed[r] \in BOOLEAN
      BY <1>1
    <2>11. Believes(r, Len(log), hydrated[r], view[r], missed[r])
      BY <2>2, <2>3, <2>4 DEF Believes
    <2> QED
      BY <2>10, <2>11
  <1>3. CASE Bus!Hydrate(r)
    <2>1. cursor[r] >= 0
      BY <1>1, <1>3 DEF Bus!Hydrate, Bus!Subscribed
    <2>2. /\ cursor' = [cursor EXCEPT ![r] = cursor[r]] /\ hydrated' = [hydrated EXCEPT ![r] = TRUE]
          /\ view' = [view EXCEPT ![r] = snapUrl] /\ missed' = [missed EXCEPT ![r] = missed[r]]
          /\ UNCHANGED <<snapUrl, log, sending>>
      BY <1>1, <1>3 DEF Bus!Hydrate
    <2>10. cursor[r] \in Int /\ TRUE \in BOOLEAN /\ snapUrl \in Urls \cup {NoBusUrl} /\ missed[r] \in BOOLEAN
      BY <1>1
    <2>11. Believes(r, cursor[r], TRUE, snapUrl, missed[r])
      BY <1>1, <2>1, <2>2 DEF Believes
    <2> QED
      BY <2>10, <2>11
  <1>4. CASE Bus!Receive(r)
    <2> DEFINE c == cursor[r] + 1
    <2>1. /\ hydrated[r] /\ cursor[r] < Len(log) /\ cursor' = [cursor EXCEPT ![r] = c]
          /\ view' = [view EXCEPT ![r] = IF log[c] \in Urls THEN log[c] ELSE view[r]]
          /\ missed' = [missed EXCEPT ![r] = missed[r] /\ log[c] \notin Urls]
          /\ UNCHANGED <<snapUrl, log, sending, hydrated>>
      BY <1>4 DEF Bus!Receive
    <2>2. c \in 1..Len(log) /\ c \in Int /\ c >= 0 /\ c >= -1 /\ c <= Len(log)
      BY <1>1, <2>1
    <2>3. BusInv => (log[c] \in Urls => (~UrlAfter(c) /\ Bus!Quiet => log[c] = snapUrl))
      BY <2>2 DEF BusInv, SnapIsLast
    <2>4. log[c] \notin Urls => (~UrlAfter(c) => ~UrlAfter(cursor[r]))
      <3>1. \A i \in (cursor[r] + 1)..Len(log) : i = c \/ i \in (c + 1)..Len(log)
        BY <1>1
      <3> QED
        BY <3>1 DEF UrlAfter
    <2> HIDE DEF c
    <2> DEFINE w == IF log[c] \in Urls THEN log[c] ELSE view[r]
               m == missed[r] /\ log[c] \notin Urls
    <2>5. w \in Urls \cup {NoBusUrl} /\ m \in BOOLEAN
      BY <1>1
    <2>6. BusInv => (hydrated[r] /\ ~m /\ ~UrlAfter(c) /\ Bus!Quiet => w = snapUrl)
      BY <2>3, <2>4 DEF BusInv, InStep
    <2>7. view' = [view EXCEPT ![r] = w] /\ missed' = [missed EXCEPT ![r] = m]
      BY <2>1
    <2>8. hydrated' = [hydrated EXCEPT ![r] = hydrated[r]] /\ UNCHANGED <<snapUrl, log, sending>>
      BY <1>1, <2>1
    <2>9. cursor' = [cursor EXCEPT ![r] = c]
      BY <2>1
    <2> HIDE DEF w, m
    <2>10. c \in Int /\ hydrated[r] \in BOOLEAN /\ w \in Urls \cup {NoBusUrl} /\ m \in BOOLEAN
      BY <1>1, <2>2, <2>5
    <2>11. Believes(r, c, hydrated[r], w, m)
      BY <2>2, <2>6, <2>7, <2>8, <2>9 DEF Believes
    <2> QED
      BY <2>10, <2>11
  <1>5. CASE Bus!ReceiveLagged(r)
    <2> DEFINE m == missed[r] \/ \E i \in (cursor[r] + 1)..Bus!Dropped : log[i] \in Urls
    <2>1. /\ hydrated[r] /\ cursor[r] < Bus!Dropped /\ cursor' = [cursor EXCEPT ![r] = Bus!Dropped]
          /\ missed' = [missed EXCEPT ![r] = m]
          /\ UNCHANGED <<snapUrl, log, sending, hydrated, view>>
      BY <1>5 DEF Bus!ReceiveLagged
    <2>2. ~m /\ ~UrlAfter(Bus!Dropped) => ~UrlAfter(cursor[r])
      <3>1. \A i \in (cursor[r] + 1)..Len(log) : i \in (cursor[r] + 1)..Bus!Dropped \/ i \in (Bus!Dropped + 1)..Len(log)
        BY <1>1
      <3> QED
        BY <3>1 DEF UrlAfter
    <2>3. m \in BOOLEAN /\ (~m => ~missed[r]) /\ Bus!Dropped \in Int /\ Bus!Dropped >= 0 /\ Bus!Dropped >= -1 /\ Bus!Dropped <= Len(log)
      BY <1>1
    <2> HIDE DEF m
    <2>4. BusInv => (hydrated[r] /\ ~m /\ ~UrlAfter(Bus!Dropped) /\ Bus!Quiet => view[r] = snapUrl)
      BY <2>2, <2>3 DEF BusInv, InStep
    <2>5. /\ hydrated' = [hydrated EXCEPT ![r] = hydrated[r]] /\ view' = [view EXCEPT ![r] = view[r]]
          /\ UNCHANGED <<snapUrl, log, sending>>
      BY <1>1, <2>1
    <2>10. Bus!Dropped \in Int /\ hydrated[r] \in BOOLEAN /\ view[r] \in Urls \cup {NoBusUrl} /\ m \in BOOLEAN
      BY <1>1, <2>3
    <2>11. Believes(r, Bus!Dropped, hydrated[r], view[r], m)
      BY <2>1, <2>3, <2>4, <2>5 DEF Believes
    <2> QED
      BY <2>10, <2>11
  <1> QED
    BY <1>2, <1>3, <1>4, <1>5

LEMMA ReceivingKeeps ==
    ASSUME Bus!TypeOK, NEW r \in Subscribers,
           Bus!Subscribe(r) \/ Bus!Hydrate(r) \/ Bus!Receive(r) \/ Bus!ReceiveLagged(r)
    PROVE  Bus!TypeOK' /\ (BusInv => BusInv')
  <1>1. PICK c \in Int, h \in BOOLEAN, w \in Urls \cup {NoBusUrl}, m \in BOOLEAN : Believes(r, c, h, w, m)
    BY ReceivesAs
  <1>2. /\ UNCHANGED <<snapUrl, log, sending>>
        /\ cursor' = [cursor EXCEPT ![r] = c] /\ hydrated' = [hydrated EXCEPT ![r] = h]
        /\ view' = [view EXCEPT ![r] = w] /\ missed' = [missed EXCEPT ![r] = m]
        /\ c >= -1 /\ c <= Len(log) /\ (h => c >= 0)
    BY <1>1 DEF Believes
  <1>3. Bus!TypeOK'
    BY <1>2, ReceiverTypes
  <1>4. BusInv => (h /\ ~m /\ ~UrlAfter(c) /\ Bus!Quiet => w = snapUrl)
    BY <1>1 DEF Believes
  <1>5. BusInv => BusInv'
    BY <1>2, <1>4, ReceiverKeeps
  <1> QED
    BY <1>3, <1>5

LEMMA BusNext == ASSUME SendsInTurn', BusInv, Bus!Next PROVE BusInv'
  BY MirrorKeeps, BroadcastKeeps, OtherKeeps, ReceivingKeeps DEF Bus!Next, BusInv

LEMMA BusTypesNext == ASSUME Bus!TypeOK, Bus!Next PROVE Bus!TypeOK'
  <1>1. ASSUME NEW s \in Senders, NEW u \in Urls, Bus!Mirror(s, u) PROVE Bus!TypeOK'
    BY <1>1 DEF Bus!Mirror, Bus!TypeOK
  <1>2. ASSUME NEW s \in Senders, Bus!Broadcast(s) PROVE Bus!TypeOK'
    <2>1. /\ sending[s] \in Urls /\ log' = Append(log, sending[s]) /\ sending' \in [Senders -> Urls \cup {Bus!Idle}]
          /\ UNCHANGED <<snapUrl, cursor, hydrated, view, missed>>
      BY <1>2, BusFields DEF Bus!Broadcast
    <2> QED
      BY <2>1, MessageTypes
  <1>3. CASE Bus!SendOther
    <2>1. /\ log' = Append(log, Other) /\ sending' \in [Senders -> Urls \cup {Bus!Idle}]
          /\ UNCHANGED <<snapUrl, cursor, hydrated, view, missed>>
      BY <1>3, BusFields DEF Bus!SendOther
    <2> QED
      BY <2>1, MessageTypes
  <1>4. ASSUME NEW r \in Subscribers, Bus!Subscribe(r) \/ Bus!Hydrate(r) \/ Bus!Receive(r) \/ Bus!ReceiveLagged(r)
        PROVE  Bus!TypeOK'
    BY <1>4, ReceivingKeeps
  <1> QED
    BY <1>1, <1>2, <1>3, <1>4 DEF Bus!Next

LEMMA BusStutters == ASSUME BusInv, UNCHANGED busVars PROVE BusInv'
  <1>1. UNCHANGED <<snapUrl, log, sending, cursor, hydrated, view, missed>>
    BY DEF busVars
  <1> QED
    BY <1>1 DEF BusInv, Bus!TypeOK, MirrorFirst, SnapIsLast, InStep, UrlAfter, Bus!Quiet

LEMMA BusPromises == BusInv => Bus!TypeOK /\ Bus!LateSubscriberInStep
  <1> SUFFICES ASSUME BusInv, Bus!Quiet, NEW r \in Subscribers, Bus!Drained(r), ~missed[r]
               PROVE  view[r] = snapUrl
    BY DEF BusInv, Bus!LateSubscriberInStep
  <1>1. hydrated[r] /\ cursor[r] = Len(log) /\ Len(log) \in Nat
    BY BusFields DEF BusInv, Bus!Drained
  <1>2. ~UrlAfter(cursor[r])
    BY <1>1 DEF UrlAfter
  <1> QED
    BY <1>1, <1>2 DEF BusInv, InStep

-----------------------------------------------------------------------------
(* The processes.  Until the path is removed under a start that has the file *)
(* open, every open file is the one the path names; a file has one lock.     *)
NotLocked == {"off", "open", "lock", "gone"}
FilesKnown ==
  /\ path <= files
  /\ \A p \in Process : fd[p] <= files /\ (step[p] \in NotLocked => ~locked[p]) /\ (step[p] = "lock" => fd[p] # 0)
OpenIsNamed == ~raced => \A p \in Process : fd[p] # 0 /\ step[p] # "unlinked" => fd[p] = path
LocksExclude == \A p, q \in Process : locked[p] /\ locked[q] /\ fd[p] = fd[q] => p = q
ProcInv == Proc!TypeOK /\ FilesKnown /\ OpenIsNamed /\ LocksExclude

Steps == {"off", "open", "lock", "menu", "exiting", "bind", "sweep", "sweeping",
         "rebind", "serve", "drain", "idle", "stop", "unlinked", "gone"}
Modes == {"headless", "tui", "tray"}

LEMMA ProcFields ==
    ASSUME Proc!TypeOK
    PROVE  /\ step \in [Process -> Steps] /\ mode \in [Process -> Modes] /\ fd \in [Process -> 0..MaxFile]
           /\ locked \in [Process -> BOOLEAN] /\ path \in 0..MaxFile /\ files \in 0..MaxFile
           /\ port \in Process \cup {Free} /\ raced \in BOOLEAN /\ termed \subseteq Process /\ MaxFile \in Nat
           /\ \A p \in Process : (locked[p] => fd[p] # 0) /\ (step[p] \in {"off", "gone"} => fd[p] = 0)
  BY ProcessAssumption DEF Proc!TypeOK, Steps, Modes, Proc!ProcessAssumption

LEMMA SameCount == \A S : Proc!Cardinality(S) = Cardinality(S)
  BY DEF Proc!Cardinality, Cardinality, Proc!IsFiniteSet, IsFiniteSet

LEMMA ProcBegins == Proc!Init => ProcInv
  <1> SUFFICES ASSUME Proc!Init PROVE ProcInv
    OBVIOUS
  <1> USE ProcessAssumption DEF Proc!Init, Proc!ProcessAssumption
  <1>1. Proc!TypeOK
    <2>1. MaxFile \in Nat /\ 0 \in 0..MaxFile
      OBVIOUS
    <2>2. fd \in [Process -> 0..MaxFile] /\ path \in 0..MaxFile /\ files \in 0..MaxFile
      BY <2>1
    <2>3. step \in [Process -> Steps] /\ mode \in [Process -> Modes] /\ locked \in [Process -> BOOLEAN]
      BY DEF Steps, Modes
    <2>4. \A p \in Process : ~locked[p] /\ fd[p] = 0
      OBVIOUS
    <2> QED
      BY <2>2, <2>3, <2>4 DEF Proc!TypeOK, Steps, Modes
  <1> QED
    BY <1>1 DEF ProcInv, FilesKnown, OpenIsNamed, LocksExclude, NotLocked

\* Processes take steps that concern no lock, and those of P end.
LEMMA StepsKeep ==
    ASSUME ProcInv, NEW P \in SUBSET Process,
           step' \in [Process -> Steps], mode' \in [Process -> Modes], port' \in Process \cup {Free}, termed' \subseteq Process,
           fd' = [q \in Process |-> IF q \in P THEN 0 ELSE fd[q]],
           locked' = [q \in Process |-> locked[q] /\ q \notin P],
           UNCHANGED <<path, files, raced>>,
           \A q \in P : step'[q] # "lock",
           \A q \in Process \ P : /\ step'[q] \in {"off", "gone"} => step[q] \in {"off", "gone"}
                                  /\ step'[q] = "lock" => step[q] = "lock"
                                  /\ step'[q] \in NotLocked => step[q] \in NotLocked
                                  /\ step[q] = "unlinked" => step'[q] = "unlinked"
    PROVE  ProcInv'
  <1>0. Proc!TypeOK /\ FilesKnown /\ OpenIsNamed /\ LocksExclude
    BY DEF ProcInv
  <1>1. /\ fd' \in [Process -> 0..MaxFile] /\ locked' \in [Process -> BOOLEAN]
        /\ \A q \in P : fd'[q] = 0 /\ ~locked'[q]
        /\ \A q \in Process \ P : fd'[q] = fd[q] /\ locked'[q] = locked[q]
    <2>1. fd \in [Process -> 0..MaxFile] /\ locked \in [Process -> BOOLEAN] /\ 0 \in 0..MaxFile
      BY <1>0, ProcFields
    <2>2. fd' \in [Process -> 0..MaxFile]
      BY <2>1
    <2>3. locked' \in [Process -> BOOLEAN] /\ \A q \in P : ~locked'[q]
      BY <2>1
    <2> QED
      BY <2>1, <2>2, <2>3
  <1>2. Proc!TypeOK'
    <2>1. \A q \in Process : (locked'[q] => fd'[q] # 0) /\ (step'[q] \in {"off", "gone"} => fd'[q] = 0)
      BY <1>0, <1>1, ProcFields
    <2> QED
      BY <1>0, <1>1, <2>1, ProcFields DEF Proc!TypeOK, Steps, Modes
  <1>3. FilesKnown'
    BY <1>0, <1>1, ProcFields DEF FilesKnown
  <1>4. OpenIsNamed'
    BY <1>0, <1>1 DEF OpenIsNamed
  <1>5. LocksExclude'
    BY <1>0, <1>1 DEF LocksExclude
  <1> QED
    BY <1>2, <1>3, <1>4, <1>5 DEF ProcInv

\* The steps of one process: nobody ends.
LEMMA GotoKeeps ==
    ASSUME ProcInv, NEW p \in Process, NEW s \in Steps \ NotLocked, Proc!Goto(p, s), step[p] # "unlinked",
           step[p] \notin NotLocked, mode' = mode, port' \in Process \cup {Free},
           UNCHANGED <<fd, locked, path, files, termed, raced>>
    PROVE  ProcInv'
  <1>1. Proc!TypeOK /\ {} \in SUBSET Process
    BY DEF ProcInv
  <1>2. /\ fd' = [q \in Process |-> IF q \in {} THEN 0 ELSE fd[q]]
        /\ locked' = [q \in Process |-> locked[q] /\ q \notin {}]
    BY <1>1, ProcFields
  <1>3. step' \in [Process -> Steps] /\ \A q \in Process : step'[q] = IF q = p THEN s ELSE step[q]
    BY <1>1, ProcFields DEF Proc!Goto
  <1>4. mode' \in [Process -> Modes] /\ termed' \subseteq Process /\ UNCHANGED <<path, files, raced>>
    BY <1>1, ProcFields
  <1>5. \A q \in Process \ {} : /\ step'[q] \in {"off", "gone"} => step[q] \in {"off", "gone"}
                                /\ step'[q] = "lock" => step[q] = "lock"
                                /\ step'[q] \in NotLocked => step[q] \in NotLocked
                                /\ step[q] = "unlinked" => step'[q] = "unlinked"
    BY <1>3 DEF NotLocked
  <1>6. \A q \in {} : step'[q] # "lock"
    OBVIOUS
  <1> QED
    BY <1>1, <1>2, <1>3, <1>4, <1>5, <1>6, StepsKeep

\* A start, and the hand-over of the menu to one.
LEMMA StartKeeps ==
    ASSUME ProcInv, NEW c \in Process, step[c] = "off", NEW m \in Modes, mode' = [mode EXCEPT ![c] = m],
           step' \in [Process -> Steps], step'[c] = "open",
           \A q \in Process \ {c} : \/ step'[q] = step[q]
                                    \/ step'[q] = "exiting" /\ step[q] \notin NotLocked \cup {"unlinked"},
           UNCHANGED <<fd, locked, path, files, port, termed, raced>>
    PROVE  ProcInv'
  <1>1. Proc!TypeOK /\ {} \in SUBSET Process
    BY DEF ProcInv
  <1>2. /\ fd' = [q \in Process |-> IF q \in {} THEN 0 ELSE fd[q]]
        /\ locked' = [q \in Process |-> locked[q] /\ q \notin {}]
    BY <1>1, ProcFields
  <1>4. /\ mode' \in [Process -> Modes] /\ termed' \subseteq Process /\ UNCHANGED <<path, files, raced>>
        /\ port' \in Process \cup {Free}
    BY <1>1, ProcFields
  <1>5. \A q \in Process \ {} : /\ step'[q] \in {"off", "gone"} => step[q] \in {"off", "gone"}
                                /\ step'[q] = "lock" => step[q] = "lock"
                                /\ step'[q] \in NotLocked => step[q] \in NotLocked
                                /\ step[q] = "unlinked" => step'[q] = "unlinked"
    BY DEF NotLocked
  <1>6. \A q \in {} : step'[q] # "lock"
    OBVIOUS
  <1> QED
    BY <1>1, <1>2, <1>4, <1>5, <1>6, StepsKeep

\* The end of a set of processes, as the operating system brings it about.
LEMMA EndsKeep ==
    ASSUME ProcInv, NEW P \in SUBSET Process, Proc!Ends(P), UNCHANGED <<mode, path, files, termed, raced>>
    PROVE  ProcInv'
  <1>1. Proc!TypeOK
    BY DEF ProcInv
  <1>2. /\ step' \in [Process -> Steps] /\ \A q \in Process : step'[q] = IF q \in P THEN "gone" ELSE step[q]
        /\ port' \in Process \cup {Free}
    BY <1>1, ProcFields DEF Proc!Ends, Steps
  <1>3. mode' \in [Process -> Modes] /\ termed' \subseteq Process /\ UNCHANGED <<path, files, raced>>
    BY <1>1, ProcFields
  <1>4. /\ fd' = [q \in Process |-> IF q \in P THEN 0 ELSE fd[q]]
        /\ locked' = [q \in Process |-> locked[q] /\ q \notin P]
    BY DEF Proc!Ends
  <1>5. /\ \A q \in P : step'[q] # "lock"
        /\ \A q \in Process \ P : step'[q] = step[q]
    BY <1>2
  <1> QED
    BY <1>1, <1>2, <1>3, <1>4, <1>5, StepsKeep

LEMMA OpenKeeps == ASSUME ProcInv, NEW p \in Process, Proc!Open(p) PROVE ProcInv'
  <1>0. Proc!TypeOK /\ FilesKnown /\ OpenIsNamed /\ LocksExclude
    BY DEF ProcInv
  <1>1. step[p] = "open" /\ ~locked[p] /\ step' = [step EXCEPT ![p] = "lock"] /\ UNCHANGED <<mode, locked, port, termed, raced>>
    BY <1>0 DEF Proc!Open, Proc!Goto, FilesKnown, NotLocked
  <1>2. PICK f \in 1..MaxFile : /\ fd' = [fd EXCEPT ![p] = f] /\ path' = f /\ files' \in 0..MaxFile /\ files' >= files /\ f <= files'
                                /\ path = f \/ (path = 0 /\ f = files + 1)
    <2>1. CASE path # 0
      BY <1>0, <2>1, ProcFields DEF Proc!Open, FilesKnown
    <2>2. CASE path = 0
      <3>1. files < MaxFile /\ files' = files + 1 /\ path' = files + 1 /\ fd' = [fd EXCEPT ![p] = files + 1]
        BY <2>2 DEF Proc!Open
      <3>2. files + 1 \in 1..MaxFile
        BY <1>0, <3>1, ProcFields
      <3>3. files' \in 0..MaxFile /\ files' >= files /\ files + 1 <= files'
        BY <1>0, <3>1, <3>2, ProcFields
      <3> WITNESS files + 1 \in 1..MaxFile
      <3> QED
        BY <2>2, <3>1, <3>3
    <2> QED
      BY <2>1, <2>2
  <1>3. /\ step' \in [Process -> Steps] /\ step'[p] = "lock" /\ fd' \in [Process -> 0..MaxFile] /\ fd'[p] = f /\ f # 0
        /\ \A q \in Process : q # p => step'[q] = step[q] /\ fd'[q] = fd[q]
    BY <1>0, <1>1, <1>2, ProcFields DEF Steps
  <1>4. Proc!TypeOK'
    <2>1. \A q \in Process : (locked'[q] => fd'[q] # 0) /\ (step'[q] \in {"off", "gone"} => fd'[q] = 0)
      BY <1>0, <1>1, <1>3, ProcFields
    <2> QED
      BY <1>0, <1>1, <1>2, <1>3, <2>1, ProcFields DEF Proc!TypeOK, Steps, Modes
  <1>5. FilesKnown'
    <2>1. path' <= files'
      BY <1>2
    <2>2. ASSUME NEW q \in Process PROVE fd'[q] <= files'
      BY <1>0, <1>2, <1>3, ProcFields DEF FilesKnown
    <2>3. ASSUME NEW q \in Process PROVE (step'[q] \in NotLocked => ~locked'[q]) /\ (step'[q] = "lock" => fd'[q] # 0)
      BY <1>0, <1>1, <1>3 DEF FilesKnown
    <2> QED
      BY <2>1, <2>2, <2>3 DEF FilesKnown
  <1>6. OpenIsNamed'
    BY <1>0, <1>1, <1>2, <1>3 DEF OpenIsNamed
  <1>7. LocksExclude'
    BY <1>0, <1>1, <1>3 DEF LocksExclude
  <1> QED
    BY <1>4, <1>5, <1>6, <1>7 DEF ProcInv

LEMMA LockKeeps == ASSUME ProcInv, NEW p \in Process, Proc!Lock(p) PROVE ProcInv'
  <1>0. Proc!TypeOK /\ FilesKnown /\ OpenIsNamed /\ LocksExclude
    BY DEF ProcInv
  <1>1. PICK s \in {"menu", "bind"} : step' = [step EXCEPT ![p] = s]
    BY DEF Proc!Lock, Proc!Goto
  <1>2. /\ step[p] = "lock" /\ fd[p] # 0 /\ locked' = [locked EXCEPT ![p] = TRUE]
        /\ UNCHANGED <<mode, fd, path, files, port, termed, raced>>
        /\ \A q \in Process : locked[q] => fd[q] # fd[p]
    BY <1>0 DEF Proc!Lock, FilesKnown, Proc!Contended, Proc!Holders
  <1>3. /\ step' \in [Process -> Steps] /\ step'[p] = s /\ locked' \in [Process -> BOOLEAN]
        /\ \A q \in Process : q # p => step'[q] = step[q] /\ locked'[q] = locked[q]
    BY <1>0, <1>1, <1>2, ProcFields DEF Steps
  <1>4. Proc!TypeOK'
    <2>1. \A q \in Process : (locked'[q] => fd'[q] # 0) /\ (step'[q] \in {"off", "gone"} => fd'[q] = 0)
      BY <1>0, <1>2, <1>3, ProcFields
    <2> QED
      BY <1>0, <1>2, <1>3, <2>1, ProcFields DEF Proc!TypeOK, Steps, Modes
  <1>5. FilesKnown'
    BY <1>0, <1>2, <1>3 DEF FilesKnown, NotLocked
  <1>6. OpenIsNamed'
    BY <1>0, <1>2, <1>3 DEF OpenIsNamed
  <1>7. LocksExclude'
    <2> SUFFICES ASSUME NEW a \in Process, NEW b \in Process, locked'[a], locked'[b], fd[a] = fd[b], a # b PROVE FALSE
      BY <1>2 DEF LocksExclude
    <2>1. a # p /\ b # p
      BY <1>2, <1>3
    <2> QED
      BY <1>0, <1>3, <2>1 DEF LocksExclude
  <1> QED
    BY <1>4, <1>5, <1>6, <1>7 DEF ProcInv

\* The path is removed: if another had its file open, a lock may be doubled.
LEMMA RemoveKeeps == ASSUME ProcInv, NEW p \in Process, Proc!Remove(p) PROVE ProcInv'
  <1>0. Proc!TypeOK /\ FilesKnown /\ OpenIsNamed /\ LocksExclude
    BY DEF ProcInv
  <1>1. /\ step[p] = "stop" /\ path' = 0 /\ step' = [step EXCEPT ![p] = "unlinked"] /\ port' \in Process \cup {Free}
        /\ UNCHANGED <<mode, fd, locked, files, termed>>
    BY <1>0, ProcFields DEF Proc!Remove, Proc!Goto
  <1>2. raced' \in BOOLEAN /\ (~raced' => ~raced /\ \A q \in Process : step[q] \notin {"off", "gone"} /\ q # p => fd[q] # path)
    BY <1>0, ProcFields DEF Proc!Remove, Proc!Alive
  <1>3. step' \in [Process -> Steps] /\ step'[p] = "unlinked" /\ \A q \in Process : q # p => step'[q] = step[q]
    BY <1>0, <1>1, ProcFields DEF Steps
  <1>4. Proc!TypeOK'
    <2>1. \A q \in Process : (locked'[q] => fd'[q] # 0) /\ (step'[q] \in {"off", "gone"} => fd'[q] = 0)
      BY <1>0, <1>1, <1>3, ProcFields
    <2>2. path' \in 0..MaxFile
      BY <1>0, <1>1, ProcFields
    <2> QED
      BY <1>0, <1>1, <1>2, <1>3, <2>1, <2>2, ProcFields DEF Proc!TypeOK, Steps, Modes
  <1>5. FilesKnown'
    <2>1. path' <= files'
      BY <1>0, <1>1, ProcFields
    <2> QED
      BY <1>0, <1>1, <1>3, <2>1 DEF FilesKnown, NotLocked
  <1>6. OpenIsNamed'
    <2> SUFFICES ASSUME ~raced', NEW q \in Process, fd[q] # 0, step'[q] # "unlinked" PROVE FALSE
      BY <1>1 DEF OpenIsNamed
    <2>1. q # p /\ step[q] # "unlinked" /\ step[q] \notin {"off", "gone"}
      BY <1>0, <1>3, ProcFields
    <2> QED
      BY <1>0, <1>2, <2>1 DEF OpenIsNamed
  <1>7. LocksExclude'
    BY <1>0, <1>1 DEF LocksExclude
  <1> QED
    BY <1>4, <1>5, <1>6, <1>7 DEF ProcInv

\* The two halves of the sweep: the processes of `die` end, others are told.
LEMMA SweepKeeps == ASSUME ProcInv, NEW p \in Process, Proc!Sweep(p) \/ Proc!SweepKill(p) PROVE ProcInv'
  <1>0. Proc!TypeOK
    BY DEF ProcInv
  <1>1. CASE Proc!Sweep(p)
    <2> DEFINE others == Proc!Alive \ {p}
               handles == {q \in others : step[q] \in {"serve", "drain", "stop", "unlinked"}}
               die == others \ handles
               next(q) == CASE q = p -> IF others = {} THEN Proc!GivenUp(p) ELSE "sweeping"
                            [] q \in die -> "gone"
                            [] q \in handles /\ step[q] = "serve" -> Proc!Told(q)
                            [] OTHER -> step[q]
    <2>1. /\ step[p] = "sweep" /\ step' = [q \in Process |-> next(q)]
          /\ fd' = [q \in Process |-> IF q \in die THEN 0 ELSE fd[q]]
          /\ locked' = [q \in Process |-> locked[q] /\ q \notin die]
          /\ termed' = termed \cup others /\ port' = IF port \in die THEN Free ELSE port
          /\ UNCHANGED <<mode, path, files, raced>>
      BY <1>1 DEF Proc!Sweep
    <2>2. die \in SUBSET Process /\ others \subseteq Process /\ p \notin die
      BY DEF Proc!Alive
    <2>3. next(p) \in {"stop", "idle", "sweeping"}
      BY DEF Proc!GivenUp
    <2>4. \A q \in die : next(q) = "gone"
      BY <2>2
    <2>5. \A q \in Process \ die : q # p => next(q) = step[q] \/ (step[q] = "serve" /\ next(q) \in {"stop", "drain"})
      BY DEF Proc!Told
    <2> HIDE DEF next, die
    <2>6. step' \in [Process -> Steps]
      <3>1. ASSUME NEW q \in Process PROVE next(q) \in Steps
        BY <1>0, <2>3, <2>4, <2>5, ProcFields DEF Steps
      <3> QED
        BY <2>1, <3>1
    <2>7. /\ \A q \in die : step'[q] # "lock"
          /\ \A q \in Process \ die : /\ step'[q] \in {"off", "gone"} => step[q] \in {"off", "gone"}
                                      /\ step'[q] = "lock" => step[q] = "lock"
                                      /\ step'[q] \in NotLocked => step[q] \in NotLocked
                                      /\ step[q] = "unlinked" => step'[q] = "unlinked"
      BY <2>1, <2>2, <2>3, <2>4, <2>5 DEF NotLocked
    <2>8. mode' \in [Process -> Modes] /\ port' \in Process \cup {Free} /\ termed' \subseteq Process /\ UNCHANGED <<path, files, raced>>
      BY <1>0, <2>1, <2>2, ProcFields
    <2>9. /\ fd' = [q \in Process |-> IF q \in die THEN 0 ELSE fd[q]]
          /\ locked' = [q \in Process |-> locked[q] /\ q \notin die]
      BY <2>1
    <2> QED
      BY <2>2, <2>6, <2>7, <2>8, <2>9, StepsKeep
  <1>2. CASE Proc!SweepKill(p)
    <2> DEFINE late == (termed \cap Proc!Alive) \ {p}
    <2>1. /\ step[p] = "sweeping"
          /\ step' = [q \in Process |-> CASE q = p -> "rebind" [] q \in late -> "gone" [] OTHER -> step[q]]
          /\ fd' = [q \in Process |-> IF q \in late THEN 0 ELSE fd[q]]
          /\ locked' = [q \in Process |-> locked[q] /\ q \notin late]
          /\ port' = IF port \in late THEN Free ELSE port
          /\ UNCHANGED <<mode, path, files, termed, raced>>
      BY <1>2 DEF Proc!SweepKill
    <2>2. late \in SUBSET Process /\ p \notin late
      BY DEF Proc!Alive
    <2> HIDE DEF late
    <2>3. /\ step' \in [Process -> Steps] /\ step'[p] = "rebind" /\ \A q \in late : step'[q] = "gone"
          /\ \A q \in Process \ late : q # p => step'[q] = step[q]
      BY <1>0, <2>1, <2>2, ProcFields DEF Steps
    <2>7. /\ \A q \in late : step'[q] # "lock"
          /\ \A q \in Process \ late : /\ step'[q] \in {"off", "gone"} => step[q] \in {"off", "gone"}
                                       /\ step'[q] = "lock" => step[q] = "lock"
                                       /\ step'[q] \in NotLocked => step[q] \in NotLocked
                                       /\ step[q] = "unlinked" => step'[q] = "unlinked"
      BY <2>1, <2>3 DEF NotLocked
    <2>8. mode' \in [Process -> Modes] /\ port' \in Process \cup {Free} /\ termed' \subseteq Process /\ UNCHANGED <<path, files, raced>>
      BY <1>0, <2>1, <2>2, ProcFields
    <2>9. /\ fd' = [q \in Process |-> IF q \in late THEN 0 ELSE fd[q]]
          /\ locked' = [q \in Process |-> locked[q] /\ q \notin late]
      BY <2>1
    <2> QED
      BY <2>2, <2>3, <2>7, <2>8, <2>9, StepsKeep
  <1> QED
    BY <1>1, <1>2

LEMMA ProcNext == ASSUME ProcInv, Proc!Next PROVE ProcInv'
  <1>0. Proc!TypeOK
    BY DEF ProcInv
  <1>1. PICK p \in Process :
          \/ \E m \in {"headless", "tui"} : Proc!Start(p, m)
          \/ Proc!StartUi(p) \/ Proc!Runs(p) \/ Proc!PickTerminal(p)
          \/ \E c \in Process : Proc!PickWebUi(p, c)
          \/ Proc!Stop(p) \/ Proc!Exit(p)
    BY DEF Proc!Next
  <1>2. ASSUME NEW m \in Modes, step[p] = "off", mode' = [mode EXCEPT ![p] = m], Proc!Goto(p, "open"),
               UNCHANGED <<fd, locked, path, files, port, termed, raced>>
        PROVE  ProcInv'
    <2>1. step' \in [Process -> Steps] /\ step'[p] = "open" /\ \A q \in Process \ {p} : step'[q] = step[q]
      BY <1>0, <1>2, ProcFields DEF Proc!Goto, Steps
    <2> QED
      BY <1>2, <2>1, StartKeeps
  <1>3. ASSUME NEW m \in {"headless", "tui"}, Proc!Start(p, m) PROVE ProcInv'
    BY <1>2, <1>3 DEF Proc!Start, Modes
  <1>4. CASE Proc!StartUi(p)
    BY <1>2, <1>4 DEF Proc!StartUi, Modes
  <1>5. ASSUME NEW c \in Process, Proc!PickWebUi(p, c) PROVE ProcInv'
    <2>1. /\ step[c] = "off" /\ step[p] \notin NotLocked \cup {"unlinked"} /\ p # c
          /\ step' = [step EXCEPT ![p] = "exiting", ![c] = "open"] /\ mode' = [mode EXCEPT ![c] = "tray"]
          /\ UNCHANGED <<fd, locked, path, files, port, termed, raced>>
      BY <1>5 DEF Proc!PickWebUi, Proc!AtMenu, NotLocked
    <2>2. /\ step' \in [Process -> Steps] /\ step'[c] = "open" /\ step'[p] = "exiting"
          /\ \A q \in Process : q # c /\ q # p => step'[q] = step[q]
      BY <1>0, <2>1, ProcFields DEF Steps
    <2>3. "tray" \in Modes
      BY DEF Modes
    <2>4. \A q \in Process \ {c} : \/ step'[q] = step[q]
                                   \/ step'[q] = "exiting" /\ step[q] \notin NotLocked \cup {"unlinked"}
      BY <2>1, <2>2
    <2> QED
      BY <2>1, <2>2, <2>3, <2>4, StartKeeps
  <1>6. CASE Proc!LockTaken(p) \/ Proc!ExitProcess(p) \/ Proc!Close(p) \/ Proc!Exit(p)
    BY <1>6, EndsKeep DEF Proc!LockTaken, Proc!ExitProcess, Proc!Close, Proc!Exit
  <1>7. CASE Proc!Open(p) \/ Proc!Lock(p) \/ Proc!Remove(p) \/ Proc!Sweep(p) \/ Proc!SweepKill(p)
    BY <1>7, OpenKeeps, LockKeeps, RemoveKeeps, SweepKeeps
  <1>8. CASE Proc!Bind(p) \/ Proc!BindTimesOut(p) \/ Proc!RebindFails(p) \/ Proc!Drained(p) \/ Proc!PickTerminal(p) \/ Proc!Stop(p)
    <2>1. /\ \E s \in Steps \ NotLocked : Proc!Goto(p, s)
          /\ step[p] # "unlinked" /\ step[p] \notin NotLocked /\ mode' = mode /\ UNCHANGED <<fd, locked, path, files, termed, raced>>
      BY <1>8 DEF Proc!Bind, Proc!BindTimesOut, Proc!RebindFails, Proc!Drained, Proc!PickTerminal, Proc!Stop,
                  Proc!GivenUp, Proc!AtMenu, NotLocked, Steps
    <2>2. port' \in Process \cup {Free}
      BY <1>0, <1>8, ProcFields DEF Proc!Bind, Proc!BindTimesOut, Proc!RebindFails, Proc!Drained, Proc!PickTerminal, Proc!Stop
    <2> QED
      BY <2>1, <2>2, GotoKeeps
  <1> QED
    BY <1>1, <1>3, <1>4, <1>5, <1>6, <1>7, <1>8 DEF Proc!Runs

LEMMA ProcStutters == ASSUME ProcInv, UNCHANGED procVars PROVE ProcInv'
  BY DEF procVars, ProcInv, Proc!TypeOK, FilesKnown, OpenIsNamed, LocksExclude

LEMMA ProcPromises == ProcInv => Proc!TypeOK /\ Proc!OneHolderUnlessRaced
  <1> SUFFICES ASSUME ProcInv, ~raced PROVE ~(Cardinality({p \in Proc!Holders : step[p] # "unlinked"}) > 1)
    BY SameCount DEF ProcInv, Proc!OneHolderUnlessRaced
  <1> DEFINE H == {p \in Proc!Holders : step[p] # "unlinked"}
  <1>1. \A p, q \in H : p = q
    BY DEF ProcInv, OpenIsNamed, LocksExclude, Proc!Holders, Proc!TypeOK
  <1> HIDE DEF H
  <1>2. H = {} => Cardinality(H) = 0
    BY FS_EmptySet
  <1>3. H # {} => Cardinality(H) = 1
    <2> SUFFICES ASSUME H # {} PROVE Cardinality(H) = 1
      OBVIOUS
    <2>1. PICK p : H = {p}
      BY <1>1
    <2> QED
      BY <2>1, FS_Singleton
  <1>4. ~(Cardinality(H) > 1)
    BY <1>2, <1>3
  <1> QED
    BY <1>4 DEF H

-----------------------------------------------------------------------------
(* The dashboard.  A change of a key is paid for by a key that was issued or *)
(* used up; while none is unsent or unread, the key on the screen is one     *)
(* nobody has used.                                                          *)
Issued == {k \in 1..MaxKey : key[k] # "new"}
UsedUp == {k \in 1..MaxKey : key[k] \in {"used", "expired"}}
Budget == unsent \in Nat /\ unsent <= Cardinality(Issued) + Cardinality(UsedUp)
KeyState == {"new", "live", "used", "expired"}
Ui == [view : {"dashboard", "devices"}, sel : Nat, asks : {"nobody"} \cup Device,
       confirm : BOOLEAN, logs : BOOLEAN, filter : {"none", "editing", "active"}]
Mail == {"otk"} \cup Device
KeysTypes ==
  /\ key \in [1..MaxKey -> KeyState] /\ stale \in BOOLEAN /\ shownKey \in 0..MaxKey
  /\ inbox \in Seq(Mail) /\ recent \in Seq(Device) /\ ui \in Ui
  /\ status \in [Device -> {"none", "pending", "approved", "rejected"}]
  /\ posts \subseteq Device \X {"approved", "rejected", "revoked"}
Announces == \E i \in 1..Len(inbox) : inbox[i] = "otk"
ShownWorks == ~Announces /\ unsent = 0 /\ ~stale /\ shownKey # 0 => key[shownKey] \in {"live", "expired"}
KeysInv == KeysTypes /\ Budget /\ ShownWorks /\ Keys!KeysGoToOnePlace

LEMMA KeyBounds == MaxKey \in Nat \ {0} /\ MaxRecent \in Nat \ {0}
  BY KeysAssumption DEF Keys!KeysAssumption

LEMMA KeysBegin == Keys!Init => KeysInv
  <1> SUFFICES ASSUME Keys!Init PROVE KeysInv
    OBVIOUS
  <1> USE KeyBounds DEF Keys!Init
  <1>1. KeysTypes
    <2>1. key \in [1..MaxKey -> KeyState] /\ 0 \in 0..MaxKey
      <3> DEFINE K == 1..MaxKey
      <3> HIDE DEF K
      <3>1. [k \in K |-> "new"] \in [K -> KeyState]
        BY DEF KeyState
      <3> QED
        BY <3>1 DEF K
    <2>2. ui \in Ui
      BY DEF Ui
    <2>3. inbox \in Seq(Mail) /\ recent \in Seq(Device)
      OBVIOUS
    <2>4. status \in [Device -> {"none", "pending", "approved", "rejected"}] /\ posts = {} /\ stale = FALSE /\ shownKey = 0
      OBVIOUS
    <2> QED
      BY <2>1, <2>2, <2>3, <2>4 DEF KeysTypes
  <1>2. Issued = {} /\ UsedUp = {}
    BY DEF Issued, UsedUp
  <1>3. Budget
    BY <1>2, FS_EmptySet DEF Budget
  <1> QED
    BY <1>1, <1>3 DEF KeysInv, ShownWorks, Keys!KeysGoToOnePlace

\* Event of the bus: the mailbox takes it, at the cost of its oldest.
LEMMA SentArrives ==
    ASSUME KeysTypes, NEW e \in Mail, Keys!Sent(e)
    PROVE  inbox' \in Seq(Mail) /\ stale' \in BOOLEAN /\ (e = "otk" => Announces')
  <1>1. inbox \in Seq(Mail) /\ Len(inbox) \in Nat /\ stale \in BOOLEAN
    BY DEF KeysTypes
  <1> DEFINE kept == IF Len(inbox) = MaxRecent THEN Tail(inbox) ELSE inbox
  <1>2. kept \in Seq(Mail)
    <2>1. Len(inbox) = MaxRecent => inbox # <<>>
      BY <1>1, KeyBounds
    <2> QED
      BY <1>1, <2>1
  <1>3. inbox' = Append(kept, e) /\ stale' \in BOOLEAN
    BY <1>1 DEF Keys!Sent
  <1> HIDE DEF kept
  <1>4. inbox' \in Seq(Mail) /\ Len(inbox') = Len(kept) + 1 /\ Len(kept) \in Nat /\ inbox'[Len(kept) + 1] = e
    BY <1>2, <1>3
  <1>5. Len(kept) + 1 \in 1..Len(inbox')
    BY <1>4
  <1> QED
    BY <1>3, <1>4, <1>5 DEF Announces

LEMMA WithoutIsSeq == ASSUME KeysTypes, NEW d \in Device PROVE Keys!Without(d) \in Seq(Device)
  <1>1. recent \in Seq(Device) /\ Len(recent) \in Nat
    BY DEF KeysTypes
  <1> DEFINE here == {i \in 1..Len(recent) : recent[i] = d}
             i == CHOOSE j \in here : TRUE
  <1>2. CASE here = {}
    BY <1>1, <1>2 DEF Keys!Without
  <1>3. CASE here # {}
    <2>1. i \in 1..Len(recent)
      BY <1>3
    <2>2. Keys!Without(d) = SubSeq(recent, 1, i - 1) \o SubSeq(recent, i + 1, Len(recent))
      BY <1>3 DEF Keys!Without
    <2> HIDE DEF i
    <2>3. SubSeq(recent, 1, i - 1) \in Seq(Device)
      BY <1>1, <2>1
    <2>4. SubSeq(recent, i + 1, Len(recent)) \in Seq(Device)
      BY <1>1, <2>1
    <2> QED
      BY <2>2, <2>3, <2>4
  <1> QED
    BY <1>2, <1>3

LEMMA ActiveIsKey == ASSUME KeysTypes PROVE \A k \in Keys!ActiveOtk : k = 0 \/ (k \in 1..MaxKey /\ key[k] = "live")
  BY DEF Keys!ActiveOtk, Keys!Live

\* Keys are replaced by later ones; the key itself tells which step it was.
LEMMA GeneratedIs ==
    ASSUME KeysTypes, NEW k \in Keys!NextKey, key' = Keys!Generated(k)
    PROVE  /\ k \in 1..MaxKey /\ key[k] = "new" /\ key' \in [1..MaxKey -> KeyState] /\ key'[k] = "live"
           /\ \A i \in 1..MaxKey : i # k => key'[i] = IF key[i] = "live" THEN "used" ELSE key[i]
  <1>1. k \in 1..MaxKey /\ key[k] = "new" /\ key \in [1..MaxKey -> KeyState]
    BY DEF Keys!NextKey, KeysTypes
  <1> DEFINE S == 1..MaxKey
             g == [i \in S |-> IF key[i] = "live" THEN "used" ELSE key[i]]
  <1>2. key' = [g EXCEPT ![k] = "live"]
    BY DEF Keys!Generated
  <1>3. k \in S /\ key \in [S -> KeyState]
    BY <1>1
  <1> HIDE DEF S
  <1>4. g \in [S -> KeyState]
    BY <1>3 DEF KeyState
  <1>5. key' \in [S -> KeyState] /\ key'[k] = "live" /\ \A i \in S : i # k => key'[i] = g[i]
    <2> HIDE DEF g
    <2> QED
      BY <1>2, <1>3, <1>4 DEF KeyState
  <1> QED
    BY <1>1, <1>5 DEF S

LEMMA KeysTypesNext == ASSUME KeysTypes, Keys!Next PROVE KeysTypes'
  <1> USE KeyBounds
  <1>0. /\ key \in [1..MaxKey -> KeyState] /\ stale \in BOOLEAN /\ shownKey \in 0..MaxKey
        /\ inbox \in Seq(Mail) /\ recent \in Seq(Device) /\ ui \in Ui
        /\ status \in [Device -> {"none", "pending", "approved", "rejected"}]
        /\ posts \subseteq Device \X {"approved", "rejected", "revoked"}
    BY DEF KeysTypes
  <1>1. CASE Keys!IssueKey
    BY <1>0, <1>1, GeneratedIs DEF Keys!IssueKey, KeysTypes
  <1>2. ASSUME NEW d \in Device, Keys!Login(d) PROVE KeysTypes'
    <2>1. key' \in [1..MaxKey -> KeyState]
      BY <1>0, <1>2 DEF Keys!Login, KeyState
    <2>2. inbox' \in Seq(Mail) /\ stale' \in BOOLEAN
      BY <1>2, SentArrives DEF Keys!Login, Mail
    <2>3. recent' \in Seq(Device)
      <3>1. <<d>> \in Seq(Device)
        OBVIOUS
      <3> QED
        BY <1>0, <1>2, <3>1 DEF Keys!Login
    <2>4. status' \in [Device -> {"none", "pending", "approved", "rejected"}] /\ UNCHANGED <<shownKey, posts, ui>>
      BY <1>0, <1>2 DEF Keys!Login
    <2> QED
      BY <1>0, <2>1, <2>2, <2>3, <2>4 DEF KeysTypes
  <1>3. CASE Keys!SendOtk
    <2>1. inbox' \in Seq(Mail) /\ stale' \in BOOLEAN
      BY <1>3, SentArrives DEF Keys!SendOtk, Mail
    <2> QED
      BY <1>0, <1>3, <2>1 DEF Keys!SendOtk, KeysTypes
  <1>4. ASSUME NEW k \in 1..MaxKey, Keys!Expire(k) PROVE KeysTypes'
    <2>1. key' \in [1..MaxKey -> KeyState]
      BY <1>0, <1>4 DEF Keys!Expire, KeyState
    <2> QED
      BY <1>0, <1>4, <2>1 DEF Keys!Expire, KeysTypes
  <1>5. ASSUME NEW d \in Device, NEW w \in {"approved", "rejected", "revoked"}, Keys!Post(d, w) PROVE KeysTypes'
    <2>1. recent' \in Seq(Device)
      BY <1>0, <1>5, WithoutIsSeq DEF Keys!Post
    <2>2. /\ status' \in [Device -> {"none", "pending", "approved", "rejected"}]
          /\ posts' \subseteq Device \X {"approved", "rejected", "revoked"}
          /\ UNCHANGED <<key, unsent, inbox, stale, shownKey, ui>>
      BY <1>0, <1>5 DEF Keys!Post
    <2> QED
      BY <1>0, <2>1, <2>2 DEF KeysTypes
  <1>6. CASE Keys!Drain
    <2>1. inbox' \in Seq(Mail) /\ Head(inbox) \in Mail
      BY <1>0, <1>6 DEF Keys!Drain
    <2>2. CASE Head(inbox) = "otk"
      <3>1. shownKey' \in 0..MaxKey /\ stale' = FALSE /\ UNCHANGED <<ui, key, status, recent, posts>>
        BY <1>6, <2>2, ActiveIsKey DEF Keys!Drain
      <3> QED
        BY <1>0, <2>1, <3>1 DEF KeysTypes
    <2>3. CASE Head(inbox) # "otk"
      <3>1. ui' = [ui EXCEPT !.asks = Head(inbox)] /\ UNCHANGED <<shownKey, stale, key, status, recent, posts>>
        BY <1>6, <2>3 DEF Keys!Drain
      <3>2. Head(inbox) \in {"nobody"} \cup Device
        BY <2>1, <2>3 DEF Mail
      <3>3. ui' \in Ui
        BY <1>0, <3>1, <3>2 DEF Ui
      <3> QED
        BY <1>0, <2>1, <3>1, <3>3 DEF KeysTypes
    <2> QED
      BY <2>2, <2>3
  <1>7. CASE Keys!ApprovalTimesOut \/ Keys!Answer
    <2>1. ui' = [ui EXCEPT !.asks = "nobody"] /\ UNCHANGED <<key, inbox, stale, shownKey, status, recent>>
      BY <1>7 DEF Keys!ApprovalTimesOut, Keys!Answer
    <2>2. posts' \subseteq Device \X {"approved", "rejected", "revoked"}
      BY <1>0, <1>7 DEF Keys!ApprovalTimesOut, Keys!Answer, Ui
    <2>3. ui' \in Ui
      BY <1>0, <2>1 DEF Ui
    <2> QED
      BY <1>0, <2>1, <2>2, <2>3 DEF KeysTypes
  <1>8. CASE Keys!KeyR
    <2>1. inbox' \in Seq(Mail) /\ stale' \in BOOLEAN
      BY <1>8, SentArrives DEF Keys!KeyR, Mail
    <2>2. key' \in [1..MaxKey -> KeyState] /\ shownKey' \in 0..MaxKey
      BY <1>8, GeneratedIs DEF Keys!KeyR
    <2> QED
      BY <1>0, <1>8, <2>1, <2>2 DEF Keys!KeyR, KeysTypes
  <1>9. CASE Keys!KeyA
    <2>1. status' \in [Device -> {"none", "pending", "approved", "rejected"}]
      BY <1>0, <1>9 DEF Keys!KeyA
    <2> QED
      BY <1>0, <1>9, <2>1 DEF Keys!KeyA, KeysTypes
  <1>10. CASE Keys!KeyView \/ Keys!KeyL \/ Keys!KeyF \/ Keys!FilterKey \/ Keys!ConfirmKey \/ Keys!ListKey
    <2>1. UNCHANGED <<key, inbox, stale, shownKey, status, recent, posts>>
      BY <1>10 DEF Keys!KeyView, Keys!KeyL, Keys!KeyF, Keys!FilterKey, Keys!ConfirmKey, Keys!ListKey, Keys!OnlyUi
    <2>2. ui' \in Ui
      <3>1. CASE Keys!KeyView
        <4>1. \/ ui' = [ui EXCEPT !.view = "devices", !.sel = 1]
              \/ ui' = [ui EXCEPT !.confirm = TRUE]
          BY <3>1 DEF Keys!KeyView
        <4>2. 1 \in Nat
          OBVIOUS
        <4>3. [ui EXCEPT !.view = "devices", !.sel = 1] \in Ui
          BY <1>0, <4>2, Zenon DEF Ui
        <4>4. [ui EXCEPT !.confirm = TRUE] \in Ui
          BY <1>0 DEF Ui
        <4> QED
          BY <4>1, <4>3, <4>4
      <3>2. CASE Keys!KeyL
        BY <1>0, <3>2 DEF Keys!KeyL, Ui
      <3>3. CASE Keys!KeyF \/ Keys!FilterKey \/ Keys!ConfirmKey
        BY <1>0, <3>3 DEF Keys!KeyF, Keys!FilterKey, Keys!ConfirmKey, Ui
      <3>4. CASE Keys!ListKey
        <4>1. ui.sel \in Nat /\ (ui.sel > 1 => ui.sel - 1 \in Nat) /\ ui.sel + 1 \in Nat
          BY <1>0 DEF Ui
        <4> QED
          BY <1>0, <3>4, <4>1 DEF Keys!ListKey, Ui
      <3> QED
        BY <1>10, <3>1, <3>2, <3>3, <3>4
    <2> QED
      BY <1>0, <2>1, <2>2 DEF KeysTypes
  <1>11. CASE Keys!ListEnter
    <2>1. PICK d \in Keys!Listed(ui.sel) :
             \/ status' = [status EXCEPT ![d] = "approved"] /\ UNCHANGED posts
             \/ posts' = posts \cup {<<d, "revoked">>} /\ UNCHANGED status
      BY <1>11 DEF Keys!ListEnter
    <2>2. d \in Device
      <3>1. \A i \in 1..Len(recent) : recent[i] \in Device
        BY <1>0
      <3>2. PICK i \in 1..Len(recent) : d = recent[i]
        BY DEF Keys!Listed
      <3> QED
        BY <3>1, <3>2
    <2>3. status' \in [Device -> {"none", "pending", "approved", "rejected"}]
      BY <1>0, <2>1
    <2>4. posts' \subseteq Device \X {"approved", "rejected", "revoked"}
      BY <1>0, <2>1, <2>2
    <2> QED
      BY <1>0, <1>11, <2>3, <2>4 DEF Keys!ListEnter, KeysTypes
  <1> QED
    BY <1>1, <1>2, <1>3, <1>4, <1>5, <1>6, <1>7, <1>8, <1>9, <1>10, <1>11 DEF Keys!Next, Keys!Keyboard

\* Sets of keys grow, and a set that grows by a key counts one more.
LEMMA Grows ==
    ASSUME NEW n \in Nat, NEW A, NEW B, A \subseteq B, B \subseteq 1..n
    PROVE  /\ Cardinality(A) \in Nat /\ Cardinality(B) \in Nat /\ Cardinality(A) <= Cardinality(B) /\ Cardinality(B) <= n
           /\ \A x \in B \ A : Cardinality(A) + 1 <= Cardinality(B)
  <1>1. IsFiniteSet(1..n) /\ Cardinality(1..n) = n
    BY FS_Interval
  <1>2. IsFiniteSet(B) /\ IsFiniteSet(A)
    BY <1>1, FS_Subset
  <1>3. Cardinality(A) \in Nat /\ Cardinality(B) \in Nat /\ Cardinality(A) <= Cardinality(B) /\ Cardinality(B) <= n
    BY <1>1, <1>2, FS_Subset, FS_CardinalityType
  <1>4. ASSUME NEW x \in B \ A PROVE Cardinality(A) + 1 <= Cardinality(B)
    <2>1. IsFiniteSet(A \cup {x}) /\ Cardinality(A \cup {x}) = Cardinality(A) + 1
      BY <1>2, FS_AddElement
    <2>2. A \cup {x} \subseteq B
      OBVIOUS
    <2> QED
      BY <1>2, <2>1, <2>2, FS_Subset
  <1> QED
    BY <1>3, <1>4

\* Keys only age; a step that makes an event due ages one.
LEMMA BudgetNext == ASSUME KeysTypes, Budget, Keys!Next PROVE Budget'
  <1> DEFINE K == 1..MaxKey
             spent == Cardinality(Issued) + Cardinality(UsedUp)
  <1>0. key \in [K -> KeyState] /\ unsent \in Nat /\ unsent <= spent /\ MaxKey \in Nat
    BY KeyBounds DEF KeysTypes, Budget
  <1>1. Issued \subseteq K /\ UsedUp \subseteq K /\ Issued' \subseteq K /\ UsedUp' \subseteq K
    BY DEF Issued, UsedUp
  <1>2. ASSUME \A k \in K : /\ key[k] # "new" => key'[k] # "new"
                            /\ key[k] \in {"used", "expired"} => key'[k] \in {"used", "expired"},
               unsent' \in Nat, unsent' <= unsent + 1,
               unsent' = unsent + 1 => \E k \in K : \/ key[k] = "new" /\ key'[k] # "new"
                                                    \/ key[k] = "live" /\ key'[k] = "used"
        PROVE  Budget'
    <2>1. Issued \subseteq Issued' /\ UsedUp \subseteq UsedUp'
      BY <1>2 DEF Issued, UsedUp
    <2>2. /\ Cardinality(Issued) \in Nat /\ Cardinality(Issued') \in Nat /\ Cardinality(Issued) <= Cardinality(Issued')
          /\ \A x \in Issued' \ Issued : Cardinality(Issued) + 1 <= Cardinality(Issued')
      BY <1>0, <1>1, <2>1, Grows
    <2>3. /\ Cardinality(UsedUp) \in Nat /\ Cardinality(UsedUp') \in Nat /\ Cardinality(UsedUp) <= Cardinality(UsedUp')
          /\ \A x \in UsedUp' \ UsedUp : Cardinality(UsedUp) + 1 <= Cardinality(UsedUp')
      BY <1>0, <1>1, <2>1, Grows
    <2>4. unsent' = unsent + 1 => (\E x \in Issued' \ Issued : TRUE) \/ (\E x \in UsedUp' \ UsedUp : TRUE)
      BY <1>2 DEF Issued, UsedUp
    <2>5. unsent' <= Cardinality(Issued') + Cardinality(UsedUp')
      BY <1>0, <1>2, <2>2, <2>3, <2>4
    <2> QED
      BY <1>2, <2>5 DEF Budget
  <1>3. CASE Keys!IssueKey
    <2>1. PICK k \in Keys!NextKey : key' = Keys!Generated(k) /\ unsent' = unsent + 1
      BY <1>3 DEF Keys!IssueKey
    <2>2. /\ k \in K /\ key[k] = "new" /\ key'[k] = "live"
          /\ \A i \in K : i # k => key'[i] = IF key[i] = "live" THEN "used" ELSE key[i]
      BY <2>1, GeneratedIs
    <2>3. unsent' \in Nat /\ unsent' <= unsent + 1
      BY <1>0, <2>1
    <2> HIDE DEF K
    <2> QED
      BY <1>2, <2>2, <2>3
  <1>4. ASSUME NEW d \in Device, Keys!Login(d) PROVE Budget'
    <2>1. PICK k \in K : key[k] = "live" /\ key' = [key EXCEPT ![k] = "used"] /\ unsent' = unsent + 1
      BY <1>4 DEF Keys!Login, Keys!Live
    <2>2. unsent' \in Nat /\ unsent' <= unsent + 1
      BY <1>0, <2>1
    <2> HIDE DEF K
    <2>3. key'[k] = "used" /\ \A i \in K : i # k => key'[i] = key[i]
      BY <1>0, <2>1
    <2> QED
      BY <1>2, <2>1, <2>2, <2>3
  <1>5. CASE Keys!SendOtk
    BY <1>0, <1>2, <1>5 DEF Keys!SendOtk
  <1>6. ASSUME NEW k \in K, Keys!Expire(k) PROVE Budget'
    <2>1. key[k] = "live" /\ key' = [key EXCEPT ![k] = "expired"] /\ unsent' = unsent
      BY <1>6 DEF Keys!Expire
    <2>2. unsent' \in Nat /\ unsent' <= unsent + 1 /\ unsent' # unsent + 1
      BY <1>0, <2>1
    <2> HIDE DEF K
    <2>3. key'[k] = "expired" /\ \A i \in K : i # k => key'[i] = key[i]
      BY <1>0, <2>1
    <2> QED
      BY <1>2, <2>1, <2>2, <2>3
  <1>7. CASE Keys!KeyR
    <2>1. PICK k \in Keys!NextKey : key' = Keys!Generated(k) /\ unsent' = unsent
      BY <1>7 DEF Keys!KeyR
    <2>2. /\ k \in K /\ key[k] = "new" /\ key'[k] = "live"
          /\ \A i \in K : i # k => key'[i] = IF key[i] = "live" THEN "used" ELSE key[i]
      BY <2>1, GeneratedIs
    <2>3. unsent' \in Nat /\ unsent' <= unsent + 1 /\ unsent' # unsent + 1
      BY <1>0, <2>1
    <2> HIDE DEF K
    <2> QED
      BY <1>2, <2>2, <2>3
  <1>8. CASE UNCHANGED <<key, unsent>>
    BY <1>0, <1>2, <1>8
  <1> QED
    BY <1>3, <1>4, <1>5, <1>6, <1>7, <1>8
    DEF Keys!Next, Keys!Keyboard, Keys!Post, Keys!Drain, Keys!ApprovalTimesOut, Keys!Answer, Keys!KeyA, Keys!KeyView, Keys!KeyL,
        Keys!KeyF, Keys!FilterKey, Keys!ConfirmKey, Keys!ListKey, Keys!ListEnter, Keys!OnlyUi

LEMMA ShownNext == ASSUME KeysTypes, Budget, ShownWorks, Keys!Next PROVE ShownWorks'
  <1>0. /\ key \in [1..MaxKey -> KeyState] /\ stale \in BOOLEAN /\ shownKey \in 0..MaxKey /\ inbox \in Seq(Mail)
        /\ unsent \in Nat /\ MaxKey \in Nat
    BY KeyBounds DEF KeysTypes, Budget
  <1>1. CASE Keys!IssueKey \/ \E d \in Device : Keys!Login(d)
    <2>1. unsent' = unsent + 1
      BY <1>1 DEF Keys!IssueKey, Keys!Login
    <2>2. unsent' # 0
      BY <1>0, <2>1
    <2> QED
      BY <2>2 DEF ShownWorks
  <1>2. CASE Keys!SendOtk
    <2>1. Announces'
      BY <1>2, SentArrives DEF Keys!SendOtk, Mail
    <2> QED
      BY <2>1 DEF ShownWorks
  <1>3. ASSUME NEW k \in 1..MaxKey, Keys!Expire(k) PROVE ShownWorks'
    <2>1. shownKey # 0 => shownKey \in 1..MaxKey
      BY <1>0
    <2>2. \A i \in 1..MaxKey : key[i] \in {"live", "expired"} => key'[i] \in {"live", "expired"}
      BY <1>0, <1>3 DEF Keys!Expire
    <2>3. UNCHANGED <<unsent, inbox, stale, shownKey>>
      BY <1>3 DEF Keys!Expire
    <2> QED
      BY <2>1, <2>2, <2>3 DEF ShownWorks, Announces
  <1>4. CASE Keys!Drain
    <2>1. inbox # <<>> /\ inbox' = Tail(inbox) /\ UNCHANGED <<key, unsent>>
      BY <1>4 DEF Keys!Drain
    <2>2. CASE Head(inbox) = "otk"
      <3>1. shownKey' = 0 \/ key[shownKey'] = "live"
        BY <1>4, <2>2, ActiveIsKey DEF Keys!Drain
      <3> QED
        BY <2>1, <3>1 DEF ShownWorks
    <2>3. CASE Head(inbox) # "otk"
      <3>1. UNCHANGED <<shownKey, stale>>
        BY <1>4, <2>3 DEF Keys!Drain
      <3>2. Announces => Announces'
        <4> SUFFICES ASSUME NEW i \in 1..Len(inbox), inbox[i] = "otk" PROVE Announces'
          BY DEF Announces
        <4>1. Len(inbox) \in Nat /\ Len(inbox') = Len(inbox) - 1 /\ Head(inbox) = inbox[1]
              /\ \A j \in 1..(Len(inbox) - 1) : inbox'[j] = inbox[j + 1]
          BY <1>0, <2>1
        <4>2. i # 1
          BY <2>3, <4>1
        <4>3. i - 1 \in 1..Len(inbox') /\ (i - 1) + 1 = i
          BY <4>1, <4>2
        <4>4. inbox'[i - 1] = "otk"
          BY <4>1, <4>3
        <4> QED
          BY <4>3, <4>4 DEF Announces
      <3> QED
        BY <2>1, <3>1, <3>2 DEF ShownWorks
    <2> QED
      BY <2>2, <2>3
  <1>5. CASE Keys!KeyR
    <2>1. PICK k \in Keys!NextKey : key' = Keys!Generated(k) /\ shownKey' = k
      BY <1>5 DEF Keys!KeyR
    <2> QED
      BY <2>1, GeneratedIs DEF ShownWorks
  <1>6. CASE UNCHANGED <<key, unsent, inbox, stale, shownKey>>
    BY <1>6 DEF ShownWorks, Announces
  <1> QED
    BY <1>1, <1>2, <1>3, <1>4, <1>5, <1>6
    DEF Keys!Next, Keys!Keyboard, Keys!Post, Keys!ApprovalTimesOut, Keys!Answer, Keys!KeyA, Keys!KeyView, Keys!KeyL,
        Keys!KeyF, Keys!FilterKey, Keys!ConfirmKey, Keys!ListKey, Keys!ListEnter, Keys!OnlyUi

LEMMA OnePlaceNext == ASSUME KeysTypes, Keys!KeysGoToOnePlace, Keys!Next PROVE Keys!KeysGoToOnePlace'
  <1> USE DEF Keys!KeysGoToOnePlace
  <1>0. ui \in Ui
    BY DEF KeysTypes
  <1>1. CASE Keys!Drain \/ Keys!Answer \/ Keys!ApprovalTimesOut
    BY <1>0, <1>1 DEF Keys!Drain, Keys!Answer, Keys!ApprovalTimesOut, Ui
  <1>2. CASE Keys!KeyView
    BY <1>0, <1>2 DEF Keys!KeyView, Keys!OnDashboard, Keys!Pressed, Ui
  <1>3. CASE Keys!KeyL
    BY <1>0, <1>3 DEF Keys!KeyL, Keys!OnDashboard, Keys!Pressed, Ui
  <1>4. CASE Keys!KeyF
    BY <1>0, <1>4 DEF Keys!KeyF, Keys!OnDashboard, Keys!Pressed, Ui
  <1>5. CASE Keys!FilterKey \/ Keys!ConfirmKey
    BY <1>0, <1>5 DEF Keys!FilterKey, Keys!ConfirmKey, Keys!Pressed, Ui
  <1>6. CASE Keys!ListKey
    BY <1>0, <1>6 DEF Keys!ListKey, Keys!Pressed, Ui
  <1>7. CASE UNCHANGED ui
    BY <1>7
  <1> QED
    BY <1>1, <1>2, <1>3, <1>4, <1>5, <1>6, <1>7
    DEF Keys!Next, Keys!Keyboard, Keys!IssueKey, Keys!Login, Keys!SendOtk, Keys!Expire, Keys!Post, Keys!KeyR, Keys!KeyA, Keys!ListEnter

LEMMA KeysNext == ASSUME KeysInv, Keys!Next PROVE KeysInv'
  BY KeysTypesNext, BudgetNext, ShownNext, OnePlaceNext DEF KeysInv

LEMMA KeysStutter == ASSUME KeysInv, UNCHANGED keysVars PROVE KeysInv'
  BY DEF keysVars, KeysInv, KeysTypes, Budget, Issued, UsedUp, ShownWorks, Announces, Keys!KeysGoToOnePlace

LEMMA KeysPromise == KeysInv => Keys!TypeOK /\ Keys!QrCarriesLiveKey /\ Keys!KeysGoToOnePlace
  <1> SUFFICES ASSUME KeysInv PROVE Keys!TypeOK /\ Keys!QrCarriesLiveKey /\ Keys!KeysGoToOnePlace
    OBVIOUS
  <1>0. KeysTypes /\ Budget /\ ShownWorks /\ Keys!KeysGoToOnePlace
    BY DEF KeysInv
  <1>1. unsent \in 0..2 * MaxKey
    <2>1. Issued \subseteq 1..MaxKey /\ UsedUp \subseteq 1..MaxKey /\ MaxKey \in Nat
      BY KeyBounds DEF Issued, UsedUp
    <2>2. /\ Cardinality(Issued) \in Nat /\ Cardinality(Issued) <= MaxKey
          /\ Cardinality(UsedUp) \in Nat /\ Cardinality(UsedUp) <= MaxKey
      BY <2>1, Grows
    <2> QED
      BY <1>0, <2>1, <2>2 DEF Budget
  <1>2. \A i \in 1..Len(inbox) : inbox[i] = "otk" \/ inbox[i] \in Device
    BY <1>0 DEF KeysTypes, Mail
  <1>3. Keys!TypeOK
    BY <1>0, <1>1, <1>2 DEF KeysTypes, KeyState, Ui, Keys!TypeOK
  <1>4. inbox = <<>> => ~Announces
    BY DEF Announces
  <1> QED
    BY <1>0, <1>3, <1>4 DEF ShownWorks, Keys!QrCarriesLiveKey

-----------------------------------------------------------------------------
(* The prober.  While it resolves, every answer has been NXDOMAIN; once it   *)
(* has an address, no outcome is; each position bounds the time.             *)
Outcome == {"ok", "timeout", "nxdomain", "http_5xx", "http_4xx", "http_auth", "network"}
ProbeTypes ==
  /\ at \in {"waiting", "doh", "probe", "pause", "judged", "dead"}
  /\ elapsed \in Nat /\ pinned \in BOOLEAN /\ nxOnly \in BOOLEAN
  /\ lastSeen \in Outcome /\ unread \in Seq({"url", "other"}) /\ behind \in BOOLEAN
  /\ announcements \in 0..MaxUrl
Timely ==
  /\ at \in {"waiting", "dead"} => elapsed = 0
  /\ at = "doh" => elapsed < 8
  /\ at = "probe" => elapsed < 11
  /\ at = "pause" => elapsed < 14
  /\ at = "judged" => elapsed < 16
Judged ==
  /\ at = "doh" => ~pinned /\ nxOnly
  /\ at = "probe" => pinned
  /\ at = "pause" => IF pinned THEN lastSeen # "nxdomain" ELSE nxOnly
  /\ at = "judged" /\ lastSeen = "nxdomain" => nxOnly /\ elapsed >= 8
ProbeInv == ProbeTypes /\ Timely /\ Judged

LEMMA ProbeBounds == MaxUrl \in Nat \ {0} /\ ProbeCap \in Nat \ {0}
  BY ProbeAssumption DEF Probe!ProbeAssumption

LEMMA ProbeBegins == Probe!Init => ProbeInv
  <1> SUFFICES ASSUME Probe!Init PROVE ProbeInv
    OBVIOUS
  <1>1. /\ at = "waiting" /\ elapsed = 0 /\ pinned = FALSE /\ lastSeen = "timeout" /\ nxOnly = FALSE
        /\ unread = <<>> /\ behind = FALSE /\ announcements = 0
    BY DEF Probe!Init
  <1>2. 0 \in Nat /\ announcements \in 0..MaxUrl /\ unread \in Seq({"url", "other"})
    BY <1>1, ProbeBounds
  <1>3. ProbeTypes
    BY <1>1, <1>2 DEF ProbeTypes, Outcome
  <1>4. Timely
    BY <1>1 DEF Timely
  <1>5. Judged
    BY <1>1 DEF Judged
  <1> QED
    BY <1>3, <1>4, <1>5 DEF ProbeInv

LEMMA ArriveIsSeq ==
    ASSUME ProbeTypes, NEW e \in {"url", "other"}, Probe!Arrive(e)
    PROVE  unread' \in Seq({"url", "other"}) /\ behind' \in BOOLEAN
  <1>1. unread \in Seq({"url", "other"}) /\ Len(unread) \in Nat /\ behind \in BOOLEAN
    BY DEF ProbeTypes
  <1> DEFINE kept == IF Len(unread) = ProbeCap THEN Tail(unread) ELSE unread
  <1>2. kept \in Seq({"url", "other"})
    <2>1. Len(unread) = ProbeCap => unread # <<>>
      BY <1>1, ProbeBounds
    <2> QED
      BY <1>1, <2>1
  <1>3. unread' = Append(kept, e) /\ behind' \in BOOLEAN
    BY <1>1 DEF Probe!Arrive
  <1> HIDE DEF kept
  <1> QED
    BY <1>2, <1>3

LEMMA ProbeNext == ASSUME ProbeInv, Probe!Next PROVE ProbeInv'
  <1> USE DEF Timely, Judged
  <1>0. ProbeTypes /\ Timely /\ Judged /\ elapsed \in Nat
    BY DEF ProbeInv, ProbeTypes
  <1>1. CASE Probe!AnnounceUrl \/ Probe!OtherEvent
    <2>1. unread' \in Seq({"url", "other"}) /\ behind' \in BOOLEAN /\ UNCHANGED <<at, elapsed, pinned, lastSeen, nxOnly>>
      BY <1>0, <1>1, ArriveIsSeq DEF Probe!AnnounceUrl, Probe!OtherEvent, Probe!Arrive
    <2>2. announcements' \in 0..MaxUrl
      BY <1>0, <1>1, ProbeBounds DEF Probe!AnnounceUrl, Probe!OtherEvent, ProbeTypes
    <2> QED
      BY <1>0, <2>1, <2>2 DEF ProbeInv, ProbeTypes
  <1>2. CASE Probe!Receive
    <2>1. unread' \in Seq({"url", "other"}) /\ UNCHANGED <<behind, announcements>>
      BY <1>0, <1>2 DEF Probe!Receive, ProbeTypes
    <2>2. \/ UNCHANGED <<at, elapsed, pinned, lastSeen, nxOnly>>
          \/ at' = "doh" /\ elapsed' = 0 /\ pinned' = FALSE /\ lastSeen' = "timeout" /\ nxOnly' = TRUE
      BY <1>2 DEF Probe!Receive
    <2>3. ProbeTypes'
      <3>1. /\ at' \in {"waiting", "doh", "probe", "pause", "judged", "dead"} /\ elapsed' \in Nat
            /\ pinned' \in BOOLEAN /\ nxOnly' \in BOOLEAN /\ lastSeen' \in Outcome
        <4>1. CASE UNCHANGED <<at, elapsed, pinned, lastSeen, nxOnly>>
          BY <1>0, <4>1 DEF ProbeTypes
        <4>2. CASE at' = "doh" /\ elapsed' = 0 /\ pinned' = FALSE /\ lastSeen' = "timeout" /\ nxOnly' = TRUE
          BY <4>2 DEF Outcome
        <4> QED
          BY <2>2, <4>1, <4>2
      <3> QED
        BY <1>0, <2>1, <3>1 DEF ProbeTypes
    <2>4. Timely'
      BY <1>0, <2>2
    <2>5. Judged'
      BY <1>0, <2>2
    <2> QED
      BY <2>3, <2>4, <2>5 DEF ProbeInv
  <1>3. CASE Probe!ReceiveLagged \/ Probe!ClientFirst \/ Probe!Report
    <2> USE DEF Probe!ReceiveLagged, Probe!ClientFirst, Probe!Report
    <2>1. ProbeTypes'
      <3>1. UNCHANGED <<unread, behind, announcements, pinned>> /\ elapsed' \in {elapsed, 0} /\ at' \in {"dead", "judged", "waiting"}
        BY <1>3
      <3>2. (lastSeen' = lastSeen \/ lastSeen' = "ok") /\ nxOnly' \in {nxOnly, FALSE}
        BY <1>3
      <3>3. nxOnly' \in BOOLEAN
        BY <1>0, <3>2 DEF ProbeTypes
      <3>4. lastSeen' \in Outcome
        BY <1>0, <3>2 DEF ProbeTypes, Outcome
      <3> QED
        BY <1>0, <3>1, <3>3, <3>4 DEF ProbeTypes
    <2>2. Timely'
      BY <1>0, <1>3
    <2>3. Judged'
      BY <1>0, <1>3
    <2> QED
      BY <2>1, <2>2, <2>3 DEF ProbeInv
  <1>4. CASE Probe!Resolved
    <2>1. PICK t \in 0..3 : elapsed' = elapsed + t
      BY <1>4 DEF Probe!Resolved, Probe!DohTakes, Probe!DOH_TIMEOUT
    <2>2. elapsed' \in Nat /\ elapsed' < 11
      BY <1>0, <1>4, <2>1 DEF Probe!Resolved
    <2> QED
      BY <1>0, <1>4, <2>2 DEF Probe!Resolved, ProbeInv, ProbeTypes
  <1>5. CASE Probe!Nxdomain
    <2>1. PICK t \in 0..3 : elapsed' = elapsed + t
      BY <1>5 DEF Probe!Nxdomain, Probe!DohTakes, Probe!DOH_TIMEOUT
    <2>2. elapsed' \in Nat /\ elapsed' < 14
      BY <1>0, <1>5, <2>1 DEF Probe!Nxdomain
    <2> QED
      BY <1>0, <1>5, <2>2 DEF Probe!Nxdomain, ProbeInv, ProbeTypes, Outcome
  <1>6. ASSUME NEW o \in Probe!Outcome, Probe!Probed(o) PROVE ProbeInv'
    <2>1. PICK t \in 0..3 : elapsed' = elapsed + t
      BY <1>6 DEF Probe!Probed, Probe!AttemptTakes, Probe!PER_ATTEMPT_TIMEOUT
    <2>2. elapsed' \in Nat /\ elapsed' < 14
      BY <1>0, <1>6, <2>1 DEF Probe!Probed
    <2>3. o \in Outcome /\ o # "nxdomain" /\ lastSeen' = o /\ at' \in {"judged", "pause"} /\ pinned' = TRUE
          /\ UNCHANGED <<nxOnly, unread, behind, announcements>>
      BY <1>0, <1>6 DEF Probe!Probed, Probe!Outcome, Outcome
    <2>4. Timely'
      BY <2>2, <2>3
    <2>5. Judged'
      BY <2>3
    <2> QED
      BY <1>0, <2>2, <2>3, <2>4, <2>5 DEF ProbeInv, ProbeTypes
  <1>7. CASE Probe!PauseOver
    <2>1. /\ at = "pause" /\ elapsed' = elapsed + 2 /\ UNCHANGED <<pinned, lastSeen, nxOnly, unread, behind, announcements>>
          /\ at' = IF elapsed' < 8 THEN IF pinned THEN "probe" ELSE "doh" ELSE "judged"
      BY <1>7 DEF Probe!PauseOver, Probe!PROBE_INTERVAL, Probe!HEALTH_TIMEOUT
    <2>2. elapsed' \in Nat /\ elapsed' < 16
      BY <1>0, <2>1
    <2>3. Timely'
      BY <2>1, <2>2
    <2>4. Judged'
      BY <1>0, <2>1, <2>2
    <2> QED
      BY <1>0, <2>1, <2>2, <2>3, <2>4 DEF ProbeInv, ProbeTypes
  <1> QED
    BY <1>1, <1>2, <1>3, <1>4, <1>5, <1>6, <1>7 DEF Probe!Next, Probe!Probing

LEMMA ProbeStutters == ASSUME ProbeInv, UNCHANGED probeVars PROVE ProbeInv'
  BY DEF probeVars, ProbeInv, ProbeTypes, Timely, Judged

LEMMA ProbePromises == ProbeInv => Probe!TypeOK /\ Probe!NxdomainIsSustained /\ Probe!ProbeEndsInTime
  <1> SUFFICES ASSUME ProbeInv PROVE Probe!TypeOK /\ Probe!NxdomainIsSustained /\ Probe!ProbeEndsInTime
    OBVIOUS
  <1>1. Probe!TypeOK
    BY DEF ProbeInv, ProbeTypes, Outcome, Probe!TypeOK, Probe!Outcome
  <1>2. Probe!NxdomainIsSustained
    BY DEF ProbeInv, Judged, Probe!NxdomainIsSustained, Probe!HEALTH_TIMEOUT
  <1>3. elapsed < 16
    BY DEF ProbeInv, ProbeTypes, Timely
  <1>4. Probe!ProbeEndsInTime
    BY <1>3 DEF Probe!ProbeEndsInTime, Probe!HEALTH_TIMEOUT, Probe!DOH_TIMEOUT, Probe!PER_ATTEMPT_TIMEOUT, Probe!PROBE_INTERVAL
  <1> QED
    BY <1>1, <1>2, <1>4

-----------------------------------------------------------------------------
(* The notifier.  The one key it remembers was shown when it says; while it  *)
(* pushes, who has not been tried is still to be tried.                      *)
Toastable == Device \cup {"tunnel_down"}
Happening == Toastable \cup {"ended"}
Time == (-Window)..MaxTime
Task == [step : {"recv", "lookup", "push"}, left : SUBSET Sub, all : SUBSET Sub]
ToastTypes ==
  /\ waiting \in Seq(Happening) /\ Len(waiting) <= BusSize /\ lag \in BOOLEAN
  /\ sent \in 0..MaxEvent /\ clock \in 0..MaxTime
  /\ last \in [key : Toastable \cup {"none"}, at : Time]
  /\ subs \subseteq Sub /\ task \in Task /\ task.left \subseteq task.all
  /\ shownAt \in [Toastable -> Time] /\ hushed \subseteq Toastable /\ tried \subseteq Sub
Remembered == last.key \in Toastable => shownAt[last.key] = last.at
Rounds == IF task.step = "push" THEN task.all \subseteq tried \cup task.left ELSE task.all \subseteq tried
ToastInv == ToastTypes /\ Remembered /\ Rounds /\ Toasts!HushedWasShown

LEMMA ToastBounds == Window \in Nat \ {0} /\ BusSize \in Nat \ {0} /\ MaxTime \in Nat /\ MaxEvent \in Nat
  BY NotifierAssumption DEF Toasts!NotifierAssumption

LEMMA TimeHolds == -Window \in Time /\ (\A t \in 0..MaxTime : t \in Time) /\ \A t \in Time : t \in Int
  BY ToastBounds DEF Time

LEMMA ToastBegins == Toasts!Init => ToastInv
  <1> SUFFICES ASSUME Toasts!Init PROVE ToastInv
    OBVIOUS
  <1> USE DEF Toasts!Init, Toasts!Waiting, Toasts!Never, Toasts!Key
  <1>1. waiting \in Seq(Happening) /\ Len(waiting) <= BusSize /\ lag \in BOOLEAN
    <2>1. waiting = <<>> /\ lag = FALSE /\ 0 <= BusSize
      BY ToastBounds
    <2>2. <<>> \in Seq(Happening) /\ Len(<<>>) = 0
      OBVIOUS
    <2> QED
      BY <2>1, <2>2
  <1>2. sent \in 0..MaxEvent /\ clock \in 0..MaxTime
    BY ToastBounds
  <1>3. last \in [key : Toastable \cup {"none"}, at : Time]
    BY TimeHolds
  <1>4. subs \subseteq Sub /\ task \in Task /\ task.left \subseteq task.all /\ task.step = "recv" /\ task.all = {}
    BY DEF Task
  <1>5. shownAt \in [Toastable -> Time] /\ hushed = {} /\ tried = {}
    BY TimeHolds DEF Toastable
  <1>6. last.key \in Toastable => shownAt[last.key] = last.at
    BY DEF Toastable
  <1> QED
    BY <1>1, <1>2, <1>3, <1>4, <1>5, <1>6 DEF ToastInv, ToastTypes, Remembered, Rounds, Toasts!HushedWasShown

LEMMA ToastNext == ASSUME ToastInv, Toasts!Next PROVE ToastInv'
  <1>0. /\ waiting \in Seq(Happening) /\ Len(waiting) \in Nat /\ Len(waiting) <= BusSize /\ lag \in BOOLEAN
        /\ sent \in 0..MaxEvent /\ clock \in 0..MaxTime
        /\ last \in [key : Toastable \cup {"none"}, at : Time]
        /\ subs \subseteq Sub /\ task \in Task /\ task.left \subseteq task.all
        /\ shownAt \in [Toastable -> Time] /\ hushed \subseteq Toastable /\ tried \subseteq Sub
        /\ Remembered /\ Rounds /\ Toasts!HushedWasShown
    BY DEF ToastInv, ToastTypes
  <1>1. ASSUME NEW e \in Toasts!Event, Toasts!Emit(e) PROVE ToastInv'
    <2> DEFINE kept == IF Len(waiting) = BusSize THEN Tail(waiting) ELSE waiting
    <2>1. kept \in Seq(Happening) /\ Len(kept) \in Nat /\ Len(kept) + 1 <= BusSize
      <3>1. CASE Len(waiting) = BusSize
        <4>1. waiting # <<>>
          BY <1>0, <3>1, ToastBounds
        <4>2. Tail(waiting) \in Seq(Happening) /\ Len(Tail(waiting)) = Len(waiting) - 1
          BY <1>0, <4>1
        <4> QED
          BY <1>0, <3>1, <4>2, ToastBounds
      <3>2. CASE Len(waiting) # BusSize
        BY <1>0, <3>2, ToastBounds
      <3> QED
        BY <3>1, <3>2
    <2>2. e \in Happening
      BY DEF Toasts!Event, Toasts!Key, Happening, Toastable
    <2>3. waiting' = Append(kept, e) /\ lag' \in BOOLEAN /\ sent < MaxEvent /\ sent' = sent + 1
          /\ UNCHANGED <<clock, last, subs, task, shownAt, hushed, tried>>
      BY <1>0, <1>1 DEF Toasts!Emit
    <2> HIDE DEF kept
    <2>4. waiting' \in Seq(Happening) /\ Len(waiting') <= BusSize
      BY <2>1, <2>2, <2>3
    <2>5. sent' \in 0..MaxEvent
      BY <1>0, <2>3, ToastBounds
    <2> QED
      BY <1>0, <2>3, <2>4, <2>5 DEF ToastInv, ToastTypes, Remembered, Rounds, Toasts!HushedWasShown
  <1>2. CASE Toasts!Tick
    <2>1. clock' \in 0..MaxTime /\ hushed' = {} /\ UNCHANGED <<waiting, lag, sent, last, subs, task, shownAt, tried>>
      BY <1>0, <1>2, ToastBounds DEF Toasts!Tick
    <2> QED
      BY <1>0, <2>1 DEF ToastInv, ToastTypes, Remembered, Rounds, Toasts!HushedWasShown
  <1>3. CASE Toasts!Lagged \/ \E s \in Sub : Toasts!Subscribe(s)
    <2>1. lag' \in BOOLEAN /\ subs' \subseteq Sub /\ UNCHANGED <<waiting, sent, clock, last, task, shownAt, hushed, tried>>
      BY <1>0, <1>3 DEF Toasts!Lagged, Toasts!Subscribe
    <2> QED
      BY <1>0, <2>1 DEF ToastInv, ToastTypes, Remembered, Rounds, Toasts!HushedWasShown
  <1>4. ASSUME NEW e, Toasts!Taken(e) PROVE waiting' \in Seq(Happening) /\ Len(waiting') <= BusSize
    <2>1. waiting # <<>> /\ waiting' = Tail(waiting)
      BY <1>4 DEF Toasts!Taken
    <2>2. waiting' \in Seq(Happening) /\ Len(waiting') = Len(waiting) - 1
      BY <1>0, <2>1
    <2> QED
      BY <1>0, <2>2, ToastBounds
  <1>5. ASSUME NEW k \in Toasts!Key, Toasts!Toast(k) PROVE ToastInv'
    <2>1. /\ waiting' \in Seq(Happening) /\ Len(waiting') <= BusSize /\ k \in Toastable
          /\ UNCHANGED <<lag, sent, clock, subs, task, tried>>
      BY <1>4, <1>5 DEF Toasts!Toast, Toasts!Key, Toastable
    <2>2. CASE Toasts!Recent(k)
      <3>1. hushed' = hushed \cup {k} /\ UNCHANGED <<last, shownAt>>
        BY <1>5, <2>2 DEF Toasts!Toast
      <3>2. clock - shownAt[k] < Window
        BY <1>0, <2>1, <2>2 DEF Toasts!Recent, Remembered
      <3>3. Toasts!HushedWasShown'
        BY <1>0, <2>1, <3>1, <3>2 DEF Toasts!HushedWasShown
      <3> QED
        BY <1>0, <2>1, <3>1, <3>3 DEF ToastInv, ToastTypes, Remembered, Rounds
    <2>3. CASE ~Toasts!Recent(k)
      <3>1. last' = [key |-> k, at |-> clock] /\ shownAt' = [shownAt EXCEPT ![k] = clock] /\ UNCHANGED hushed
        BY <1>5, <2>3 DEF Toasts!Toast
      <3>2. clock \in Time
        BY <1>0, TimeHolds
      <3>3. shownAt' \in [Toastable -> Time] /\ last' \in [key : Toastable \cup {"none"}, at : Time]
            /\ shownAt'[k] = clock /\ \A j \in Toastable : j # k => shownAt'[j] = shownAt[j]
        BY <1>0, <2>1, <3>1, <3>2
      <3>4. Remembered'
        BY <3>1, <3>3 DEF Remembered
      <3>5. clock - clock < Window
        BY <1>0, ToastBounds
      <3>6. Toasts!HushedWasShown'
        BY <1>0, <2>1, <3>1, <3>3, <3>5 DEF Toasts!HushedWasShown
      <3> QED
        BY <1>0, <2>1, <3>1, <3>3, <3>4, <3>6 DEF ToastInv, ToastTypes, Rounds
    <2> QED
      BY <2>2, <2>3
  <1>6. ASSUME task' \in Task, task'.left \subseteq task'.all, Rounds', tried' \subseteq Sub,
               waiting' \in Seq(Happening) /\ Len(waiting') <= BusSize,
               UNCHANGED <<lag, sent, clock, last, subs, shownAt, hushed>>
        PROVE  ToastInv'
    BY <1>0, <1>6 DEF ToastInv, ToastTypes, Remembered, Toasts!HushedWasShown
  <1>7. CASE Toasts!Ended
    <2>1. task' = [step |-> "lookup", left |-> {}, all |-> {}] /\ tried' = {}
          /\ UNCHANGED <<lag, sent, clock, last, subs, shownAt, hushed>>
      BY <1>7 DEF Toasts!Ended, Toasts!Waiting
    <2>2. waiting' \in Seq(Happening) /\ Len(waiting') <= BusSize
      BY <1>4, <1>7 DEF Toasts!Ended
    <2> QED
      BY <1>6, <2>1, <2>2 DEF Task, Rounds
  <1>8. CASE Toasts!Lookup
    <2>1. \/ task' = [step |-> "push", left |-> subs, all |-> subs]
          \/ task' = [step |-> "recv", left |-> {}, all |-> {}]
      BY <1>8 DEF Toasts!Lookup, Toasts!Waiting
    <2>2. UNCHANGED <<waiting, lag, sent, clock, last, subs, shownAt, hushed, tried>>
      BY <1>8 DEF Toasts!Lookup
    <2> QED
      BY <1>0, <1>6, <2>1, <2>2 DEF Task, Rounds
  <1>9. ASSUME NEW s \in Sub, Toasts!Push(s) PROVE ToastInv'
    <2>1. /\ task.step = "push" /\ s \in task.left /\ tried' = tried \cup {s}
          /\ UNCHANGED <<waiting, lag, sent, clock, last, subs, shownAt, hushed>>
      BY <1>9 DEF Toasts!Push
    <2>2. task' = [task EXCEPT !.step = IF task.left = {s} THEN "recv" ELSE "push", !.left = task.left \ {s}]
      BY <1>9 DEF Toasts!Push
    <2>3. task'.step = (IF task.left = {s} THEN "recv" ELSE "push") /\ task'.left = task.left \ {s} /\ task'.all = task.all
          /\ task' \in Task
      BY <1>0, <2>2 DEF Task
    <2>4. task.all \subseteq tried \cup task.left
      BY <1>0, <2>1 DEF Rounds
    <2>5. Rounds'
      BY <2>1, <2>3, <2>4 DEF Rounds
    <2> QED
      BY <1>0, <1>6, <2>1, <2>3, <2>5
  <1> QED
    BY <1>1, <1>2, <1>3, <1>5, <1>7, <1>8, <1>9 DEF Toasts!Next, Toasts!Working

LEMMA ToastStutters == ASSUME ToastInv, UNCHANGED toastVars PROVE ToastInv'
  BY DEF toastVars, ToastInv, ToastTypes, Remembered, Rounds, Toasts!HushedWasShown

LEMMA ToastPromises == ToastInv => Toasts!TypeOK /\ Toasts!HushedWasShown /\ Toasts!EverySubTried
  <1> SUFFICES ASSUME ToastInv PROVE Toasts!TypeOK /\ Toasts!HushedWasShown /\ Toasts!EverySubTried
    OBVIOUS
  <1>1. Toasts!TypeOK
    BY DEF ToastInv, ToastTypes, Task, Time, Toastable, Happening, Toasts!TypeOK, Toasts!Event, Toasts!Key, Toasts!Never
  <1>2. Toasts!EverySubTried
    BY DEF ToastInv, Rounds, Toasts!EverySubTried
  <1> QED
    BY <1>1, <1>2 DEF ToastInv

-----------------------------------------------------------------------------
(* What watches the sessions.  Sessions that hold a descriptor hold one each *)
(* and nobody else's; a light that is on has its flag, or the frame that     *)
(* turns it off is about to go out.                                          *)
Session == [life : {"new", "open", "exited", "gone"}, fd : 0..Cardinality(Watched), agent : BOOLEAN]
Light == [flag : BOOLEAN, fresh : BOOLEAN, dog : {"sleep", "measure", "store", "send", "over"},
          reader : {"read", "flag"}, shown : {"idle", "active", "exited"}]
Detector == [at : {"wait", "write", "tell"}, prev : BOOLEAN, found : BOOLEAN]
SesTypes == ses \in [Watched -> Session]
LightTypes == light \in [Lit -> Light] /\ chunks \in [Lit -> 0..MaxOutput]
DetTypes == det \in [Watched -> Detector] /\ row \in [Watched -> BOOLEAN] /\ misses \in 0..MaxMiss
Holding(x) == x.life \in {"open", "exited"}
Living(x) == (x.agent => x.life = "open") /\ (x.life # "new" => x.fd # 0)
Lighted(x, l) ==
  /\ x.life = "new" => l.dog = "sleep" /\ l.shown = "idle" /\ l.reader = "read"
  /\ x.life = "open" => l.dog # "over" /\ (l.shown = "active" => l.flag \/ l.dog = "send")
Written(d, r) == (d.at = "wait" => r = d.prev) /\ (d.at = "tell" => r = d.found)
OwnFd == \A s, t \in Watched : Holding(ses[s]) /\ Holding(ses[t]) /\ ses[s].fd = ses[t].fd => s = t
SesInv == SesTypes /\ OwnFd /\ agents \in 0..MaxAgent /\ \A s \in Watched : Living(ses[s])
LightInv == LightTypes /\ \A s \in Lit : Lighted(ses[s], light[s])
DetInv == DetTypes /\ (misses = 0 => \A s \in Watched : Written(det[s], row[s]))
WatchInv == SesInv /\ LightInv /\ DetInv

LEMMA WatchBounds ==
    /\ Lit \subseteq Watched /\ MaxOutput \in Nat /\ MaxAgent \in Nat /\ MaxMiss \in Nat
    /\ IsFiniteSet(Watched) /\ Cardinality(Watched) \in Nat
    /\ \A S : Watch!Cardinality(S) = Cardinality(S)
  <1>1. \A S : Watch!Cardinality(S) = Cardinality(S)
    BY DEF Watch!Cardinality, Cardinality, Watch!IsFiniteSet, IsFiniteSet
  <1>2. IsFiniteSet(Watched)
    BY WatchAssumption DEF Watch!WatchAssumption, Watch!IsFiniteSet, IsFiniteSet
  <1> QED
    BY <1>1, <1>2, WatchAssumption, FS_CardinalityType DEF Watch!WatchAssumption

LEMMA WatchBegins == Watch!Init => WatchInv
  <1> SUFFICES ASSUME Watch!Init PROVE WatchInv
    OBVIOUS
  <1> USE DEF Watch!Init, Watch!NoFd
  <1>1. \A s \in Watched : ses[s] = [life |-> "new", fd |-> 0, agent |-> FALSE]
    OBVIOUS
  <1>2. \A s \in Lit : light[s] = [flag |-> FALSE, fresh |-> TRUE, dog |-> "sleep", reader |-> "read", shown |-> "idle"]
    OBVIOUS
  <1>3. \A s \in Watched : det[s] = [at |-> "wait", prev |-> FALSE, found |-> FALSE] /\ row[s] = FALSE
    OBVIOUS
  <1>4. 0 \in 0..Cardinality(Watched) /\ 0 \in 0..MaxOutput /\ 0 \in 0..MaxAgent /\ 0 \in 0..MaxMiss
    BY WatchBounds
  <1>5. SesTypes
    BY <1>4 DEF SesTypes, Session
  <1>6. LightTypes
    BY <1>4 DEF LightTypes, Light
  <1>7. DetTypes
    BY <1>4 DEF DetTypes, Detector
  <1>8. OwnFd /\ \A s \in Watched : Living(ses[s])
    BY <1>1 DEF OwnFd, Holding, Living
  <1>9. \A s \in Lit : Lighted(ses[s], light[s])
    BY <1>1, <1>2, WatchBounds DEF Lighted
  <1>10. \A s \in Watched : Written(det[s], row[s])
    BY <1>3 DEF Written
  <1> QED
    BY <1>4, <1>5, <1>6, <1>7, <1>8, <1>9, <1>10 DEF WatchInv, SesInv, LightInv, DetInv

\* A free number there is, and there is a lowest.
LEMMA LowestIsFree ==
    ASSUME SesInv, NEW s \in Watched, ses[s].life = "new"
    PROVE  LET f == Watch!Min({n \in Watch!Fds : Watch!Unused(n)})
           IN f \in 1..Cardinality(Watched) /\ Watch!Unused(f)
  <1> DEFINE N == Cardinality(Watched)
             Free0 == {n \in Watch!Fds : Watch!Unused(n)}
             Rest == Watched \ {s}
             g == [t \in Rest |-> ses[t].fd]
             T == {g[t] : t \in Rest}
  <1>1. N \in Nat /\ Watch!Fds = 1..N /\ IsFiniteSet(Rest) /\ Cardinality(Rest) = N - 1
    BY WatchBounds, FS_RemoveElement DEF Watch!Fds
  <1>2. IsFiniteSet(T) /\ Cardinality(T) <= N - 1 /\ Cardinality(T) \in Nat
    <2>1. g \in Surjection(Rest, T)
      BY DEF Surjection
    <2> HIDE DEF g, T, Rest, N
    <2> QED
      BY <1>1, <2>1, FS_Surjection, FS_CardinalityType
  <1>3. Free0 # {}
    <2> SUFFICES ASSUME Free0 = {} PROVE FALSE
      OBVIOUS
    <2>1. ASSUME NEW n \in 1..N PROVE n \in T
      <3>1. PICK t \in Watched : Watch!Holds(t) /\ ses[t].fd = n
        BY <1>1 DEF Watch!Unused
      <3>2. t # s
        BY <3>1 DEF Watch!Holds
      <3> QED
        BY <3>1, <3>2
    <2> HIDE DEF T, Free0
    <2>2. 1..N \subseteq T
      BY <2>1
    <2>3. Cardinality(1..N) = N
      BY <1>1, FS_Interval
    <2>4. Cardinality(1..N) <= Cardinality(T)
      <3> DEFINE S == 1..N
      <3> HIDE DEF S, N
      <3>1. S \subseteq T
        BY <2>2 DEF S
      <3>2. Cardinality(S) <= Cardinality(T)
        BY <1>2, <3>1, FS_Subset
      <3> QED
        BY <3>2 DEF S
    <2> HIDE DEF N
    <2> QED
      BY <1>1, <1>2, <2>3, <2>4
  <1>4. Free0 \subseteq 1..N /\ Free0 \subseteq Nat
    BY <1>1
  <1>5. \E x \in Free0 : \A y \in Free0 : x <= y
    <2> DEFINE R == {ss \in Nat \X Nat : ss[1] < ss[2]}
    <2>1. IsWellFoundedOn(R, Nat)
      BY NatLessThanWellFounded DEF OpToRel
    <2>2. \A x, y \in Nat : x < y => <<x, y>> \in R
      OBVIOUS
    <2> HIDE DEF R, Free0
    <2>3. PICK x \in Free0 : \A y \in Free0 : <<y, x>> \notin R
      BY <1>3, <1>4, <2>1, WFMin
    <2>4. ASSUME NEW y \in Free0 PROVE x <= y
      <3>1. x \in Nat /\ y \in Nat /\ <<y, x>> \notin R
        BY <1>4, <2>3
      <3>2. ~(y < x)
        BY <2>2, <3>1
      <3> QED
        BY <3>1, <3>2
    <2> QED
      BY <2>4
  <1>6. Watch!Min(Free0) \in Free0
    <2> HIDE DEF Free0
    <2> QED
      BY <1>5 DEF Watch!Min
  <1> QED
    BY <1>1, <1>6

\* What happens to a session and its light, the detectors aside.
LEMMA SessionStep ==
    ASSUME WatchInv, NEW s \in Watched, UNCHANGED <<det, row, misses>>, agents' \in 0..MaxAgent,
           chunks' \in [Lit -> 0..MaxOutput],
           ses' \in [Watched -> Session], light' \in [Lit -> Light],
           \A t \in Watched : t # s => ses'[t] = ses[t],
           \A t \in Lit : t # s => light'[t] = light[t],
           Living(ses[s])', Holding(ses[s])' => (Holding(ses[s]) /\ ses'[s].fd = ses[s].fd) \/ Watch!Unused(ses'[s].fd),
           s \in Lit => Lighted(ses[s], light[s])'
    PROVE  WatchInv'
  <1>1. SesTypes' /\ LightTypes'
    BY DEF SesTypes, LightTypes
  <1>2. OwnFd'
    <2> SUFFICES ASSUME NEW a \in Watched, NEW b \in Watched, Holding(ses[a])', Holding(ses[b])', ses'[a].fd = ses'[b].fd, a # b
                 PROVE  FALSE
      BY DEF OwnFd
    <2>1. ASSUME NEW t \in Watched, t # s, Holding(ses[t])', Holding(ses[s])', ses'[t].fd = ses'[s].fd PROVE FALSE
      <3>1. Holding(ses[t]) /\ ses[t].fd = ses'[s].fd
        BY <2>1 DEF Holding
      <3>2. ~Watch!Unused(ses'[s].fd)
        BY <3>1 DEF Watch!Unused, Watch!Holds, Holding
      <3>3. Holding(ses[s]) /\ ses'[s].fd = ses[s].fd
        BY <2>1, <3>2
      <3> QED
        BY <2>1, <3>1, <3>3 DEF WatchInv, SesInv, OwnFd
    <2>2. CASE a # s /\ b # s
      BY <2>2 DEF WatchInv, SesInv, OwnFd, Holding
    <2> QED
      BY <2>1, <2>2
  <1>3. \A t \in Watched : Living(ses[t])'
    BY DEF WatchInv, SesInv, Living
  <1>4. \A t \in Lit : Lighted(ses[t], light[t])'
    BY WatchBounds DEF WatchInv, LightInv, Lighted
  <1>5. DetInv'
    BY DEF WatchInv, DetInv, DetTypes, Written
  <1> QED
    BY <1>1, <1>2, <1>3, <1>4, <1>5 DEF WatchInv, SesInv, LightInv

LEMMA WatchFields ==
    ASSUME WatchInv
    PROVE  /\ ses \in [Watched -> Session] /\ light \in [Lit -> Light] /\ det \in [Watched -> Detector]
           /\ chunks \in [Lit -> 0..MaxOutput] /\ row \in [Watched -> BOOLEAN] /\ misses \in 0..MaxMiss /\ agents \in 0..MaxAgent
           /\ \A s \in Watched : ses[s] \in Session /\ Living(ses[s]) /\ det[s] \in Detector
           /\ \A s \in Lit : s \in Watched /\ light[s] \in Light /\ Lighted(ses[s], light[s])
  BY WatchBounds DEF WatchInv, SesInv, LightInv, DetInv, SesTypes, LightTypes, DetTypes

\* A session's record is replaced.
LEMMA SesChanges ==
    ASSUME WatchInv, NEW s \in Watched, NEW x \in Session, ses' = [ses EXCEPT ![s] = x],
           UNCHANGED <<det, row, misses, chunks>>, agents' \in 0..MaxAgent,
           light' \in [Lit -> Light], \A t \in Lit : t # s => light'[t] = light[t],
           Living(x), Holding(x) => (Holding(ses[s]) /\ x.fd = ses[s].fd) \/ Watch!Unused(x.fd),
           s \in Lit => \A l : l = light'[s] => Lighted(x, l)
    PROVE  WatchInv'
  <1>1. ses' \in [Watched -> Session] /\ ses'[s] = x /\ \A t \in Watched : t # s => ses'[t] = ses[t]
    BY WatchFields
  <1>2. Living(ses[s])'
    BY <1>1 DEF Living
  <1>3. Holding(ses[s])' => (Holding(ses[s]) /\ ses'[s].fd = ses[s].fd) \/ Watch!Unused(ses'[s].fd)
    BY <1>1 DEF Holding
  <1>4. s \in Lit => Lighted(ses[s], light[s])'
    BY <1>1 DEF Lighted
  <1>5. chunks' \in [Lit -> 0..MaxOutput]
    BY WatchFields
  <1> QED
    BY <1>1, <1>2, <1>3, <1>4, <1>5, SessionStep

\* A light's record is.
LEMMA LightChanges ==
    ASSUME WatchInv, NEW s \in Lit, NEW l \in Light, light' = [light EXCEPT ![s] = l],
           UNCHANGED <<ses, det, row, misses, agents>>, chunks' \in [Lit -> 0..MaxOutput], Lighted(ses[s], l)
    PROVE  WatchInv'
  <1>1. light' \in [Lit -> Light] /\ light'[s] = l /\ \A t \in Lit : t # s => light'[t] = light[t]
    BY WatchFields
  <1>2. s \in Watched /\ ses' \in [Watched -> Session] /\ \A t \in Watched : ses'[t] = ses[t]
    BY WatchFields
  <1>3. Living(ses[s])'
    BY <1>2, WatchFields DEF Living
  <1>4. Holding(ses[s])' => (Holding(ses[s]) /\ ses'[s].fd = ses[s].fd) \/ Watch!Unused(ses'[s].fd)
    BY <1>2 DEF Holding
  <1>5. Lighted(ses[s], light[s])'
    BY <1>1, <1>2 DEF Lighted
  <1>6. agents' \in 0..MaxAgent /\ UNCHANGED <<det, row, misses>>
    BY WatchFields
  <1> QED
    BY <1>1, <1>2, <1>3, <1>4, <1>5, <1>6, SessionStep

LEMMA LivesKeep ==
    ASSUME WatchInv, NEW s \in Watched,
           Watch!Spawn(s) \/ Watch!Launch(s) \/ Watch!Quit(s) \/ Watch!Exit(s) \/ Watch!Drop(s)
    PROVE  WatchInv'
  <1>0. ses \in [Watched -> Session] /\ ses[s] \in Session /\ Living(ses[s]) /\ (s \in Lit => Lighted(ses[s], light[s]))
        /\ light \in [Lit -> Light] /\ agents \in 0..MaxAgent
    BY WatchFields
  <1>1. CASE Watch!Spawn(s)
    <2> DEFINE f == Watch!Min({n \in Watch!Fds : Watch!Unused(n)})
    <2>1. /\ ses[s].life = "new" /\ ses' = [ses EXCEPT ![s] = [life |-> "open", fd |-> f, agent |-> FALSE]]
          /\ UNCHANGED <<light, det, row, chunks, agents, misses>>
      BY <1>1 DEF Watch!Spawn
    <2>2. f \in 1..Cardinality(Watched) /\ Watch!Unused(f)
      BY <2>1, LowestIsFree DEF WatchInv
    <2> HIDE DEF f
    <2> DEFINE x == [life |-> "open", fd |-> f, agent |-> FALSE]
    <2>3. f \in 0..Cardinality(Watched) /\ f # 0
      BY <2>2, WatchBounds
    <2>4. x \in Session /\ x.life = "open" /\ x.fd = f /\ x.agent = FALSE
      BY <2>3 DEF Session
    <2>5. ses' = [ses EXCEPT ![s] = x]
      BY <2>1
    <2> HIDE DEF x
    <2>6. Living(x) /\ (Holding(x) => (Holding(ses[s]) /\ x.fd = ses[s].fd) \/ Watch!Unused(x.fd))
      BY <2>2, <2>3, <2>4 DEF Living
    <2>7. s \in Lit => \A l : l = light'[s] => Lighted(x, l)
      BY <1>0, <2>1, <2>4 DEF Lighted
    <2>8. light' \in [Lit -> Light] /\ agents' \in 0..MaxAgent /\ \A t \in Lit : t # s => light'[t] = light[t]
      BY <1>0, <2>1
    <2> QED
      BY <2>1, <2>4, <2>5, <2>6, <2>7, <2>8, SesChanges
  <1>2. ASSUME NEW b \in BOOLEAN, ses' = [ses EXCEPT ![s].agent = b], b => ses[s].life = "open",
               UNCHANGED <<light, det, row, chunks, misses>>, agents' \in 0..MaxAgent
        PROVE  WatchInv'
    <2> DEFINE x == [ses[s] EXCEPT !.agent = b]
    <2>1. ses' = [ses EXCEPT ![s] = x]
      BY <1>0, <1>2
    <2>2. x \in Session /\ x.life = ses[s].life /\ x.fd = ses[s].fd /\ x.agent = b
      BY <1>0 DEF Session
    <2> HIDE DEF x
    <2>3. Living(x) /\ (Holding(x) => Holding(ses[s]) /\ x.fd = ses[s].fd)
      BY <1>0, <1>2, <2>2 DEF Living, Holding
    <2>4. s \in Lit => \A l : l = light'[s] => Lighted(x, l)
      BY <1>0, <1>2, <2>2 DEF Lighted
    <2>5. light' \in [Lit -> Light] /\ \A t \in Lit : t # s => light'[t] = light[t]
      BY <1>0, <1>2
    <2> QED
      BY <1>2, <2>1, <2>2, <2>3, <2>4, <2>5, SesChanges
  <1>3. CASE Watch!Launch(s)
    <2>1. agents' \in 0..MaxAgent
      BY <1>0, <1>3, WatchBounds DEF Watch!Launch
    <2>2. ses' = [ses EXCEPT ![s].agent = TRUE] /\ ses[s].life = "open" /\ UNCHANGED <<light, det, row, chunks, misses>>
      BY <1>3 DEF Watch!Launch
    <2> QED
      BY <1>2, <2>1, <2>2
  <1>4. CASE Watch!Quit(s)
    <2>1. ses' = [ses EXCEPT ![s].agent = FALSE] /\ UNCHANGED <<light, det, row, chunks, agents, misses>>
      BY <1>4 DEF Watch!Quit
    <2>2. agents' \in 0..MaxAgent
      BY <1>0, <2>1
    <2> QED
      BY <1>2, <2>1, <2>2
  <1>5. CASE Watch!Exit(s)
    <2>1. /\ ses[s].life = "open" /\ ses' = [ses EXCEPT ![s].life = "exited", ![s].agent = FALSE]
          /\ light' = [t \in Lit |-> IF t = s THEN [light[t] EXCEPT !.shown = "exited"] ELSE light[t]]
          /\ UNCHANGED <<det, row, chunks, agents, misses>>
      BY <1>5 DEF Watch!Exit
    <2> DEFINE x == [ses[s] EXCEPT !.life = "exited", !.agent = FALSE]
    <2>2. ses' = [ses EXCEPT ![s] = x]
      BY <1>0, <2>1
    <2>3. x \in Session /\ x.life = "exited" /\ x.fd = ses[s].fd /\ x.agent = FALSE
      BY <1>0 DEF Session
    <2> HIDE DEF x
    <2>4. Living(x) /\ (Holding(x) => Holding(ses[s]) /\ x.fd = ses[s].fd)
      BY <1>0, <2>1, <2>3 DEF Living, Holding
    <2>5. s \in Lit => \A l : l = light'[s] => Lighted(x, l)
      BY <2>3 DEF Lighted
    <2>6. light' \in [Lit -> Light] /\ \A t \in Lit : t # s => light'[t] = light[t]
      <3>1. \A t \in Lit : [light[t] EXCEPT !.shown = "exited"] \in Light /\ light[t] \in Light
        BY <1>0 DEF Light
      <3> QED
        BY <2>1, <3>1
    <2>7. agents' \in 0..MaxAgent
      BY <1>0, <2>1
    <2> QED
      BY <2>1, <2>2, <2>3, <2>4, <2>5, <2>6, <2>7, SesChanges
  <1>6. CASE Watch!Drop(s)
    <2>1. /\ ses[s].life = "exited" /\ ses' = [ses EXCEPT ![s].life = "gone"]
          /\ UNCHANGED <<light, det, row, chunks, agents, misses>>
      BY <1>6 DEF Watch!Drop
    <2> DEFINE x == [ses[s] EXCEPT !.life = "gone"]
    <2>2. ses' = [ses EXCEPT ![s] = x]
      BY <1>0, <2>1
    <2>3. x \in Session /\ x.life = "gone" /\ x.fd = ses[s].fd /\ x.agent = ses[s].agent
      BY <1>0 DEF Session
    <2> HIDE DEF x
    <2>4. Living(x) /\ ~Holding(x)
      BY <1>0, <2>1, <2>3 DEF Living, Holding
    <2>5. s \in Lit => \A l : l = light'[s] => Lighted(x, l)
      BY <2>3 DEF Lighted
    <2>6. light' \in [Lit -> Light] /\ (\A t \in Lit : t # s => light'[t] = light[t]) /\ agents' \in 0..MaxAgent
      BY <1>0, <2>1
    <2> QED
      BY <2>1, <2>2, <2>3, <2>4, <2>5, <2>6, SesChanges
  <1> QED
    BY <1>1, <1>3, <1>4, <1>5, <1>6

LEMMA LightsKeep ==
    ASSUME WatchInv, NEW s \in Lit, Watch!Output(s) \/ Watch!SwapFlag(s) \/ Watch!Quiet(s) \/ Watch!Dog(s)
    PROVE  WatchInv'
  <1>0. /\ light \in [Lit -> Light] /\ light[s] \in Light /\ chunks \in [Lit -> 0..MaxOutput]
        /\ ses[s].life = "new" => light[s].dog = "sleep" /\ light[s].shown = "idle" /\ light[s].reader = "read"
        /\ ses[s].life = "open" => light[s].dog # "over"
        /\ ses[s].life = "open" /\ light[s].shown = "active" => light[s].flag \/ light[s].dog = "send"
    BY WatchFields DEF Lighted
  <1>1. ASSUME NEW l \in Light, light' = [light EXCEPT ![s] = l], UNCHANGED <<ses, det, row, misses, agents>>,
               chunks' = chunks, ses[s].life # "new",
               ses[s].life = "open" => l.dog # "over",
               ses[s].life = "open" /\ l.shown = "active" => l.flag \/ l.dog = "send"
        PROVE  WatchInv'
    <2>1. Lighted(ses[s], l) /\ chunks' \in [Lit -> 0..MaxOutput]
      BY <1>0, <1>1 DEF Lighted
    <2> QED
      BY <1>1, <2>1, LightChanges
  <1>2. CASE Watch!Output(s)
    <2> DEFINE l == [light[s] EXCEPT !.fresh = TRUE, !.reader = "flag"]
    <2>1. ses[s].life = "open" /\ light' = [light EXCEPT ![s].fresh = TRUE, ![s].reader = "flag"]
          /\ UNCHANGED <<ses, det, row, agents, misses>>
      BY <1>2 DEF Watch!Output
    <2>2. l \in Light /\ l.fresh = TRUE /\ l.reader = "flag" /\ l.flag = light[s].flag /\ l.dog = light[s].dog /\ l.shown = light[s].shown
      BY <1>0 DEF Light
    <2>3. light' = [light EXCEPT ![s] = l]
      BY <1>0, <2>1
    <2> HIDE DEF l
    <2>4. chunks' \in [Lit -> 0..MaxOutput]
      BY <1>0, <1>2, WatchBounds DEF Watch!Output
    <2>5. Lighted(ses[s], l)
      BY <1>0, <2>1, <2>2 DEF Lighted
    <2> QED
      BY <2>1, <2>2, <2>3, <2>4, <2>5, LightChanges
  <1>3. CASE Watch!SwapFlag(s)
    <2> DEFINE l == [light[s] EXCEPT !.reader = "read", !.flag = TRUE, !.shown = (IF light[s].flag THEN light[s].shown ELSE "active")]
    <2>1. light[s].reader = "flag" /\ light' = [light EXCEPT ![s].reader = "read", ![s].flag = TRUE, ![s].shown = (IF light[s].flag THEN light[s].shown ELSE "active")]
          /\ UNCHANGED <<ses, det, row, chunks, agents, misses>>
      BY <1>3 DEF Watch!SwapFlag
    <2>2. l \in Light /\ l.reader = "read" /\ l.flag = TRUE /\ l.shown = (IF light[s].flag THEN light[s].shown ELSE "active") /\ l.fresh = light[s].fresh /\ l.dog = light[s].dog
      BY <1>0 DEF Light
    <2>3. light' = [light EXCEPT ![s] = l]
      BY <1>0, <2>1
    <2> HIDE DEF l
    <2> QED
      BY <1>0, <1>1, <2>1, <2>2, <2>3
  <1>4. CASE Watch!Quiet(s)
    <2> DEFINE l == [light[s] EXCEPT !.fresh = FALSE]
    <2>1. ses[s].life # "new" /\ light' = [light EXCEPT ![s].fresh = FALSE]
          /\ UNCHANGED <<ses, det, row, chunks, agents, misses>>
      BY <1>4 DEF Watch!Quiet, Watch!Holds
    <2>2. l \in Light /\ l.fresh = FALSE /\ l.flag = light[s].flag /\ l.dog = light[s].dog /\ l.reader = light[s].reader /\ l.shown = light[s].shown
      BY <1>0 DEF Light
    <2>3. light' = [light EXCEPT ![s] = l]
      BY <1>0, <2>1
    <2> HIDE DEF l
    <2> QED
      BY <1>0, <1>1, <2>1, <2>2, <2>3
  <1>5. ASSUME NEW d \in {"sleep", "measure", "store", "over"}, light' = [light EXCEPT ![s].dog = d],
               UNCHANGED <<ses, det, row, chunks, agents, misses>>, ses[s].life # "new",
               ses[s].life = "open" => d # "over" /\ light[s].dog # "send"
        PROVE  WatchInv'
    <2> DEFINE l == [light[s] EXCEPT !.dog = d]
    <2>1. l \in Light /\ l.dog = d /\ l.flag = light[s].flag /\ l.shown = light[s].shown
      BY <1>0 DEF Light
    <2>2. light' = [light EXCEPT ![s] = l]
      BY <1>0, <1>5
    <2> HIDE DEF l
    <2> QED
      BY <1>0, <1>1, <1>5, <2>1, <2>2
  <1>6. CASE Watch!DogLooks(s)
    BY <1>5, <1>6 DEF Watch!DogLooks, Watch!Spawned, Watch!Holds
  <1>7. CASE Watch!DogMeasures(s)
    BY <1>0, <1>5, <1>7 DEF Watch!DogMeasures
  <1>8. CASE Watch!DogStores(s)
    <2> DEFINE l == [light[s] EXCEPT !.dog = "send", !.flag = FALSE]
    <2>1. light[s].dog = "store" /\ light' = [light EXCEPT ![s].dog = "send", ![s].flag = FALSE]
          /\ UNCHANGED <<ses, det, row, chunks, agents, misses>>
      BY <1>8 DEF Watch!DogStores
    <2>2. l \in Light /\ l.dog = "send" /\ l.flag = FALSE /\ l.fresh = light[s].fresh /\ l.reader = light[s].reader /\ l.shown = light[s].shown
      BY <1>0 DEF Light
    <2>3. light' = [light EXCEPT ![s] = l]
      BY <1>0, <2>1
    <2> HIDE DEF l
    <2> QED
      BY <1>0, <1>1, <2>1, <2>2, <2>3
  <1>9. CASE Watch!DogSends(s)
    <2> DEFINE l == [light[s] EXCEPT !.dog = "sleep", !.shown = (IF ses[s].life = "open" THEN "idle" ELSE light[s].shown)]
    <2>1. light[s].dog = "send" /\ light' = [light EXCEPT ![s].dog = "sleep", ![s].shown = (IF ses[s].life = "open" THEN "idle" ELSE light[s].shown)]
          /\ UNCHANGED <<ses, det, row, chunks, agents, misses>>
      BY <1>9 DEF Watch!DogSends
    <2>2. l \in Light /\ l.dog = "sleep" /\ l.shown = (IF ses[s].life = "open" THEN "idle" ELSE light[s].shown) /\ l.flag = light[s].flag /\ l.fresh = light[s].fresh /\ l.reader = light[s].reader
      BY <1>0 DEF Light
    <2>3. light' = [light EXCEPT ![s] = l]
      BY <1>0, <2>1
    <2> HIDE DEF l
    <2> QED
      BY <1>0, <1>1, <2>1, <2>2, <2>3
  <1> QED
    BY <1>2, <1>3, <1>4, <1>6, <1>7, <1>8, <1>9 DEF Watch!Dog

LEMMA DetectKeeps == ASSUME WatchInv, NEW s \in Watched, Watch!Detect(s) PROVE WatchInv'
  <1>0. det \in [Watched -> Detector] /\ det[s] \in Detector /\ row \in [Watched -> BOOLEAN] /\ misses \in 0..MaxMiss
        /\ (misses = 0 => \A t \in Watched : Written(det[t], row[t]))
    BY WatchFields DEF WatchInv, DetInv
  <1>1. ASSUME det' \in [Watched -> Detector], \A t \in Watched : t # s => det'[t] = det[t] /\ row'[t] = row[t],
               row' \in [Watched -> BOOLEAN], misses' \in 0..MaxMiss, misses' = misses \/ misses' = misses + 1,
               misses' = 0 => Written(det[s], row[s])', UNCHANGED <<ses, light, chunks, agents>>
        PROVE  WatchInv'
    <2>1. misses' = 0 => misses = 0
      BY <1>0, <1>1, WatchBounds
    <2>2. DetInv'
      BY <1>0, <1>1, <2>1 DEF DetInv, DetTypes, Written
    <2>3. SesInv' /\ LightInv'
      BY <1>1 DEF WatchInv, SesInv, LightInv, SesTypes, LightTypes, OwnFd, Holding, Living, Lighted
    <2> QED
      BY <2>2, <2>3 DEF WatchInv
  <1>2. ASSUME Watch!Miss PROVE misses' \in 0..MaxMiss /\ misses' = misses + 1 /\ misses' # 0
    BY <1>0, <1>2, WatchBounds DEF Watch!Miss
  <1>3. CASE Watch!Poll(s)
    <2>1. PICK found \in BOOLEAN : /\ misses' = misses \/ Watch!Miss
                                   /\ det' = [det EXCEPT ![s].at = "write", ![s].found = found]
      BY <1>3 DEF Watch!Poll
    <2>2. UNCHANGED <<ses, light, row, chunks, agents>>
      BY <1>3 DEF Watch!Poll
    <2>3. det'[s].at = "write" /\ det' \in [Watched -> Detector] /\ \A t \in Watched : t # s => det'[t] = det[t]
      BY <1>0, <2>1 DEF Detector
    <2>4. misses' \in 0..MaxMiss /\ (misses' = misses \/ misses' = misses + 1)
      BY <1>0, <1>2, <2>1
    <2>5. Written(det[s], row[s])'
      BY <2>3 DEF Written
    <2> QED
      BY <1>0, <1>1, <2>2, <2>3, <2>4, <2>5
  <1>4. CASE Watch!WriteRow(s)
    <2>1. /\ det' = [det EXCEPT ![s].at = "tell"] /\ UNCHANGED <<ses, light, chunks, agents>>
          /\ \/ row' = [row EXCEPT ![s] = det[s].found] /\ UNCHANGED misses
             \/ Watch!Miss /\ UNCHANGED row
      BY <1>4 DEF Watch!WriteRow
    <2>3. det'[s].at = "tell" /\ det'[s].found = det[s].found /\ det' \in [Watched -> Detector]
          /\ \A t \in Watched : t # s => det'[t] = det[t]
      BY <1>0, <2>1 DEF Detector
    <2>4. misses' \in 0..MaxMiss /\ (misses' = misses \/ misses' = misses + 1)
      BY <1>0, <1>2, <2>1
    <2>5. det[s].found \in BOOLEAN
      BY <1>0 DEF Detector
    <2>6. row' \in [Watched -> BOOLEAN] /\ \A t \in Watched : t # s => row'[t] = row[t]
      BY <1>0, <2>1, <2>5
    <2>7. misses' = 0 => row'[s] = det[s].found
      BY <1>0, <1>2, <2>1
    <2>8. misses' = 0 => Written(det[s], row[s])'
      BY <2>3, <2>7 DEF Written
    <2> QED
      BY <1>1, <2>1, <2>3, <2>4, <2>6, <2>8
  <1>5. CASE Watch!Tell(s)
    <2>1. /\ det[s].at = "tell" /\ det' = [det EXCEPT ![s].at = "wait", ![s].prev = det[s].found]
          /\ UNCHANGED <<ses, light, row, chunks, agents, misses>>
      BY <1>5 DEF Watch!Tell
    <2>3. det'[s].at = "wait" /\ det'[s].prev = det[s].found /\ det' \in [Watched -> Detector]
          /\ \A t \in Watched : t # s => det'[t] = det[t]
      BY <1>0, <2>1 DEF Detector
    <2>8. misses' = 0 => Written(det[s], row[s])'
      BY <1>0, <2>1, <2>3 DEF Written
    <2> QED
      BY <1>0, <1>1, <2>1, <2>3, <2>8
  <1> QED
    BY <1>3, <1>4, <1>5 DEF Watch!Detect

LEMMA WatchNext == ASSUME WatchInv, Watch!Next PROVE WatchInv'
  BY LivesKeep, LightsKeep, DetectKeeps DEF Watch!Next

LEMMA WatchStutters == ASSUME WatchInv, UNCHANGED watchVars PROVE WatchInv'
  BY DEF watchVars, WatchInv, SesInv, LightInv, DetInv, SesTypes, LightTypes, DetTypes, OwnFd, Holding, Living, Lighted, Written

LEMMA WatchPromises == WatchInv => Watch!TypeOK /\ Watch!LightCanGoOff /\ Watch!FoundIsOwn /\ Watch!RowIsAnnounced
  <1> SUFFICES ASSUME WatchInv PROVE Watch!TypeOK /\ Watch!LightCanGoOff /\ Watch!FoundIsOwn /\ Watch!RowIsAnnounced
    OBVIOUS
  <1>1. Watch!TypeOK
    <2>1. Watch!Fds \cup {Watch!NoFd} = 0..Cardinality(Watched)
      BY WatchBounds DEF Watch!Fds, Watch!NoFd
    <2> QED
      BY <2>1, WatchFields DEF Watch!TypeOK, Watch!Life, Session, Light, Detector
  <1>2. Watch!LightCanGoOff
    BY WatchFields DEF Watch!LightCanGoOff, Lighted
  <1>3. Watch!FoundIsOwn
    <2> SUFFICES ASSUME NEW s \in Watched, Watch!Spawned(s), ~Watch!Reused(s)
                 PROVE  Watch!InForeground(ses[s].fd) <=> ses[s].agent
      BY DEF Watch!FoundIsOwn
    <2>1. ses[s].agent => Watch!InForeground(ses[s].fd)
      BY WatchFields DEF Living, Watch!InForeground, Watch!Holds
    <2>2. ASSUME NEW t \in Watched, Watch!Holds(t), ses[t].fd = ses[s].fd, ses[t].agent PROVE ses[s].agent
      <3>1. CASE Watch!Holds(s)
        BY <2>2, <3>1 DEF WatchInv, SesInv, OwnFd, Holding, Watch!Holds
      <3>2. CASE ~Watch!Holds(s)
        <4>1. ses[s].life = "gone"
          BY <3>2, WatchFields DEF Watch!Holds, Watch!Spawned, Session
        <4>2. t # s /\ Watch!Spawned(t)
          BY <2>2, <4>1 DEF Watch!Holds, Watch!Spawned
        <4> QED
          BY <2>2, <4>1, <4>2 DEF Watch!Reused
      <3> QED
        BY <3>1, <3>2
    <2> QED
      BY <2>1, <2>2 DEF Watch!InForeground
  <1>4. Watch!RowIsAnnounced
    BY DEF WatchInv, DetInv, Written, Watch!RowIsAnnounced
  <1> QED
    BY <1>1, <1>2, <1>3, <1>4

-----------------------------------------------------------------------------
(* The parts together.  A step is one part's, and leaves the others alone.   *)
LEMMA PartsApart ==
    ASSUME [HostNext]_all
    PROVE  /\ Next \/ UNCHANGED vars
           /\ Bus!Next \/ UNCHANGED busVars
           /\ Proc!Next \/ UNCHANGED procVars
           /\ Keys!Next \/ UNCHANGED keysVars
           /\ Probe!Next \/ UNCHANGED probeVars
           /\ Toasts!Next \/ UNCHANGED toastVars
           /\ Watch!Next \/ UNCHANGED watchVars
  BY DEF HostNext, all, InEdge, InBus, InProc, InKeys, InProbe, InToasts, InWatch

ServicesInv ==
  CountInv /\ Bus!TypeOK /\ ProcInv /\ KeysInv /\ ProbeInv /\ ToastInv /\ WatchInv

LEMMA ServicesBegin == HostInit => ServicesInv /\ BusInv
  BY CountInit, BusBegins, ProcBegins, KeysBegin, ProbeBegins, ToastBegins, WatchBegins DEF HostInit, ServicesInv, BusInv

LEMMA ServicesStep == ServicesInv /\ [HostNext]_all => ServicesInv'
  <1> SUFFICES ASSUME ServicesInv, [HostNext]_all PROVE ServicesInv'
    OBVIOUS
  <1>1. CountInv'
    BY PartsApart, CountNext DEF ServicesInv
  <1>2. Bus!TypeOK'
    <2>1. CASE UNCHANGED busVars
      BY <2>1 DEF ServicesInv, busVars, Bus!TypeOK
    <2> QED
      BY <2>1, PartsApart, BusTypesNext DEF ServicesInv
  <1>3. ProcInv'
    BY PartsApart, ProcNext, ProcStutters DEF ServicesInv
  <1>4. KeysInv'
    BY PartsApart, KeysNext, KeysStutter DEF ServicesInv
  <1>5. ProbeInv'
    BY PartsApart, ProbeNext, ProbeStutters DEF ServicesInv
  <1>6. ToastInv'
    BY PartsApart, ToastNext, ToastStutters DEF ServicesInv
  <1>7. WatchInv'
    BY PartsApart, WatchNext, WatchStutters DEF ServicesInv
  <1> QED
    BY <1>1, <1>2, <1>3, <1>4, <1>5, <1>6, <1>7 DEF ServicesInv

(* The services keep what they promise: types; one holder of the instance    *)
(* lock; failures counted for one URL; a sustained and timely verdict of the *)
(* probe; no toast swallowed and every subscription tried; a light that can  *)
(* go off, an agent found in its own session only, and told as written.      *)
THEOREM ServicesKeepTheirPromises == HostSpec => []ServicesKeepPromises
  <1>1. ServicesInv => ServicesKeepPromises
    BY KeysPromise, ProcPromises, ProbePromises, ToastPromises, WatchPromises
    DEF ServicesInv, ServicesKeepPromises, PartTypes, CountInv
  <1> QED
    BY <1>1, ServicesBegin, ServicesStep, PTL DEF HostSpec

(* While no two senders of tunnel URLs are between the snapshot and the      *)
(* channel at once, a drained subscriber believes in the snapshot, however   *)
(* late it came and wherever it lagged; and the dashboard shows a key that   *)
(* works.  Senders may overlap in the agent (the supervisor and the scraper  *)
(* of cloudflared's stderr): there the first half fails.                     *)
THEOREM ReadersStayInStep == HostSpec /\ []SendsInTurn => []ReadersInStep
  <1>1. BusInv /\ SendsInTurn' /\ [HostNext]_all => BusInv'
    BY PartsApart, BusNext, BusStutters
  <1>2. BusInv /\ ServicesInv => ReadersInStep
    BY BusPromises, KeysPromise DEF ServicesInv, ReadersInStep
  <1> QED
    BY <1>1, <1>2, ServicesBegin, ServicesStep, PTL DEF HostSpec

(* With one sender, as in the run, that is always so.                        *)
THEOREM OneSenderStaysInStep ==
    ASSUME \A s, t \in Senders : s = t
    PROVE  HostSpec => []ReadersInStep
  <1>1. SendsInTurn
    BY DEF SendsInTurn
  <1> QED
    BY <1>1, ReadersStayInStep, PTL

(* What is proved of the monitor alone holds of it among the services.       *)
THEOREM MonitorInHost == HostSpec => Spec
  <1>1. HostInit => Init
    BY DEF HostInit
  <1>2. [HostNext]_all => [Next]_vars
    BY PartsApart
  <1> QED
    BY <1>1, <1>2, PTL DEF HostSpec, Spec
=============================================================================
