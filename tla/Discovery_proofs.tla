-------------------------- MODULE Discovery_proofs --------------------------
(***************************************************************************)
(* Theorems about Discovery, for any numbers of URLs, registrations and     *)
(* failures and any times to live the assumptions allow.                    *)
(***************************************************************************)
EXTENDS Discovery, TLAPS

USE BoundsAssumption, TtlAssumption DEF NoUrl, Ready, Url, Task

(* A queue of URLs or of Ready stays one.                                   *)
LEMMA Queues ==
    ASSUME NEW S, NEW q \in Seq(S), NEW u \in S
    PROVE  Append(q, u) \in Seq(S) /\ (q # <<>> => Head(q) \in S /\ Tail(q) \in Seq(S))
  OBVIOUS

LEMMA WorkTyped ==
    ASSUME NEW at \in Call, NEW u \in Url \cup {NoUrl}, NEW n \in 1..RETRY_ATTEMPTS,
           NEW s \in Url \cup {NoUrl}, NEW p \in BOOLEAN
    PROVE  [at |-> at, url |-> u, attempt |-> n, seen |-> s, perm |-> p] \in Work
  BY DEF Work

LEMMA StartTyped ==
    ASSUME TypeOK, NEW t \in Task, NEW at \in Call, NEW u \in Url \cup {NoUrl}, Start(t, at, u)
    PROVE  task' \in [Task -> Work \cup {Free}]
  <1>1. [at |-> at, url |-> u, attempt |-> 1, seen |-> NoUrl, perm |-> permanent] \in Work
    BY WorkTyped DEF TypeOK
  <1> QED
    BY <1>1 DEF Start, TypeOK

LEMMA BusyWork ==
    ASSUME TypeOK, NEW t \in Task, ~Idle(t)
    PROVE  task[t] \in Work
  BY DEF TypeOK, Idle

LEMMA RetryWork ==
    ASSUME NEW w \in Work, w.attempt # RETRY_ATTEMPTS
    PROVE  [w EXCEPT !.at = "create", !.attempt = @ + 1, !.seen = NoUrl] \in Work
  <1>1. w.attempt + 1 \in 1..RETRY_ATTEMPTS
    BY DEF Work
  <1> QED
    BY <1>1 DEF Work, Call

LEMMA RetryTyped ==
    ASSUME TypeOK, NEW t \in Task, ~Idle(t), Retry(t)
    PROVE  task' \in [Task -> Work \cup {Free}]
  <1>1. task[t] \in Work
    BY BusyWork
  <1> QED
    BY <1>1, RetryWork DEF Retry, TypeOK

LEMMA ServedTyped ==
    ASSUME TypeOK, NEW t \in Task, ~Idle(t), Served(t)
    PROVE  /\ session' \in [url : Url \cup {NoUrl}, ttl : 0..SESSION_TTL]
           /\ key' \in [Kind -> 0..SESSION_TTL]
  <1>1. task[t] \in Work
    BY BusyWork
  <1> QED
    BY <1>1 DEF Served, worker, PutSession, Put, PutKey, Lifetime, TypeOK, Work, Kind

LEMMA AdvanceTyped ==
    ASSUME TypeOK, NEW t \in Task, ~Idle(t), Advance(t)
    PROVE  task' \in [Task -> Work \cup {Free}]
  <1> DEFINE w == task[t]
  <1>1. w \in Work /\ session.url \in Url \cup {NoUrl}
    BY BusyWork DEF TypeOK
  <1>2. /\ [w EXCEPT !.at = "put", !.seen = session.url] \in Work
        /\ [w EXCEPT !.at = "update", !.seen = NoUrl] \in Work
        /\ [w EXCEPT !.at = "temp"] \in Work
        /\ [w EXCEPT !.at = "lookup"] \in Work
    BY <1>1 DEF Work, Call
  <1> QED
    BY <1>1, <1>2 DEF Advance, TypeOK

(* Every variable keeps its type: a registration is never in more than its  *)
(* last attempt, and no entry of the worker outlives the session record's   *)
(* full time to live.                                                       *)
THEOREM TypeCorrect == Spec => []TypeOK
  <1>1. Init => TypeOK
    <2> SUFFICES ASSUME Init PROVE TypeOK
      OBVIOUS
    <2>1. permanent \in BOOLEAN /\ proberAlive \in BOOLEAN /\ qr \in BOOLEAN /\ stopped \in BOOLEAN
      BY Zenon DEF Init
    <2>2. /\ task \in [Task -> Work \cup {Free}]
          /\ session \in [url : Url \cup {NoUrl}, ttl : 0..SESSION_TTL]
          /\ key \in [Kind -> 0..SESSION_TTL]
      BY DEF Init
    <2>3. probeQ \in Seq(Url) /\ slotQ \in Seq(Url) /\ clientQ \in Seq(Url \cup {Ready})
      BY DEF Init
    <2> QED
      BY <2>1, <2>2, <2>3 DEF Init, TypeOK
  <1>2. TypeOK /\ [Next]_vars => TypeOK'
    <2> SUFFICES ASSUME TypeOK, [Next]_vars PROVE TypeOK'
      OBVIOUS
    <2> USE DEF TypeOK, worker, agent
    <2>1. CASE UrlChanged
      <3>1. url + 1 \in Url
        BY <2>1 DEF UrlChanged
      <3>2. slotQ' \in Seq(Url) /\ clientQ' \in Seq(Url \cup {Ready}) /\ probeQ' \in Seq(Url)
        BY <2>1, <3>1, Queues DEF UrlChanged
      <3> QED
        BY <2>1, <3>1, <3>2 DEF UrlChanged
    <2>2. CASE WriteSlot
      BY <2>2, Queues DEF WriteSlot
    <2>3. CASE Disconnect
      BY <2>3 DEF Disconnect
    <2>4. CASE Probe
      BY <2>4, Queues DEF Probe
    <2>5. CASE Verdict
      <3>1. clientQ' \in Seq(Url \cup {Ready}) /\ starts' \in 0..MaxStart
        <4>1. CASE Announce
          BY <4>1, Queues DEF Announce
        <4>2. CASE UNCHANGED <<clientQ, starts>>
          BY <4>2
        <4> QED
          BY <2>5, <4>1, <4>2 DEF Verdict
      <3> QED
        BY <2>5, <3>1 DEF Verdict
    <2>6. CASE ProberLags
      <3>1. proberAlive' \in BOOLEAN
        BY <2>6, Zenon DEF ProberLags
      <3>2. probeQ' \in Seq(Url)
        BY <2>6 DEF ProberLags
      <3> QED
        BY <2>6, <3>1, <3>2 DEF ProberLags
    <2>7. CASE EdgeReady
      <3>1. clientQ' \in Seq(Url \cup {Ready}) /\ starts' \in 0..MaxStart
        BY <2>7, Queues DEF EdgeReady, Announce
      <3> QED
        BY <2>7, <3>1 DEF EdgeReady
    <2>8. CASE NoteUrl
      <3>1. Head(clientQ) \in Url /\ Tail(clientQ) \in Seq(Url \cup {Ready})
        BY <2>8, Queues DEF NoteUrl
      <3> QED
        BY <2>8, <3>1 DEF NoteUrl
    <2>9. ASSUME NEW t \in Task, Register(t) PROVE TypeOK'
      <3>1. task' \in [Task -> Work \cup {Free}]
        <4>1. CASE latestUrl = NoUrl
          BY <2>9, <4>1 DEF Register
        <4>2. CASE latestUrl # NoUrl
          BY <2>9, <4>2, StartTyped DEF Register, Call
        <4> QED
          BY <4>1, <4>2
      <3> QED
        BY <2>9, <3>1, Queues DEF Register
    <2>10. ASSUME NEW t \in Task, NEW k \in Kind, RegisterCode(t, k) PROVE TypeOK'
      <3>1. task' \in [Task -> Work \cup {Free}]
        <4>1. k \in Call /\ NoUrl \in Url \cup {NoUrl} /\ Start(t, k, NoUrl)
          BY <2>10 DEF RegisterCode, Call, Kind
        <4> HIDE DEF TypeOK
        <4> QED
          BY <4>1, StartTyped
      <3>2. permanent' \in BOOLEAN
        BY <2>10, Zenon DEF RegisterCode
      <3> QED
        BY <2>10, <3>1, <3>2 DEF RegisterCode
    <2>11. ASSUME NEW t \in Task, CallAnswered(t) PROVE TypeOK'
      <3>1. qr' \in BOOLEAN
        BY <2>11, Zenon DEF CallAnswered
      <3> QED
        BY <2>11, <3>1, ServedTyped, AdvanceTyped DEF CallAnswered
    <2>12. ASSUME NEW t \in Task, CallRefused(t) PROVE TypeOK'
      BY <2>12, RetryTyped DEF CallRefused
    <2>13. ASSUME NEW t \in Task, CallFails(t) PROVE TypeOK'
      <3>1. /\ session' \in [url : Url \cup {NoUrl}, ttl : 0..SESSION_TTL]
            /\ key' \in [Kind -> 0..SESSION_TTL]
        BY <2>13, ServedTyped DEF CallFails
      <3> QED
        BY <2>13, <3>1, RetryTyped DEF CallFails
    <2>14. CASE Beat
      BY <2>14 DEF Beat, PutSession, Put
    <2>15. CASE BeatFails
      BY <2>15 DEF BeatFails
    <2>16. CASE Tick
      <3>1. session' \in [url : Url \cup {NoUrl}, ttl : 0..SESSION_TTL]
        <4>1. CASE session.ttl <= 1
          BY <2>16, <4>1 DEF Tick
        <4>2. CASE ~(session.ttl <= 1)
          <5>1. session.ttl - 1 \in 0..SESSION_TTL
            BY <4>2
          <5>2. session' = [session EXCEPT !.ttl = session.ttl - 1]
            BY <2>16, <4>2 DEF Tick
          <5> QED
            BY <5>1, <5>2
        <4> QED
          BY <4>1, <4>2
      <3>2. key' \in [Kind -> 0..SESSION_TTL]
        <4>1. ASSUME NEW n \in 0..SESSION_TTL PROVE Less(n) \in 0..SESSION_TTL
          BY DEF Less
        <4>2. key \in [Kind -> 0..SESSION_TTL] /\ key' = [k \in Kind |-> Less(key[k])]
          BY <2>16 DEF Tick
        <4> QED
          BY ONLY <4>1, <4>2
      <3> QED
        BY <2>16, <3>1, <3>2 DEF Tick
    <2>17. CASE UNCHANGED vars
      BY <2>17 DEF vars
    <2> QED
      BY <2>1, <2>2, <2>3, <2>4, <2>5, <2>6, <2>7, <2>8, <2>9, <2>10, <2>11, <2>12,
         <2>13, <2>14, <2>15, <2>16, <2>17 DEF Next
  <1> QED
    BY <1>1, <1>2, PTL DEF Spec

-----------------------------------------------------------------------------
(* The worker's records. *)

(* Before the tunnel has a URL nothing is published.                        *)
Unborn ==
    url = NoUrl =>
        /\ probeQ = <<>> /\ probing = NoUrl /\ clientQ = <<>> /\ latestUrl = NoUrl
        /\ slotQ = <<>> /\ slot = NoUrl /\ beat = NoUrl
        /\ session.ttl = 0
        /\ \A t \in Task : ~Idle(t) => task[t].at \in {"short", "lookup"}

(* From then on the slot has a URL or will have one.                        *)
Sharing == ~stopped /\ url # NoUrl => slot # NoUrl \/ slotQ # <<>>

(* The record has lost at most the heartbeats that failed and the one under *)
(* way; what is in the index found a record.                                *)
Renewed ==
    ~stopped => /\ \/ session.ttl = 0
                   \/ session.ttl + fails + (IF beat # NoUrl THEN 1 ELSE 0) >= SESSION_TTL
                /\ session.ttl = 0 => \A k \in Kind : key[k] = 0

(* What a served call leaves at the worker.                                 *)
LEMMA ServedRenews ==
    ASSUME TypeOK, NEW t \in Task, ~Idle(t), Served(t)
    PROVE  /\ \/ session' = session /\ key' = key
              \/ session' = session /\ session.ttl > 0
              \/ session'.ttl = SESSION_TTL
           /\ task[t].at \in {"short", "lookup"} => session' = session
  <1>1. task[t] \in Work
    BY BusyWork
  <1> QED
    BY <1>1 DEF Served, worker, PutSession, Put, PutKey, HasRecord, TypeOK

LEMMA ServedKeepsRenewed ==
    ASSUME TypeOK, Renewed, NEW t \in Task, ~Idle(t), Served(t) \/ UNCHANGED worker,
           UNCHANGED <<beat, stopped>>, fails' \in 0..MaxFail, fails' >= fails
    PROVE  Renewed'
  <1>1. CASE Served(t)
    <2>1. \/ session' = session /\ key' = key
          \/ session' = session /\ session.ttl > 0
          \/ session'.ttl = SESSION_TTL
      BY <1>1, ServedRenews
    <2>2. session.ttl \in Nat /\ fails \in Nat /\ fails' \in Nat /\ SESSION_TTL > 0
      BY DEF TypeOK
    <2> QED
      BY <2>1, <2>2 DEF Renewed
  <1>2. CASE UNCHANGED worker
    <2>1. session.ttl \in Nat /\ fails \in Nat /\ fails' \in Nat
      BY DEF TypeOK
    <2> QED
      BY <1>2, <2>1 DEF Renewed, worker
  <1> QED
    BY <1>1, <1>2

LEMMA BornWhenPublishing ==
    ASSUME TypeOK, Unborn, NEW t \in Task, ~Idle(t), url = NoUrl
    PROVE  task[t].at \in {"short", "lookup"} /\ session.ttl = 0
  BY DEF Unborn

(* Until the operator disconnects, no key the worker knows dangles.  The    *)
(* clock stops for every call, so a record is renewed once per interval     *)
(* unless the heartbeat failed, and fewer calls fail than the record has    *)
(* intervals to live.                                                       *)
THEOREM NothingDangles == Spec => []NoDanglingKey
  <1> DEFINE Inv == Unborn /\ Sharing /\ Renewed
  <1>1. Init => Inv
    BY DEF Init, Unborn, Sharing, Renewed, Idle
  <1>2. TypeOK /\ Inv /\ [Next]_vars => Inv'
    <2> SUFFICES ASSUME TypeOK, Inv, [Next]_vars PROVE Inv'
      OBVIOUS
    <2>a. session.ttl \in Nat /\ fails \in 0..MaxFail
      BY DEF TypeOK
    <2>b. Unborn /\ Sharing /\ Renewed
      OBVIOUS
    <2> USE DEF worker, agent
    <2>1. CASE UrlChanged
      <3>1. url \in Nat /\ url + 1 \in Nat /\ slotQ \in Seq(Url)
        BY DEF TypeOK
      <3>2. url' # NoUrl
        BY <2>1, <3>1 DEF UrlChanged
      <3>3. slotQ' # <<>>
        BY <2>1, <3>1 DEF UrlChanged
      <3> QED
        BY <2>1, <3>2, <3>3 DEF UrlChanged, Unborn, Sharing, Renewed
    <2>2. CASE WriteSlot
      <3>1. url # NoUrl /\ slot' # NoUrl
        BY <2>2, Queues DEF WriteSlot, Unborn, TypeOK
      <3> QED
        BY <2>2, <3>1 DEF WriteSlot, Unborn, Sharing, Renewed
    <2>3. CASE Disconnect
      BY <2>3 DEF Disconnect, Unborn, Sharing, Renewed, Idle
    <2>4. CASE Probe \/ Verdict \/ ProberLags \/ EdgeReady \/ NoteUrl
      <3>1. url # NoUrl
        BY <2>4 DEF Probe, Verdict, ProberLags, EdgeReady, NoteUrl, Unborn
      <3>2. UNCHANGED <<url, slot, slotQ, stopped, beat, session, key, fails>>
        BY <2>4 DEF Probe, Verdict, ProberLags, EdgeReady, NoteUrl
      <3> QED
        BY <3>1, <3>2 DEF Unborn, Sharing, Renewed
    <2>5. ASSUME NEW t \in Task, Register(t) PROVE Inv'
      <3>1. url # NoUrl
        BY <2>5 DEF Register, Unborn
      <3> QED
        BY <2>5, <3>1 DEF Register, Unborn, Sharing, Renewed
    <2>6. ASSUME NEW t \in Task, NEW k \in Kind, RegisterCode(t, k) PROVE Inv'
      <3>1. ASSUME NEW s \in Task, s # t PROVE task'[s] = task[s]
        BY <2>6, <3>1 DEF RegisterCode, Start, TypeOK
      <3>2. task'[t].at \in {"short", "lookup"}
        BY <2>6 DEF RegisterCode, Start, TypeOK, Kind
      <3> QED
        BY <2>6, <3>1, <3>2 DEF RegisterCode, Unborn, Sharing, Renewed, Idle
    <2>7. ASSUME NEW t \in Task, CallAnswered(t) \/ CallRefused(t) \/ CallFails(t) PROVE Inv'
      <3>1. /\ UNCHANGED <<url, probeQ, probing, clientQ, latestUrl, slotQ, slot, beat, stopped>>
            /\ fails' \in 0..MaxFail /\ fails' >= fails
        BY <2>a, <2>7 DEF CallAnswered, CallRefused, CallFails
      <3>a. ~Idle(t)
        BY <2>7 DEF CallAnswered, CallRefused, CallFails
      <3>b. Served(t) \/ UNCHANGED worker
        BY <2>7 DEF CallAnswered, CallRefused, CallFails
      <3>2. Renewed'
        <4>1. UNCHANGED <<beat, stopped>>
          BY <3>1
        <4> HIDE DEF Inv, worker
        <4> QED
          BY <2>b, <3>1, <3>a, <3>b, <4>1, ServedKeepsRenewed
      <3>3. Unborn'
        <4> SUFFICES ASSUME url = NoUrl PROVE Unborn'
          BY <3>1 DEF Unborn
        <4>1. task[t].at \in {"short", "lookup"} /\ session.ttl = 0
          BY <2>b, <3>a, BornWhenPublishing
        <4>2. session'.ttl = 0
          <5>1. CASE Served(t)
            BY <3>a, <4>1, <5>1, ServedRenews
          <5>2. CASE UNCHANGED worker
            BY <4>1, <5>2 DEF worker
          <5> QED
            BY <3>b, <5>1, <5>2
        <4>3. ASSUME NEW s \in Task, s # t PROVE task'[s] = task[s]
          BY <2>7, <4>3 DEF CallAnswered, CallRefused, CallFails, Advance, Retry, TypeOK
        <4>4. task'[t] = Free
          BY <2>7, <4>1 DEF CallAnswered, CallRefused, CallFails, Advance, Retry, TypeOK
        <4> QED
          BY <3>1, <4>2, <4>3, <4>4 DEF Unborn, Idle
      <3> QED
        BY <3>1, <3>2, <3>3 DEF Sharing
    <2>8. CASE Beat
      <3>1. url # NoUrl
        BY <2>8 DEF Beat, Unborn
      <3>2. session'.ttl = SESSION_TTL /\ key' = key
        BY <2>8 DEF Beat, PutSession, Put
      <3> QED
        BY <2>a, <2>8, <3>1, <3>2 DEF Beat, Unborn, Sharing, Renewed
    <2>9. CASE BeatFails
      BY <2>a, <2>9 DEF BeatFails, Unborn, Sharing, Renewed
    <2>10. CASE Tick
      <3>1. beat = NoUrl /\ slotQ = <<>>
        BY <2>10 DEF Tick, Quiet
      <3>2. ~stopped /\ session.ttl # 0 => beat' # NoUrl
        BY <2>10, <3>1 DEF Tick, Unborn, Sharing
      <3>3. ~stopped /\ session.ttl # 0 => session'.ttl = session.ttl - 1 /\ session'.ttl > 0
        <4>1. ~stopped /\ session.ttl # 0 => session.ttl > 1
          BY <2>a, <3>1 DEF Renewed
        <4> QED
          BY <2>10, <4>1 DEF Tick, TypeOK
      <3>4. session.ttl = 0 => session'.ttl = 0
        BY <2>10 DEF Tick
      <3>5. \A k \in Kind : key[k] = 0 => key'[k] = 0
        BY <2>10 DEF Tick, Less
      <3>6. Renewed'
        BY <2>a, <2>10, <3>1, <3>2, <3>3, <3>4, <3>5 DEF Tick, Renewed
      <3>7. Unborn' /\ Sharing'
        BY <2>10, <3>1, <3>4 DEF Tick, Unborn, Sharing, Idle
      <3> QED
        BY <3>6, <3>7
    <2>11. CASE UNCHANGED vars
      BY <2>11 DEF vars, Unborn, Sharing, Renewed, Idle
    <2> QED
      BY <2>1, <2>2, <2>3, <2>4, <2>5, <2>6, <2>7, <2>8, <2>9, <2>10, <2>11 DEF Next
  <1>3. TypeOK /\ Inv => NoDanglingKey
    BY DEF TypeOK, Renewed, NoDanglingKey, Live, HasRecord
  <1> QED
    BY <1>1, <1>2, <1>3, TypeCorrect, PTL DEF Spec
=============================================================================
