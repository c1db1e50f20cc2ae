------------------------------ MODULE Discovery ------------------------------
(***************************************************************************)
(* How a browser finds the agent: the agent publishes its tunnel URL to the *)
(* discovery worker (agent/src: discovery.rs and the tasks of main.rs;      *)
(* apps/discovery-worker), which keeps one session record per agent and an  *)
(* index from short keys to it, both with a time to live.                   *)
(*                                                                          *)
(* TunnelUrlChanged reaches three tasks of the agent: the prober, which     *)
(* works on a URL for several seconds and then announces Ready or not; the  *)
(* slot writer; and the discovery client, which remembers the last URL and  *)
(* at every Ready starts a detached registration of it.  Every 15 minutes a *)
(* heartbeat reposts the URL of the slot.  Registrations and heartbeats     *)
(* overlap, fail, and are retried; a call may also take effect and its      *)
(* answer be lost.                                                          *)
(*                                                                          *)
(* The unit of time is the heartbeat interval.  Calls time out in 15 s and  *)
(* a registration with its retries in three minutes, so the clock moves     *)
(* when nothing is under way.                                               *)
(***************************************************************************)
EXTENDS Integers, Sequences

CONSTANTS
    MaxTask,         \* bound on the registrations under way at once
    Free,            \* no registration
    MaxUrl,          \* bound on the URLs the tunnel takes on
    MaxFail,         \* bound on the calls that fail
    MaxStart,        \* bound on the registrations started, of URLs and of codes
    RETRY_ATTEMPTS,
    SESSION_TTL,     \* SESSION_DEFAULT_TTL_SECS, in heartbeats
    KEY_TTL,         \* of a temp key or a one-time key
    LOOKUP_TTL       \* of the permanent key's lookup id

ASSUME BoundsAssumption ==
    /\ MaxUrl \in Nat /\ MaxFail \in Nat /\ MaxStart \in Nat
    /\ MaxTask \in Nat /\ RETRY_ATTEMPTS \in Nat \ {0}
ASSUME TtlAssumption ==
    /\ KEY_TTL \in Nat /\ LOOKUP_TTL \in Nat /\ SESSION_TTL \in Nat
    /\ KEY_TTL <= SESSION_TTL /\ LOOKUP_TTL <= SESSION_TTL
    /\ MaxFail + 1 < SESSION_TTL

VARIABLES
    \* agent
    url,       \* the tunnel's URL: 0, then 1, 2, ...
    probeQ, probing, proberAlive,
    clientQ, latestUrl,
    slotQ, slot,     \* AppState::tunnel_url
    qr,              \* whether the dashboard shows a temp key
    permanent,       \* whether a permanent key exists
    task,            \* registrations under way
    beat,            \* URL of the heartbeat under way
    \* worker
    session,         \* the session record
    key,             \* remaining life of the newest index entry of each kind
    \* bounds and ghosts
    fails, starts,
    stopped          \* the operator has disconnected the tunnel

agent  == <<url, probeQ, probing, proberAlive, clientQ, latestUrl, slotQ, slot>>
worker == <<session, key>>
vars   == <<agent, qr, permanent, task, beat, worker, fails, starts, stopped>>

Task  == 1..MaxTask
Url   == 1..MaxUrl
NoUrl == 0
Ready == 0       \* in the client's queue, beside the URLs

Kind == {"short", "lookup"}  \* temp keys and one-time keys; lookup ids
Lifetime(k) == IF k = "lookup" THEN LOOKUP_TTL ELSE KEY_TTL

Call == {"create", "put", "update", "temp", "short", "lookup"}
Work == [at : Call, url : Url \cup {NoUrl}, attempt : 1..RETRY_ATTEMPTS,
         seen : Url \cup {NoUrl}, perm : BOOLEAN]

Live(k)   == key[k] > 0
HasRecord == session.ttl > 0
Idle(t)   == task[t] = Free

TypeOK ==
    /\ url \in Url \cup {NoUrl}
    /\ probeQ \in Seq(Url) /\ slotQ \in Seq(Url)
    /\ probing \in Url \cup {NoUrl}
    /\ proberAlive \in BOOLEAN
    /\ clientQ \in Seq(Url \cup {Ready})
    /\ latestUrl \in Url \cup {NoUrl}
    /\ slot \in Url \cup {NoUrl}
    /\ qr \in BOOLEAN
    /\ permanent \in BOOLEAN
    /\ task \in [Task -> Work \cup {Free}]
    /\ beat \in Url \cup {NoUrl}
    /\ session \in [url : Url \cup {NoUrl}, ttl : 0..SESSION_TTL]
    /\ key \in [Kind -> 0..SESSION_TTL]
    /\ fails \in 0..MaxFail
    /\ starts \in 0..MaxStart
    /\ stopped \in BOOLEAN

Init ==
    /\ url = NoUrl /\ latestUrl = NoUrl /\ slot = NoUrl /\ probing = NoUrl /\ beat = NoUrl
    /\ probeQ = <<>> /\ clientQ = <<>> /\ slotQ = <<>>
    /\ proberAlive = TRUE
    /\ qr = FALSE
    /\ permanent \in BOOLEAN
    /\ task = [t \in Task |-> Free]
    /\ session = [url |-> NoUrl, ttl |-> 0]
    /\ key = [k \in Kind |-> 0]
    /\ fails = 0 /\ starts = 0 /\ stopped = FALSE

-----------------------------------------------------------------------------
(* The agent's event handlers. *)

\* The tunnel comes up, or up again, under a new URL: TunnelUrlChanged.
UrlChanged ==
    /\ url < MaxUrl
    /\ url' = url + 1
    /\ slotQ' = Append(slotQ, url + 1)
    /\ clientQ' = Append(clientQ, url + 1)
    /\ probeQ' = IF proberAlive THEN Append(probeQ, url + 1) ELSE probeQ
    /\ UNCHANGED <<probing, proberAlive, latestUrl, slot, qr, permanent, task, beat, worker,
                   fails, starts, stopped>>

\* The slot writer, and the disconnect handler, which only empties the slot.
WriteSlot ==
    /\ slotQ # <<>>
    /\ slot' = Head(slotQ) /\ slotQ' = Tail(slotQ)
    /\ UNCHANGED <<url, probeQ, probing, proberAlive, clientQ, latestUrl, qr, permanent,
                   task, beat, worker, fails, starts, stopped>>

Disconnect ==
    /\ ~stopped
    /\ stopped' = TRUE
    /\ slot' = NoUrl
    /\ UNCHANGED <<url, probeQ, probing, proberAlive, clientQ, latestUrl, slotQ, qr,
                   permanent, task, beat, worker, fails, starts>>

Announce ==
    /\ starts < MaxStart
    /\ starts' = starts + 1
    /\ clientQ' = Append(clientQ, Ready)

\* The prober takes a URL on; later it announces Ready, or Degraded, which
\* the client ignores.
Probe ==
    /\ probing = NoUrl /\ probeQ # <<>>
    /\ probing' = Head(probeQ) /\ probeQ' = Tail(probeQ)
    /\ UNCHANGED <<url, proberAlive, clientQ, latestUrl, slotQ, slot, qr, permanent, task,
                   beat, worker, fails, starts, stopped>>

Verdict ==
    /\ probing # NoUrl
    /\ Announce \/ UNCHANGED <<clientQ, starts>>
    /\ probing' = NoUrl
    /\ UNCHANGED <<url, probeQ, proberAlive, latestUrl, slotQ, slot, qr, permanent, task,
                   beat, worker, fails, stopped>>

\* More than a bus of events went by during a probe: the prober's loop ends
\* at the Lagged error.  (It may end with no URL queued; that shows at the
\* next one.)
ProberLags ==
    /\ probing = NoUrl /\ proberAlive /\ probeQ # <<>>
    /\ proberAlive' = FALSE /\ probeQ' = <<>>
    /\ UNCHANGED <<url, probing, clientQ, latestUrl, slotQ, slot, qr, permanent, task, beat,
                   worker, fails, starts, stopped>>

\* The edge monitor has seen the tunnel recover.
EdgeReady ==
    /\ url # NoUrl
    /\ Announce
    /\ UNCHANGED <<url, probeQ, probing, proberAlive, latestUrl, slotQ, slot, qr, permanent,
                   task, beat, worker, fails, stopped>>

\* A detached task; which t it takes is of no account.
Start(t, at, u) ==
    /\ Idle(t) /\ \A s \in 1..(t - 1) : ~Idle(s)
    /\ task' = [task EXCEPT ![t] = [at |-> at, url |-> u, attempt |-> 1, seen |-> NoUrl,
                                   perm |-> permanent]]

\* The client: a URL is noted, a Ready registers the one noted last, which
\* need not be the one that was probed.
NoteUrl ==
    /\ clientQ # <<>> /\ Head(clientQ) # Ready
    /\ latestUrl' = Head(clientQ) /\ clientQ' = Tail(clientQ)
    /\ UNCHANGED <<url, probeQ, probing, proberAlive, slotQ, slot, qr, permanent, task, beat,
                   worker, fails, starts, stopped>>

Register(t) ==
    /\ clientQ # <<>> /\ Head(clientQ) = Ready
    /\ clientQ' = Tail(clientQ)
    /\ IF latestUrl = NoUrl THEN t = 1 /\ UNCHANGED task ELSE Start(t, "create", latestUrl)
    /\ UNCHANGED <<url, probeQ, probing, proberAlive, latestUrl, slotQ, slot, qr, permanent,
                   beat, worker, fails, starts, stopped>>

\* A one-time key is generated, the permanent key rotated: the new code is
\* registered on its own.
RegisterCode(t, k) ==
    /\ starts < MaxStart
    /\ starts' = starts + 1
    /\ Start(t, k, NoUrl)
    /\ permanent' = (permanent \/ k = "lookup")
    /\ UNCHANGED <<agent, qr, beat, worker, fails, stopped>>

-----------------------------------------------------------------------------
(* The worker's handlers, as the call of task t. *)

Put(u, ttl) == session' = [url |-> u, ttl |-> ttl] /\ UNCHANGED key

\* (faulty variant: the record lives as long as a temp key)
PutSessionShort(u) == Put(u, KEY_TTL)

PutSession(u) == Put(u, SESSION_TTL)

PutKey(k) ==
    /\ key' = [key EXCEPT ![k] = Lifetime(k)]
    /\ UNCHANGED session

\* A call that took effect.
Served(t) ==
    LET w == task[t] IN
    \/ w.at = "create" /\ UNCHANGED worker
    \/ w.at = "put" /\ PutSession(w.seen)
    \/ w.at = "update" /\ PutSession(w.url)
    \/ w.at = "temp" /\ HasRecord /\ PutKey("short")
    \/ w.at \in {"short", "lookup"} /\ HasRecord /\ PutKey(w.at)

-----------------------------------------------------------------------------
(* A registration. *)

\* After the step, the next, if there is one.
Advance(t) ==
    LET w == task[t] IN
    task' = [task EXCEPT ![t] =
        CASE w.at = "create"          -> [w EXCEPT !.at = "put", !.seen = session.url]
          [] w.at = "put"             -> [w EXCEPT !.at = "update", !.seen = NoUrl]
          [] w.at = "update"          -> [w EXCEPT !.at = "temp"]
          [] w.at = "temp" /\ w.perm -> [w EXCEPT !.at = "lookup"]
          [] OTHER                    -> Free]

\* (faulty variant: one attempt too many)
RetryOneMore(t) ==
    LET w == task[t] IN
    task' = [task EXCEPT ![t] =
        IF w.at \in {"short", "lookup"} \/ w.attempt > RETRY_ATTEMPTS THEN Free
        ELSE [w EXCEPT !.at = "create", !.attempt = @ + 1, !.seen = NoUrl]]

\* register_with_retry: start over; a code is registered once.
Retry(t) ==
    LET w == task[t] IN
    task' = [task EXCEPT ![t] =
        IF w.at \in {"short", "lookup"} \/ w.attempt = RETRY_ATTEMPTS THEN Free
        ELSE [w EXCEPT !.at = "create", !.attempt = @ + 1, !.seen = NoUrl]]

CallAnswered(t) ==
    /\ ~Idle(t)
    /\ Served(t)
    /\ Advance(t)
    /\ qr' = (qr \/ task[t].at = "temp")
    /\ UNCHANGED <<agent, permanent, beat, fails, starts, stopped>>

\* 404: the session record is not there.
CallRefused(t) ==
    /\ ~Idle(t)
    /\ task[t].at \in {"temp", "short", "lookup"} /\ ~HasRecord
    /\ Retry(t)
    /\ UNCHANGED <<agent, qr, permanent, beat, worker, fails, starts, stopped>>

\* The call, or only its answer, is lost.
CallFails(t) ==
    /\ ~Idle(t)
    /\ fails < MaxFail
    /\ fails' = fails + 1
    /\ Served(t) \/ UNCHANGED worker
    /\ Retry(t)
    /\ UNCHANGED <<agent, qr, permanent, beat, starts, stopped>>

-----------------------------------------------------------------------------
(* Heartbeat and time. *)

\* (faulty variant: no heartbeat)
BeatMissing ==
    /\ beat # NoUrl
    /\ beat' = NoUrl
    /\ UNCHANGED <<agent, qr, permanent, task, worker, fails, starts, stopped>>

\* spawn_refresh_session, answered or not.
Beat ==
    /\ beat # NoUrl
    /\ beat' = NoUrl
    /\ PutSession(beat)
    /\ UNCHANGED <<agent, qr, permanent, task, fails, starts, stopped>>

BeatFails ==
    /\ beat # NoUrl
    /\ fails < MaxFail
    /\ fails' = fails + 1
    /\ beat' = NoUrl
    /\ UNCHANGED <<agent, qr, permanent, task, worker, starts, stopped>>

Quiet ==
    /\ probeQ = <<>> /\ probing = NoUrl /\ clientQ = <<>> /\ slotQ = <<>>
    /\ \A t \in Task : Idle(t)
    /\ beat = NoUrl

Less(n) == IF n > 0 THEN n - 1 ELSE n

\* A heartbeat interval goes by: records age, and the heartbeat starts with
\* the URL of the slot, if there is one.
Tick ==
    /\ Quiet
    /\ beat' = slot
    /\ session' = IF session.ttl <= 1 THEN [url |-> NoUrl, ttl |-> 0]
                  ELSE [session EXCEPT !.ttl = @ - 1]
    /\ key' = [k \in Kind |-> Less(key[k])]
    /\ UNCHANGED <<agent, qr, permanent, task, fails, starts, stopped>>

-----------------------------------------------------------------------------
Next ==
    \/ UrlChanged \/ WriteSlot \/ Disconnect
    \/ Probe \/ Verdict \/ ProberLags \/ EdgeReady
    \/ NoteUrl
    \/ \E t \in Task :
          \/ Register(t) \/ \E k \in Kind : RegisterCode(t, k)
          \/ CallAnswered(t) \/ CallRefused(t) \/ CallFails(t)
    \/ Beat \/ BeatFails
    \/ Tick

Spec == Init /\ [][Next]_vars

\* Every task runs on, a call is answered in the end, time goes by.
Fairness ==
    /\ WF_vars(WriteSlot) /\ WF_vars(NoteUrl) /\ WF_vars(Probe) /\ WF_vars(Verdict)
    /\ WF_vars(\E t \in Task : Register(t))
    /\ \A t \in Task : WF_vars(CallAnswered(t) \/ CallRefused(t))
    /\ WF_vars(Beat)
    /\ WF_vars(Tick)

LiveSpec == Spec /\ Fairness

-----------------------------------------------------------------------------
(* Properties. *)

(* While the operator has not disconnected, every key the worker knows leads *)
(* to a record: a record outlives the index entries registered under it      *)
(* because the heartbeat renews it, though some calls fail.                   *)
NoDanglingKey == ~stopped => \A k \in Kind : Live(k) => HasRecord

(* The record comes to name the tunnel's URL and stays so, whatever older    *)
(* registrations write and whether or not the prober still runs.             *)
Converges == <>[](slot # NoUrl => HasRecord /\ session.url = slot)

(* While the tunnel is connected and no call has failed, the worker still     *)
(* knows the temp key that the dashboard's QR code carries, or at least some  *)
(* key as young ("a single QR scan completes pairing across origins").        *)
QrResolves == ~stopped /\ fails = 0 /\ qr => Live("short")
=============================================================================
