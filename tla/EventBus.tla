------------------------------ MODULE EventBus ------------------------------
(***************************************************************************)
(* The agent's event bus (agent/src/events.rs): a tokio broadcast channel   *)
(* of bounded capacity and, beside it, a snapshot of the tunnel state that   *)
(* `send` mirrors before it broadcasts.  `send` is two steps, because the    *)
(* snapshot's lock is released before the channel's is taken, so two         *)
(* senders (the supervisor and the task that scrapes cloudflared's stderr    *)
(* both send TunnelUrlChanged) may interleave between them.                  *)
(*                                                                           *)
(* A subscriber keeps a cursor into the stream.  The channel retains the     *)
(* last Capacity messages; a subscriber whose cursor falls out of the        *)
(* retained window is told once that it lagged and resumes at the oldest     *)
(* retained message.                                                         *)
(*                                                                           *)
(* The log is kept whole, so that properties can speak of what was sent; the *)
(* code's ring is its last Capacity entries.                                 *)
(***************************************************************************)
EXTENDS Integers, Sequences

CONSTANTS Senders,      \* tasks that send tunnel-shaped events
          Subscribers,  \* tasks that subscribe to the bus
          Urls,         \* payloads of TunnelUrlChanged
          Other,        \* any event the snapshot does not mirror
          NoUrl,        \* the snapshot's None
          Capacity,     \* EVENT_BUS_CAPACITY
          MaxLog        \* bound on the messages sent

BusAssumption ==
    /\ Capacity \in Nat \ {0} /\ MaxLog \in Nat
    /\ {Other, NoUrl, "idle"} \cap Urls = {}

VARIABLES snapUrl,   \* TunnelSnapshot.url
          log,       \* every message broadcast so far, in order
          sending,   \* the message a sender has mirrored and not yet broadcast
          cursor,    \* number of messages behind a subscriber; -1 before subscribe()
          hydrated,  \* whether a subscriber has read the snapshot
          view,      \* the tunnel URL a subscriber believes in
          missed     \* ghost: the last URL before the cursor was lost to a lag

vars == <<snapUrl, log, sending, cursor, hydrated, view, missed>>

Events == Urls \cup {Other}
Idle == "idle"

-----------------------------------------------------------------------------
TypeOK ==
    /\ snapUrl \in Urls \cup {NoUrl}
    /\ log \in Seq(Events)
    /\ sending \in [Senders -> Urls \cup {Idle}]
    /\ cursor \in [Subscribers -> Int]
    /\ \A r \in Subscribers : /\ -1 <= cursor[r] /\ cursor[r] <= Len(log)
                              /\ hydrated[r] => 0 <= cursor[r]
    /\ hydrated \in [Subscribers -> BOOLEAN]
    /\ view \in [Subscribers -> Urls \cup {NoUrl}]
    /\ missed \in [Subscribers -> BOOLEAN]

Init ==
    /\ snapUrl = NoUrl
    /\ log = <<>>
    /\ sending = [s \in Senders |-> Idle]
    /\ cursor = [r \in Subscribers |-> -1]
    /\ hydrated = [r \in Subscribers |-> FALSE]
    /\ view = [r \in Subscribers |-> NoUrl]
    /\ missed = [r \in Subscribers |-> FALSE]

Subscribed(r) == cursor[r] # -1

\* Messages before the retained window: what a slow receiver has lost.
Dropped == IF Len(log) > Capacity THEN Len(log) - Capacity ELSE 0

-----------------------------------------------------------------------------
\* EventBus::send, first half: mirror under the snapshot's write lock.
Mirror(s, u) ==
    /\ sending[s] = Idle
    /\ Len(log) < MaxLog
    /\ snapUrl' = u
    /\ sending' = [sending EXCEPT ![s] = u]
    /\ UNCHANGED <<log, cursor, hydrated, view, missed>>

\* EventBus::send, second half: tx.send, which never blocks and drops the
\* oldest message when the ring is full.
Broadcast(s) ==
    /\ sending[s] # Idle
    /\ log' = Append(log, sending[s])
    /\ sending' = [sending EXCEPT ![s] = Idle]
    /\ UNCHANGED <<snapUrl, cursor, hydrated, view, missed>>

\* Any event that is not mirrored: log lines, probes, device events.
SendOther ==
    /\ Len(log) < MaxLog
    /\ log' = Append(log, Other)
    /\ UNCHANGED <<snapUrl, sending, cursor, hydrated, view, missed>>

\* (faulty variant: the receiver starts past the end of the stream)
SubscribePastEnd(r) ==
    /\ ~Subscribed(r)
    /\ cursor' = [cursor EXCEPT ![r] = Len(log) + 1]
    /\ UNCHANGED <<snapUrl, log, sending, hydrated, view, missed>>

\* EventBus::subscribe: there is no replay, the cursor starts at the tail.
Subscribe(r) ==
    /\ ~Subscribed(r)
    /\ cursor' = [cursor EXCEPT ![r] = Len(log)]
    /\ UNCHANGED <<snapUrl, log, sending, hydrated, view, missed>>

\* (faulty variant: snapshot() before subscribe(), the order in which an event
\* between the two calls is lost)
HydrateFirst(r) ==
    /\ ~hydrated[r]
    /\ hydrated' = [hydrated EXCEPT ![r] = TRUE]
    /\ view' = [view EXCEPT ![r] = snapUrl]
    /\ UNCHANGED <<snapUrl, log, sending, cursor, missed>>

\* The dashboard hydrates from snapshot() after it has subscribed and before
\* it drains the channel.
Hydrate(r) ==
    /\ Subscribed(r)
    /\ ~hydrated[r]
    /\ hydrated' = [hydrated EXCEPT ![r] = TRUE]
    /\ view' = [view EXCEPT ![r] = snapUrl]
    /\ UNCHANGED <<snapUrl, log, sending, cursor, missed>>

\* recv/try_recv inside the retained window: apply the next message.
Receive(r) ==
    /\ Subscribed(r) /\ hydrated[r]
    /\ Dropped <= cursor[r]
    /\ cursor[r] < Len(log)
    /\ cursor' = [cursor EXCEPT ![r] = @ + 1]
    /\ view' = [view EXCEPT ![r] = IF log[cursor[r] + 1] \in Urls
                                   THEN log[cursor[r] + 1] ELSE @]
    /\ missed' = [missed EXCEPT ![r] = @ /\ log[cursor[r] + 1] \notin Urls]
    /\ UNCHANGED <<snapUrl, log, sending, hydrated>>

\* (faulty variant: a lag is reported and the cursor stays where it was)
ReceiveLaggedStuck(r) ==
    /\ Subscribed(r) /\ hydrated[r]
    /\ cursor[r] < Dropped
    /\ missed' = [missed EXCEPT ![r] = @ \/ \E i \in (cursor[r] + 1)..Dropped : log[i] \in Urls]
    /\ UNCHANGED <<snapUrl, log, sending, cursor, hydrated, view>>

\* recv/try_recv behind the window: Err(Lagged), and skip to its start.
ReceiveLagged(r) ==
    /\ Subscribed(r) /\ hydrated[r]
    /\ cursor[r] < Dropped
    /\ cursor' = [cursor EXCEPT ![r] = Dropped]
    /\ missed' = [missed EXCEPT ![r] = @ \/ \E i \in (cursor[r] + 1)..Dropped : log[i] \in Urls]
    /\ UNCHANGED <<snapUrl, log, sending, hydrated, view>>

Next ==
    \/ \E s \in Senders : (\E u \in Urls : Mirror(s, u)) \/ Broadcast(s)
    \/ SendOther
    \/ \E r \in Subscribers :
          Subscribe(r) \/ Hydrate(r) \/ Receive(r) \/ ReceiveLagged(r)

Spec == Init /\ [][Next]_vars

\* A started send finishes, and a subscriber that was started keeps draining.
Fairness ==
    /\ \A s \in Senders : WF_vars(Broadcast(s))
    /\ \A r \in Subscribers :
          WF_vars(Hydrate(r)) /\ WF_vars(Receive(r) \/ ReceiveLagged(r))

LiveSpec == Spec /\ Fairness

-----------------------------------------------------------------------------
Drained(r) == hydrated[r] /\ cursor[r] = Len(log)
Quiet == \A s \in Senders : sending[s] = Idle

(* A subscriber that attached late (subscribe, then snapshot) and has drained *)
(* the channel agrees with the snapshot, whatever was sent between its two    *)
(* calls and however far it lagged, unless the last URL it skipped over was   *)
(* the last one sent.                                                         *)
LateSubscriberInStep ==
    Quiet => \A r \in Subscribers :
                Drained(r) /\ ~missed[r] => view[r] = snapUrl

(* Every subscriber that attached catches up once the senders go quiet.      *)
EventuallyDrained ==
    \A r \in Subscribers : Subscribed(r) ~> Drained(r)
=============================================================================
