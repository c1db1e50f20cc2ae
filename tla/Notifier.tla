------------------------------- MODULE Notifier -------------------------------
(***************************************************************************)
(* Desktop notifications and the Web Push of a finished agent              *)
(* (agent/src/notifier.rs, push.rs): one task takes the events of the bus  *)
(* in order, shows a toast for a waiting device and for a tunnel that is   *)
(* down, and pushes to every subscription when the agent of a session ends.*)
(* A toast is not repeated within a window of the last one, of which it    *)
(* remembers a single key.  While it pushes it takes no event, and the bus *)
(* overwrites what a slow receiver has not taken.                          *)
(***************************************************************************)
EXTENDS Integers, Sequences, FiniteSets

CONSTANTS Device,     \* devices that wait for approval
          Sub,        \* push subscriptions
          Window,     \* DEDUP_WINDOW
          MaxTime, MaxEvent, \* bounds on the clock and the events
          BusSize     \* capacity of the bus

NotifierAssumption ==
  IsFiniteSet(Sub) /\ {Window, BusSize} \subseteq Nat \ {0} /\ {MaxTime, MaxEvent} \subseteq Nat

VARIABLES inbox,  \* events the notifier has still to take
          lag,    \* some were overwritten, and it has not been told
          sent,   \* events sent so far
          clock,
          last,   \* last_fired: the key and the time
          subs,   \* subscriptions in the database
          task,   \* what the notifier is doing
          \* ghosts: when a key was last shown, the keys suppressed now,
          \* subscriptions tried since the lookup
          shownAt, hushed, tried

notifierVars == <<inbox, lag, sent, clock, last, subs, task, shownAt, hushed, tried>>

Key == Device \cup {"tunnel_down"}
Event == Key \cup {"ended"}
Never == -Window
Waiting == [step |-> "recv", left |-> {}, all |-> {}]

TypeOK ==
  /\ inbox \in Seq(Event) /\ Len(inbox) <= BusSize /\ lag \in BOOLEAN
  /\ sent \in 0..MaxEvent /\ clock \in 0..MaxTime
  /\ last.at \in Never..MaxTime /\ last.key \in Key \cup {"none"}
  /\ subs \subseteq Sub /\ task.step \in {"recv", "lookup", "push"}
  /\ task.left \subseteq task.all /\ task.all \subseteq Sub
  /\ shownAt \in [Key -> Never..MaxTime] /\ hushed \subseteq Key /\ tried \subseteq Sub

Init ==
  /\ inbox = <<>> /\ lag = FALSE /\ sent = 0 /\ clock = 0
  /\ last = [key |-> "none", at |-> Never]
  /\ subs \in SUBSET Sub /\ task = Waiting
  /\ shownAt = [k \in Key |-> Never] /\ hushed = {} /\ tried = {}

\* The bus.
Emit(e) ==
  /\ sent < MaxEvent /\ sent' = sent + 1
  /\ inbox' = Append(IF Len(inbox) = BusSize THEN Tail(inbox) ELSE inbox, e)
  /\ lag' = (lag \/ Len(inbox) = BusSize)
  /\ UNCHANGED <<clock, last, subs, task, shownAt, hushed, tried>>

Tick ==
  /\ clock < MaxTime /\ clock' = clock + 1 /\ hushed' = {}
  /\ UNCHANGED <<inbox, lag, sent, last, subs, task, shownAt, tried>>

Subscribe(s) ==
  /\ s \notin subs /\ subs' = subs \cup {s}
  /\ UNCHANGED <<inbox, lag, sent, clock, last, task, shownAt, hushed, tried>>

\* RecvError::Lagged is skipped over.
Lagged ==
  /\ task.step = "recv" /\ lag /\ lag' = FALSE
  /\ UNCHANGED <<inbox, sent, clock, last, subs, task, shownAt, hushed, tried>>

\* (faulty variant: any toast silences every other for the window)
AnyRecent(k) == last.key # "none" /\ clock - last.at < Window

\* The last toast was for the same key, and within the window.
Recent(k) == last.key = k /\ clock - last.at < Window

Taken(e) == task.step = "recv" /\ ~lag /\ inbox # <<>> /\ Head(inbox) = e /\ inbox' = Tail(inbox)

Toast(k) ==
  /\ Taken(k)
  /\ IF Recent(k)
     THEN hushed' = hushed \cup {k} /\ UNCHANGED <<last, shownAt>>
     ELSE /\ last' = [key |-> k, at |-> clock]
          /\ shownAt' = [shownAt EXCEPT ![k] = clock] /\ UNCHANGED hushed
  /\ UNCHANGED <<lag, sent, clock, subs, task, tried>>

Ended ==
  /\ Taken("ended") /\ task' = [Waiting EXCEPT !.step = "lookup"] /\ tried' = {}
  /\ UNCHANGED <<lag, sent, clock, last, subs, shownAt, hushed>>

\* load_agent_push_targets: the toggle of the session and the subscriptions;
\* the toggle may be off, the lookup may fail.
Lookup ==
  /\ task.step = "lookup"
  /\ \/ subs # {} /\ task' = [step |-> "push", left |-> subs, all |-> subs]
     \/ task' = Waiting
  /\ UNCHANGED <<inbox, lag, sent, clock, last, subs, shownAt, hushed, tried>>

\* (faulty variant: the first one that fails ends the round)
PushUntilError(s) ==
  /\ task.step = "push" /\ s \in task.left /\ tried' = tried \cup {s}
  /\ \/ task' = [task EXCEPT !.step = IF task.left = {s} THEN "recv" ELSE "push", !.left = @ \ {s}]
     \/ task' = [task EXCEPT !.step = "recv", !.left = {}]
  /\ UNCHANGED <<inbox, lag, sent, clock, last, subs, shownAt, hushed>>

\* send_agent_finished_push: one after the other; an answer that says the
\* subscription is gone, or no answer, is logged, and the next one is tried.
Push(s) ==
  /\ task.step = "push" /\ s \in task.left /\ tried' = tried \cup {s}
  /\ task' = [task EXCEPT !.step = IF task.left = {s} THEN "recv" ELSE "push", !.left = @ \ {s}]
  /\ UNCHANGED <<inbox, lag, sent, clock, last, subs, shownAt, hushed>>

Working == Lagged \/ (\E k \in Key : Toast(k)) \/ Ended \/ Lookup \/ (\E s \in Sub : Push(s))

Next ==
  \/ Tick \/ (\E e \in Event : Emit(e)) \/ (\E s \in Sub : Subscribe(s))
  \/ Working

-----------------------------------------------------------------------------
(* Who is not told now was told within the window: the single remembered    *)
(* key (notifier.rs:106) may repeat a toast, it never swallows one.         *)
HushedWasShown == \A k \in hushed : clock - shownAt[k] < Window

(* When the notifier takes events again, every subscription of the lookup   *)
(* has been tried, whatever became of the others (push.rs:331).             *)
EverySubTried == task.step = "recv" => task.all \subseteq tried

CaughtUp == inbox = <<>> /\ ~lag

(* An event that was sent is taken or overwritten: no push keeps the        *)
(* notifier from the next one for ever.                                     *)
EventsAreTaken == []<>CaughtUp
=============================================================================
