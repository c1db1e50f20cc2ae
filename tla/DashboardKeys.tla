---------------------------- MODULE DashboardKeys ----------------------------
(***************************************************************************)
(* The operator's side of the terminal dashboard                           *)
(* (agent/src/tui/dashboard/key.rs, tui/approval.rs): keys are routed to   *)
(* the device list, a confirmation, the log filter or the dashboard, the   *)
(* approval of a pending device takes over the screen and blocks the loop  *)
(* until it is decided or times out, and the pairing key in the QR code is *)
(* re-read when an event says that keys changed.  Keys are issued and used *)
(* by HTTP requests on other threads meanwhile.                            *)
(***************************************************************************)
EXTENDS Integers, Sequences, FiniteSets

CONSTANTS Device,   \* devices that ask to pair
          MaxKey,   \* bound on one-time keys issued
          MaxRecent \* bound on the dashboard's unread events

KeysAssumption == MaxKey \in Nat \ {0} /\ MaxRecent \in Nat \ {0}

VARIABLES key,      \* one-time keys of the database: new, live, used or expired
          unsent,   \* requests that changed a key and have not sent their event
          inbox,    \* the dashboard's receiver: "otk", or a device that asks
          stale,    \* ghost: a key event was overwritten unread, and none was read since
          shownKey, \* the key in the QR code; 0: none
          status,   \* a device's approval
          recent,   \* devices that are not revoked, the last to log in first
          posts,    \* decisions under way to the agent's own API
          ui        \* the dashboard's view

keysVars == <<key, unsent, inbox, stale, shownKey, status, recent, posts, ui>>

Live == {k \in 1..MaxKey : key[k] = "live"}

\* list_devices, pending first: the device in row n, if there is one.
Pending(i) == status[recent[i]] = "pending"
Before(j, i) == IF Pending(j) = Pending(i) THEN j < i ELSE Pending(j)
Listed(n) ==
  LET rows == 1..Len(recent)
  IN {recent[i] : i \in {j \in rows : Cardinality({h \in rows : Before(h, j)}) = n - 1}}

\* active_otk: a live key, or none.
ActiveOtk == IF Live = {} THEN {0} ELSE Live

-----------------------------------------------------------------------------
TypeOK ==
  /\ key \in [1..MaxKey -> {"new", "live", "used", "expired"}]
  /\ unsent \in 0..2 * MaxKey /\ stale \in BOOLEAN /\ shownKey \in 0..MaxKey
  /\ \A i \in 1..Len(inbox) : inbox[i] = "otk" \/ inbox[i] \in Device
  /\ status \in [Device -> {"none", "pending", "approved", "rejected"}]
  /\ \A i \in 1..Len(recent) : recent[i] \in Device
  /\ posts \subseteq Device \X {"approved", "rejected", "revoked"}
  /\ ui.view \in {"dashboard", "devices"} /\ ui.asks \in {"nobody"} \cup Device
  /\ ui.filter \in {"none", "editing", "active"}

Init ==
  /\ key = [k \in 1..MaxKey |-> "new"] /\ unsent = 0 /\ inbox = <<>> /\ stale = FALSE /\ shownKey = 0
  /\ status = [d \in Device |-> "none"] /\ recent = <<>> /\ posts = {}
  /\ ui = [view |-> "dashboard", sel |-> 0, asks |-> "nobody",
           confirm |-> FALSE, logs |-> FALSE, filter |-> "none"]

\* generate_otk: live keys are used up, the next one is live.
Generated(k) == [[i \in 1..MaxKey |-> IF key[i] = "live" THEN "used" ELSE key[i]] EXCEPT ![k] = "live"]
NextKey == {k \in 1..MaxKey : key[k] = "new" /\ \A i \in 1..(k - 1) : key[i] # "new"}

\* EventBus::send: a full receiver loses its oldest event, and drain goes on
\* with the rest.
Sent(e) ==
  /\ inbox' = Append(IF Len(inbox) = MaxRecent THEN Tail(inbox) ELSE inbox, e)
  /\ stale' = (stale \/ (Len(inbox) = MaxRecent /\ Head(inbox) = "otk"))

-----------------------------------------------------------------------------
\* Other threads.  POST /api/agent/keys/one-time, the database part ...
IssueKey ==
  /\ \E k \in NextKey : key' = Generated(k)
  /\ unsent' = unsent + 1
  /\ UNCHANGED <<inbox, stale, shownKey, status, recent, posts, ui>>

\* ... login with the key: it is used and the device is pending ...
Login(d) ==
  /\ status[d] = "none"
  /\ \E k \in Live : key' = [key EXCEPT ![k] = "used"]
  /\ unsent' = unsent + 1
  /\ status' = [status EXCEPT ![d] = "pending"]
  /\ recent' = <<d>> \o recent
  /\ Sent(d)
  /\ UNCHANGED <<shownKey, posts, ui>>

\* ... and the event of either.
SendOtk ==
  /\ unsent > 0
  /\ unsent' = unsent - 1
  /\ Sent("otk")
  /\ UNCHANGED <<key, shownKey, status, recent, posts, ui>>

\* A key's time is over; nobody sends OtkExpired.
Expire(k) ==
  /\ key[k] = "live"
  /\ key' = [key EXCEPT ![k] = "expired"]
  /\ UNCHANGED <<unsent, inbox, stale, shownKey, status, recent, posts, ui>>

\* recent without the device, which it names once at most.
Without(d) ==
  LET here == {i \in 1..Len(recent) : recent[i] = d}
      i == CHOOSE j \in here : TRUE
  IN IF here = {} THEN recent ELSE SubSeq(recent, 1, i - 1) \o SubSeq(recent, i + 1, Len(recent))

\* The agent's API carries out a decision the dashboard has posted.
Post(d, what) ==
  /\ <<d, what>> \in posts
  /\ posts' = posts \ {<<d, what>>}
  /\ IF what = "revoked"
     THEN recent' = Without(d) /\ UNCHANGED status
     ELSE status' = [status EXCEPT ![d] = what] /\ UNCHANGED recent
  /\ UNCHANGED <<key, unsent, inbox, stale, shownKey, ui>>

-----------------------------------------------------------------------------
\* (faulty variant: the event is consumed without reading the database)
DrainTrusting ==
  /\ ui.asks = "nobody" /\ inbox # <<>>
  /\ inbox' = Tail(inbox)
  /\ IF Head(inbox) = "otk"
     THEN stale' = FALSE /\ UNCHANGED <<shownKey, ui>>
     ELSE ui' = [ui EXCEPT !.asks = Head(inbox)] /\ UNCHANGED <<shownKey, stale>>
  /\ UNCHANGED <<key, unsent, status, recent, posts>>

\* The loop drains one event: a pending device takes the screen, a key event
\* re-reads the active key.
Drain ==
  /\ ui.asks = "nobody" /\ inbox # <<>>
  /\ inbox' = Tail(inbox)
  /\ IF Head(inbox) = "otk"
     THEN shownKey' \in ActiveOtk /\ stale' = FALSE /\ UNCHANGED ui
     ELSE ui' = [ui EXCEPT !.asks = Head(inbox)] /\ UNCHANGED <<shownKey, stale>>
  /\ UNCHANGED <<key, unsent, status, recent, posts>>

\* run_approval: y or n posts the decision, the end of the pairing's time
\* posts none.
Answer ==
  /\ ui.asks # "nobody"
  /\ \/ posts' = posts \cup {<<ui.asks, "approved">>}
     \/ posts' = posts \cup {<<ui.asks, "rejected">>}
  /\ ui' = [ui EXCEPT !.asks = "nobody"]
  /\ UNCHANGED <<key, unsent, inbox, stale, shownKey, status, recent>>

\* (faulty variant: the countdown never ends the takeover)
NoTimeout == FALSE /\ UNCHANGED keysVars

ApprovalTimesOut ==
  /\ ui.asks # "nobody"
  /\ ui' = [ui EXCEPT !.asks = "nobody"]
  /\ UNCHANGED <<key, unsent, inbox, stale, shownKey, status, recent, posts>>

-----------------------------------------------------------------------------
\* The keyboard is read when no approval has the screen.
Pressed(view) == ui.asks = "nobody" /\ ui.view = view
OnDashboard == Pressed("dashboard") /\ ~ui.confirm /\ ui.filter # "editing"
OnlyUi == UNCHANGED <<key, unsent, inbox, stale, shownKey, status, recent, posts>>

\* r: a new key, its event, and the new key in the QR code.
KeyR ==
  /\ OnDashboard
  /\ \E k \in NextKey : key' = Generated(k) /\ shownKey' = k
  /\ Sent("otk")
  /\ UNCHANGED <<unsent, status, recent, posts, ui>>

\* a: a pending device is approved in the database, of those that came in one
\* second any.
KeyA ==
  /\ OnDashboard
  /\ \E i \in 1..Len(recent) :
       /\ Pending(i)
       /\ status' = [status EXCEPT ![recent[i]] = "approved"]
  /\ UNCHANGED <<key, unsent, inbox, stale, shownKey, recent, posts, ui>>

\* d, R
KeyView ==
  /\ OnDashboard
  /\ \/ ui' = [ui EXCEPT !.view = "devices", !.sel = 1]
     \/ ui' = [ui EXCEPT !.confirm = TRUE]
  /\ OnlyUi

\* (faulty variant: leaving the log view keeps the filter)
KeyLKeeping ==
  /\ OnDashboard
  /\ ui' = [ui EXCEPT !.logs = ~@]
  /\ OnlyUi

\* l: leaving the log view drops the filter.
KeyL ==
  /\ OnDashboard
  /\ ui' = [ui EXCEPT !.logs = ~@, !.filter = IF ui.logs THEN "none" ELSE @]
  /\ OnlyUi

\* f: edit the filter, in the log view.
KeyF ==
  /\ OnDashboard /\ ui.logs
  /\ ui' = [ui EXCEPT !.filter = "editing"]
  /\ OnlyUi

\* Enter with a text or without, and Esc, while the filter is edited.
FilterKey ==
  /\ Pressed("dashboard") /\ ~ui.confirm /\ ui.filter = "editing"
  /\ \E f \in {"none", "active"} : ui' = [ui EXCEPT !.filter = f]
  /\ OnlyUi

\* y rotates the permanent key through the API (DeviceAccess), n does not.
ConfirmKey ==
  /\ Pressed("dashboard") /\ ui.confirm
  /\ ui' = [ui EXCEPT !.confirm = FALSE]
  /\ OnlyUi

\* The device list: b or Esc, up, and down within the list as it is now.
ListKey ==
  /\ Pressed("devices")
  /\ \/ ui' = [ui EXCEPT !.view = "dashboard"]
     \/ ui.sel > 1 /\ ui' = [ui EXCEPT !.sel = @ - 1]
     \/ ui.sel < Len(recent) /\ ui' = [ui EXCEPT !.sel = @ + 1]
  /\ OnlyUi

\* Enter: the list is read again; the row at the cursor is approved, or its
\* revocation posted.
ListEnter ==
  /\ Pressed("devices")
  /\ \E d \in Listed(ui.sel) :
        \/ /\ status[d] = "pending"
           /\ status' = [status EXCEPT ![d] = "approved"] /\ UNCHANGED posts
        \/ /\ status[d] = "approved"
           /\ posts' = posts \cup {<<d, "revoked">>} /\ UNCHANGED status
  /\ UNCHANGED <<key, unsent, inbox, stale, shownKey, recent, ui>>

Keyboard ==
  \/ KeyR \/ KeyA \/ KeyView \/ KeyL \/ KeyF \/ FilterKey \/ ConfirmKey
  \/ ListKey \/ ListEnter \/ Answer

Next ==
  \/ IssueKey \/ SendOtk \/ Drain \/ ApprovalTimesOut \/ Keyboard
  \/ \E k \in 1..MaxKey : Expire(k)
  \/ \E d \in Device : Login(d) \/ \E w \in {"approved", "rejected", "revoked"} : Post(d, w)

-----------------------------------------------------------------------------
(* Once the events of the other threads are sent and drained, the QR code    *)
(* carries a key that works, or one whose time is over: never one that was  *)
(* used or replaced behind the dashboard's back (event_handler.rs:168,      *)
(* key.rs:73), unless the event that said so was overwritten while an       *)
(* approval had the screen, and none has been read since.                   *)
QrCarriesLiveKey ==
  inbox = <<>> /\ unsent = 0 /\ ~stale /\ shownKey # 0 => key[shownKey] \in {"live", "expired"}

(* A filter that hides log lines, or takes the keys, exists in the log view *)
(* only, and a confirmation and the filter never wait for keys at once.     *)
KeysGoToOnePlace ==
  /\ ui.filter # "none" => ui.logs
  /\ ui.confirm => ui.filter # "editing" /\ ui.view = "dashboard"

Drained == inbox = <<>>

(* An approval that nobody answers gives the screen back, and what waits    *)
(* behind it is drained.                                                    *)
TakeoverEnds == ~Drained ~> Drained
=============================================================================
