----------------------------- MODULE Allowlists -----------------------------
(***************************************************************************)
(* The lists the agent keeps both in memory and in its database: previews  *)
(* of local ports (agent/src/preview.rs), ports open to the proxy          *)
(* (proxy.rs), origins admitted by CORS (security/cors_capture.rs,         *)
(* agent_api.rs).  A boot loads them; a handler changes the two copies one *)
(* after the other, other handlers run in between, a write to the database *)
(* may fail and the agent may be killed anywhere.  A boot that cannot load *)
(* a list goes on without it, and nothing loads it later.                  *)
(*                                                                         *)
(* A preview is known by the request that made it.                         *)
(***************************************************************************)
EXTENDS Integers, SequencesExt

CONSTANTS Port, Origin, EnvOrigin, \* local ports, origins, those of OXI_CORS_ORIGINS
          MaxReq,                  \* bound on requests
          MaxOrigins               \* CORS_ORIGINS_MAX (50 in the code)

ListsAssumption == EnvOrigin \subseteq Origin /\ MaxReq \in Nat /\ MaxOrigins \in Nat \ {0}

VARIABLES rows, targets, health, \* previews: in the database, in memory, judged
          round,                 \* previews the health loop has still to try
          portsDb, ports,        \* open ports
          originsDb, origins,    \* admitted origins
          lock,                  \* the request that holds SQLite's write lock
          req,                   \* the requests
          \* ghosts: previews deleted while the health loop had them, and not
          \* loaded by this boot; ports whose save or load failed, until the next
          \* save; origins that must be in the database, whose removal failed or
          \* overlapped a capture, removed since
          leaked, unloaded, unsaved, due, raced, removed

listsVars == <<rows, targets, health, round, portsDb, ports, originsDb, origins, lock, req,
               leaked, unloaded, unsaved, due, raced, removed>>
previewVars == <<rows, targets, health, round, leaked, unloaded>>
portVars == <<portsDb, ports, unsaved>>
originVars == <<originsDb, origins, lock, due, raced, removed>>

Call == 1..MaxReq
NoReq == 0
Kind == {"create", "delete", "port", "capture", "remove"}
New == [kind |-> "none", step |-> "new", port |-> 0, on |-> FALSE, of |-> NoReq, origin |-> 0, seen |-> <<>>]
At(r, kind, step) == req[r].kind = kind /\ req[r].step = step
InHand(r) == req[r].step \notin {"new", "done"}
Busy(kind, o) == \E q \in Call : InHand(q) /\ req[q].kind = kind /\ req[q].origin = o
Step(r, s) == req' = [req EXCEPT ![r].step = s]

TypeOK ==
  /\ rows \cup targets \cup health \cup round \cup leaked \cup unloaded \subseteq Call
  /\ portsDb \cup ports \subseteq Port /\ unsaved \in BOOLEAN
  /\ originsDb \in Seq(Origin) /\ Len(originsDb) <= MaxOrigins /\ lock \in {NoReq} \cup Call
  /\ origins \cup due \cup raced \cup removed \subseteq Origin
  /\ \A r \in Call : /\ req[r].kind \in {"none"} \cup Kind
                        /\ req[r].step \in {"new", "begun", "stored", "half", "tx", "done"}

Init ==
  /\ rows = {} /\ targets = {} /\ health = {} /\ round = {} /\ leaked = {} /\ unloaded = {}
  /\ portsDb = {} /\ ports = {} /\ unsaved = FALSE
  /\ originsDb = <<>> /\ origins = EnvOrigin /\ lock = NoReq
  /\ due = {} /\ raced = {} /\ removed = {}
  /\ req = [r \in Call |-> New]

Begin(r, rec) == req' = [req EXCEPT ![r] = rec]
Free(r) == req[r].step = "new" /\ \A q \in 1..(r - 1) : req[q].step # "new"

-----------------------------------------------------------------------------
\* api_previews_create: the row, unless the port has one ...
CreateBegins(r) ==
  /\ Free(r) /\ \E p \in Port : Begin(r, [New EXCEPT !.kind = "create", !.step = "begun", !.port = p])
  /\ UNCHANGED <<previewVars, portVars, originVars>>
InsertPreview(r) ==
  /\ At(r, "create", "begun")
  /\ \/ /\ \A q \in rows : req[q].port # req[r].port
        /\ rows' = rows \cup {r} /\ Step(r, "stored")
     \/ Step(r, "done") /\ UNCHANGED rows
  /\ UNCHANGED <<targets, health, round, leaked, unloaded, portVars, originVars>>
\* ... and then the copy in memory.
InsertTarget(r) ==
  /\ At(r, "create", "stored") /\ targets' = targets \cup {r} /\ Step(r, "done")
  /\ UNCHANGED <<rows, health, round, leaked, unloaded, portVars, originVars>>

\* api_previews_delete: the row, ...
DeleteBegins(r) ==
  /\ Free(r)
  /\ \E q \in 1..(r - 1) : /\ At(q, "create", "done")
                           /\ Begin(r, [New EXCEPT !.kind = "delete", !.step = "begun", !.of = q])
  /\ UNCHANGED <<previewVars, portVars, originVars>>
DeletePreview(r) ==
  /\ At(r, "delete", "begun")
  /\ \/ req[r].of \in rows /\ rows' = rows \ {req[r].of} /\ Step(r, "stored")
     \/ Step(r, "done") /\ UNCHANGED rows
  /\ UNCHANGED <<targets, health, round, leaked, unloaded, portVars, originVars>>

\* (faulty variant: the copy in memory stays)
RemoveNothing(r) ==
  /\ At(r, "delete", "stored") /\ Step(r, "half")
  /\ UNCHANGED <<previewVars, portVars, originVars>>
\* ... the copy, ...
RemoveTarget(r) ==
  /\ At(r, "delete", "stored") /\ targets' = targets \ {req[r].of} /\ Step(r, "half")
  /\ UNCHANGED <<rows, health, round, leaked, unloaded, portVars, originVars>>
\* ... and what the health loop said of it, which it may be about to say again.
RemoveHealth(r) ==
  /\ At(r, "delete", "half") /\ health' = health \ {req[r].of} /\ Step(r, "done")
  /\ leaked' = leaked \cup ({req[r].of} \cap round)
  /\ UNCHANGED <<rows, targets, round, unloaded, portVars, originVars>>

\* spawn_health_loop: the previews of this moment, tried one after the other.
RoundBegins ==
  /\ round = {} /\ targets # {} /\ round' = targets
  /\ UNCHANGED <<rows, targets, health, leaked, unloaded, portVars, originVars, req>>
Judge(q) ==
  /\ q \in round /\ round' = round \ {q} /\ health' = health \cup {q}
  /\ UNCHANGED <<rows, targets, leaked, unloaded, portVars, originVars, req>>

-----------------------------------------------------------------------------
\* (faulty variant: only the copy in memory is changed)
AllowInMemory(r) ==
  /\ Free(r)
  /\ \E p \in Port, on \in BOOLEAN :
       /\ ports' = IF on THEN ports \cup {p} ELSE ports \ {p}
       /\ Begin(r, [New EXCEPT !.kind = "port", !.step = "done", !.port = p, !.on = on])
  /\ UNCHANGED <<portsDb, unsaved, previewVars, originVars>>

\* set_allowed: memory, and the whole list to the database, under one lock;
\* when that fails memory keeps the change.
SetAllowed(r) ==
  /\ Free(r)
  /\ \E p \in Port, on \in BOOLEAN :
       /\ ports' = IF on THEN ports \cup {p} ELSE ports \ {p}
       /\ \/ portsDb' = ports' /\ unsaved' = FALSE
          \/ unsaved' = TRUE /\ UNCHANGED portsDb
       /\ Begin(r, [New EXCEPT !.kind = "port", !.step = "done", !.port = p, !.on = on])
  /\ UNCHANGED <<previewVars, originVars>>

-----------------------------------------------------------------------------
\* capture_pairing_origin: admitted at once, kept later.
Capture(r) ==
  /\ Free(r)
  /\ \E o \in Origin :
       /\ origins' = origins \cup {o} /\ removed' = removed \ {o}
       /\ raced' = IF Busy("remove", o) THEN raced \cup {o} ELSE raced
       /\ Begin(r, [New EXCEPT !.kind = "capture", !.step = "begun", !.origin = o])
  /\ UNCHANGED <<originsDb, lock, due, previewVars, portVars>>

\* api_agent_cors_origins_delete.
RemoveBegins(r) ==
  /\ Free(r)
  /\ \E o \in Origin :
       /\ raced' = IF Busy("capture", o) THEN raced \cup {o} ELSE raced
       /\ Begin(r, [New EXCEPT !.kind = "remove", !.step = "begun", !.origin = o])
  /\ UNCHANGED <<originsDb, origins, lock, due, removed, previewVars, portVars>>

\* (faulty variant: a deferred transaction, which reads before it has the lock)
BeginDeferred(r) ==
  /\ At(r, "capture", "begun") \/ At(r, "remove", "begun")
  /\ req' = [req EXCEPT ![r].step = "tx", ![r].seen = originsDb]
  /\ UNCHANGED <<previewVars, portVars, originVars>>

\* upsert_cors_origin, remove_cors_origin: BEGIN IMMEDIATE takes the write
\* lock, and the list is read under it.
BeginTx(r) ==
  /\ At(r, "capture", "begun") \/ At(r, "remove", "begun")
  /\ lock = NoReq /\ lock' = r
  /\ req' = [req EXCEPT ![r].step = "tx", ![r].seen = originsDb]
  /\ UNCHANGED <<originsDb, origins, due, raced, removed, previewVars, portVars>>

Upserted(list, o) ==
  IF Contains(list, o) THEN list
  ELSE Append(IF Len(list) >= MaxOrigins THEN Tail(list) ELSE list, o)
Upsert(r) ==
  /\ At(r, "capture", "tx") /\ Step(r, "done") /\ lock' = NoReq
  /\ LET o == req[r].origin
         list == req[r].seen
         out == IF Len(list) >= MaxOrigins /\ ~Contains(list, o) THEN {Head(list)} ELSE {}
     IN originsDb' = Upserted(list, o) /\ due' = (due \ out) \cup {o}
  /\ UNCHANGED <<origins, raced, removed, previewVars, portVars>>

\* (retain: the list never names an origin twice)
Without(list, o) ==
  IF Contains(list, o) THEN RemoveAt(list, CHOOSE i \in 1..Len(list) : list[i] = o) ELSE list
DbRemove(r) ==
  /\ At(r, "remove", "tx") /\ Step(r, "half") /\ lock' = NoReq
  /\ originsDb' = Without(req[r].seen, req[r].origin)
  /\ due' = due \ {req[r].origin}
  /\ UNCHANGED <<origins, raced, removed, previewVars, portVars>>

\* The database cannot be opened, locked or written; a removal goes on.
TxFails(r) ==
  /\ \E step \in {"begun", "tx"} : At(r, "capture", step) \/ At(r, "remove", step)
  /\ lock' = IF lock = r THEN NoReq ELSE lock
  /\ IF req[r].kind = "capture" THEN Step(r, "done") /\ UNCHANGED raced
     ELSE Step(r, "half") /\ raced' = raced \cup {req[r].origin}
  /\ UNCHANGED <<originsDb, origins, due, removed, previewVars, portVars>>

\* (faulty variant: the origin stays admitted until the next boot)
ForgetNothing(r) ==
  /\ At(r, "remove", "half") /\ Step(r, "done") /\ removed' = removed \cup {req[r].origin}
  /\ UNCHANGED <<originsDb, origins, lock, due, raced, previewVars, portVars>>
Forget(r) ==
  /\ At(r, "remove", "half") /\ Step(r, "done")
  /\ origins' = origins \ {req[r].origin} /\ removed' = removed \cup {req[r].origin}
  /\ UNCHANGED <<originsDb, lock, due, raced, previewVars, portVars>>

-----------------------------------------------------------------------------
\* The agent is killed and started: the lists are loaded, each of them or
\* nothing of it, and seed_origins adds those of the environment.
Restart ==
  /\ \E got \in {rows, {}} : targets' = got /\ unloaded' = rows \ got
  /\ \E got \in {portsDb, {}} : ports' = got /\ unsaved' = (got # portsDb)
  /\ \E got \in {ToSet(originsDb), {}} : origins' = EnvOrigin \cup got
  /\ health' = {} /\ round' = {} /\ lock' = NoReq
  /\ req' = [r \in Call |-> IF InHand(r) THEN [req[r] EXCEPT !.step = "done"] ELSE req[r]]
  /\ raced' = raced \cup {req[r].origin : r \in {q \in Call : InHand(q) /\ req[q].kind = "remove"}}
  /\ UNCHANGED <<rows, leaked, portsDb, originsDb, due, removed>>

Next ==
  \/ Restart \/ RoundBegins
  \/ \E r \in Call :
       \/ CreateBegins(r) \/ InsertPreview(r) \/ InsertTarget(r)
       \/ DeleteBegins(r) \/ DeletePreview(r) \/ RemoveTarget(r) \/ RemoveHealth(r)
       \/ Judge(r) \/ SetAllowed(r)
       \/ Capture(r) \/ RemoveBegins(r) \/ BeginTx(r) \/ Upsert(r) \/ DbRemove(r)
       \/ TxFails(r) \/ Forget(r)

-----------------------------------------------------------------------------
(* When no request is in hand the previews in memory are those of the       *)
(* database but for the ones this boot could not load (main.rs:754), and    *)
(* only previews deleted during a round of the health loop (preview.rs:452) *)
(* are still judged; the open ports agree unless the last save failed       *)
(* (proxy.rs:334: memory is changed first), or the load with no save since. *)
ListsInStep ==
  /\ (\A r \in Call : req[r].kind \in {"create", "delete"} => ~InHand(r)) =>
       targets = rows \ unloaded /\ health \subseteq targets \cup leaked
  /\ unsaved \/ ports = portsDb

(* No capture is lost to another one (db.rs:302): an origin whose           *)
(* transaction committed is in the database until it is removed or evicted. *)
OriginsKept == due \subseteq ToSet(originsDb)

(* A removed origin stays out, over restarts too, unless its removal failed *)
(* or overlapped a capture whose write was still to come                    *)
(* (cors_capture.rs:44), or the environment names it.                       *)
RemovedStaysOut == removed \cap origins \subseteq raced \cup EnvOrigin
=============================================================================
