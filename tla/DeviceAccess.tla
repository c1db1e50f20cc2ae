---------------------------- MODULE DeviceAccess ----------------------------
(***************************************************************************)
(* How a device gets into the agent and is put out again (agent/src:        *)
(* http_pages.rs, one_time_keys.rs, approval.rs, auth.rs, push_api.rs and   *)
(* the device endpoints of agent_api.rs).                                   *)
(*                                                                          *)
(* Handlers run on several threads and each opens its own SQLite            *)
(* connection, so a handler is as many steps as it makes separate           *)
(* statements or transactions: reading auto_approve and the pairing         *)
(* transaction, verifying a permanent key and inserting the device,         *)
(* expiring the old one-time keys and inserting the new one, deciding that  *)
(* a caller is authenticated and acting on it.  A transaction is one step,  *)
(* and may fail and roll back.  The operator's decisions are posted by      *)
(* detached threads and land in any order, on a device that may have been   *)
(* judged or revoked since: they are possible on any known device.          *)
(* Dropping a revoked device's push subscription is best effort: when the   *)
(* statement fails the answer is the same and the subscription stays.       *)
(*                                                                          *)
(* A device row, its session row and its API key are written by one         *)
(* transaction and never deleted, so the three are one entry here.          *)
(* Secrets are model values: a client presents a code, token or key that    *)
(* was issued, or none of this module's actions is taken.                   *)
(***************************************************************************)
EXTENDS Integers, FiniteSets

CONSTANTS Device,      \* device ids minted by random_device_id
          Code, Token, \* pairing codes and one-time keys
          Request,     \* requests being handled at once
          None,
          PAIRING_TTL, OTK_TTL, SESSION_TTL,
          MaxTime,     \* bound on the clock
          MaxIssue     \* bound on the credentials issued

OneShot    == Code \cup Token
\* A permanent key as the client holds it: the one in force, or any other.
Key        == {"current", "superseded"}
Credential == OneShot \cup Key
\* What a request has still to do: the step, auto_approve as it was read, the
\* credential presented, the device concerned, the time the request began.
Step == {"codeTxn", "otkTxn", "permVerify", "permTxn", "otkInsert", "subWrite",
         "revokeSubs", "sign"}
Work == [at : Step, auto : BOOLEAN, cred : Credential \cup {None},
         dev : Device \cup {None}, since : 0..MaxTime]

ASSUME SetAssumption ==
    /\ Code \cap Token = {}
    /\ None \notin Device \cup Code \cup Token
    /\ None \notin Nat \cup Work /\ None \notin {"pending", "approved", "rejected"}
    /\ (Code \cup Token) \cap {"current", "superseded"} = {}
ASSUME TimeAssumption ==
    /\ PAIRING_TTL \in Nat /\ OTK_TTL \in Nat /\ SESSION_TTL \in Nat
    /\ MaxTime \in Nat /\ MaxIssue \in Nat

VARIABLES
    now,
    expires,     \* expires_at of an issued code or token, None before
    used,        \* codes and tokens whose used_at is set
    permanent,   \* whether a permanent key exists
    autoApprove, \* the auto_approve setting
    status,      \* approval_status, None before the row exists
    revoked,     \* devices whose revoked_at is set
    issuedAt,    \* when the device's session cookie was signed, None before
    subs,        \* devices with a push subscription
    req,         \* what each request has still to do
    \* ghosts
    origin,      \* the code or token a device was paired with, and
    pairedAt,    \* the created_at of its session row then
    blessed,     \* approved by the operator, or paired by a request that found
                 \* auto-approve on
    leftover     \* subscribed devices that were revoked between the check and
                 \* the write, or whose revocation failed to drop the row

cred  == <<expires, used, permanent>>
rows  == <<status, revoked, issuedAt>>
ghost == <<origin, pairedAt, blessed, leftover>>
vars  == <<now, cred, autoApprove, rows, subs, req, ghost>>

Known(d)  == status[d] # None
Issued(c) == expires[c] # None

At(r, step)  == req[r] # None /\ req[r].at = step

\* What a request carries agrees with what it has to do.
RequestsAgree ==
    \A r \in Request :
        /\ At(r, "codeTxn") => req[r].cred \in Code
        /\ At(r, "otkTxn") => req[r].cred \in Token
        /\ At(r, "permVerify") \/ At(r, "permTxn") => req[r].cred \in Key
        /\ At(r, "subWrite") \/ At(r, "revokeSubs") \/ At(r, "sign") =>
              req[r].dev \in Device /\ Known(req[r].dev)

TypeOK ==
    /\ now \in 0..MaxTime
    /\ expires \in [OneShot -> Nat \cup {None}]
    /\ used \in SUBSET OneShot
    /\ permanent \in BOOLEAN
    /\ autoApprove \in BOOLEAN
    /\ status \in [Device -> {None, "pending", "approved", "rejected"}]
    /\ revoked \in SUBSET Device
    /\ issuedAt \in [Device -> 0..MaxTime \cup {None}]
    /\ subs \in SUBSET Device
    /\ req \in [Request -> Work \cup {None}]
    /\ origin \in [Device -> OneShot \cup {None}]
    /\ pairedAt \in [Device -> 0..MaxTime]
    /\ blessed \in SUBSET Device
    /\ leftover \in SUBSET Device
    /\ \A d \in revoked \cup subs \cup blessed : Known(d)
    /\ RequestsAgree

\* init_db: no rows, auto_approve off.
Init ==
    /\ now = 0
    /\ expires = [c \in OneShot |-> None]
    /\ used = {}
    /\ permanent = FALSE
    /\ autoApprove = FALSE
    /\ status = [d \in Device |-> None]
    /\ revoked = {}
    /\ issuedAt = [d \in Device |-> None]
    /\ subs = {}
    /\ req = [r \in Request |-> None]
    /\ origin = [d \in Device |-> None]
    /\ pairedAt = [d \in Device |-> 0]
    /\ blessed = {} /\ leftover = {}

-----------------------------------------------------------------------------
(* Requests. *)
Todo(at, auto, c, d) == [at |-> at, auto |-> auto, cred |-> c, dev |-> d, since |-> 0]
\* The request arrives, goes on to its next step, is answered.
Begin(r, w)    == req[r] = None /\ req' = [req EXCEPT ![r] = w]
Proceed(r, at) == req' = [req EXCEPT ![r].at = at]
Answer(r)      == req' = [req EXCEPT ![r] = None]

-----------------------------------------------------------------------------
(* Credentials. *)

\* The pairing query and the login update, which treat the last second of a
\* credential differently.
CodeValid(c) == Issued(c) /\ c \notin used /\ now <= expires[c]
OtkLive(t)   == Issued(t) /\ t \notin used /\ now < expires[t]

MayIssue == Cardinality({c \in OneShot : Issued(c)}) + (IF permanent THEN 1 ELSE 0) < MaxIssue

CreatePairingCode(c) ==
    /\ MayIssue /\ ~Issued(c)
    /\ expires' = [expires EXCEPT ![c] = now + PAIRING_TTL]
    /\ UNCHANGED <<now, used, permanent, autoApprove, rows, subs, req, ghost>>

\* generate_otk: expire what is live ...
GenerateOtk(r) ==
    /\ Begin(r, [Todo("otkInsert", FALSE, None, None) EXCEPT !.since = now])
    /\ used' = used \cup {t \in Token : OtkLive(t)}
    /\ UNCHANGED <<now, expires, permanent, autoApprove, rows, subs, ghost>>

\* ... and insert the new one, whose lifetime began before.
InsertOtk(r, t) ==
    /\ At(r, "otkInsert")
    /\ MayIssue /\ ~Issued(t)
    /\ expires' = [expires EXCEPT ![t] = req[r].since + OTK_TTL]
    /\ Answer(r)
    /\ UNCHANGED <<now, used, permanent, autoApprove, rows, subs, ghost>>

\* rotate_permanent_key: one transaction.  A key under verification is now an
\* old one; one already verified stays so.
RotatePermanentKey ==
    /\ permanent \/ MayIssue
    /\ permanent' = TRUE
    /\ req' = [r \in Request |-> IF At(r, "permVerify")
                                THEN [req[r] EXCEPT !.cred = "superseded"]
                                ELSE req[r]]
    /\ UNCHANGED <<now, expires, used, autoApprove, rows, subs, ghost>>

SetAutoApprove(b) ==
    /\ b # autoApprove
    /\ autoApprove' = b
    /\ UNCHANGED <<now, cred, rows, subs, req, ghost>>

Tick ==
    /\ now < MaxTime
    /\ now' = now + 1
    /\ UNCHANGED <<cred, autoApprove, rows, subs, req, ghost>>

-----------------------------------------------------------------------------
(* Arrival. *)

\* (faulty variant: approval_status is left to its column default)
MintApproved(r, d) ==
    /\ ~Known(d)
    /\ status' = [status EXCEPT ![d] = "approved"]
    /\ origin' = [origin EXCEPT ![d] = IF req[r].cred \in OneShot THEN req[r].cred ELSE None]
    /\ pairedAt' = [pairedAt EXCEPT ![d] = IF req[r].cred \in OneShot THEN now ELSE 0]
    /\ blessed' = IF req[r].auto THEN blessed \cup {d} ELSE blessed
    /\ req' = [req EXCEPT ![r] = Todo("sign", FALSE, None, d)]
    /\ UNCHANGED <<revoked, issuedAt, leftover>>

\* The rows of a new device, with the approval the request read when it began.
Mint(r, d) ==
    /\ ~Known(d)
    /\ status' = [status EXCEPT ![d] = IF req[r].auto THEN "approved" ELSE "pending"]
    /\ origin' = [origin EXCEPT ![d] = IF req[r].cred \in OneShot THEN req[r].cred ELSE None]
    /\ pairedAt' = [pairedAt EXCEPT ![d] = IF req[r].cred \in OneShot THEN now ELSE 0]
    /\ blessed' = IF req[r].auto THEN blessed \cup {d} ELSE blessed
    /\ req' = [req EXCEPT ![r] = Todo("sign", FALSE, None, d)]
    /\ UNCHANGED <<revoked, issuedAt, leftover>>

\* api_pairing_exchange with a code, api_login_one_time: up to the transaction.
\* A code once issued is presented again and again, valid or not.
BeginPairing(r, c) ==
    /\ Issued(c)
    /\ Begin(r, Todo(IF c \in Code THEN "codeTxn" ELSE "otkTxn", autoApprove, c, None))
    /\ UNCHANGED <<now, cred, autoApprove, rows, subs, ghost>>

\* (faulty variant: the validity of the code was checked when the request came)
PairWithCodeUnchecked(r, d) ==
    /\ At(r, "codeTxn")
    /\ req[r].cred \notin used
    /\ used' = used \cup {req[r].cred}
    /\ Mint(r, d)
    /\ UNCHANGED <<now, expires, permanent, autoApprove, subs>>

PairWithCode(r, d) ==
    /\ At(r, "codeTxn")
    /\ CodeValid(req[r].cred)
    /\ used' = used \cup {req[r].cred}
    /\ Mint(r, d)
    /\ UNCHANGED <<now, expires, permanent, autoApprove, subs>>

LoginWithOtk(r, d) ==
    /\ At(r, "otkTxn")
    /\ OtkLive(req[r].cred)
    /\ used' = used \cup {req[r].cred}
    /\ Mint(r, d)
    /\ UNCHANGED <<now, expires, permanent, autoApprove, subs>>

\* api_pairing_exchange with a permanent key: the hash is compared on the
\* blocking pool, the rows are inserted later.
BeginPermanent(r, k) ==
    /\ k = "current" => permanent
    /\ Begin(r, Todo("permVerify", autoApprove, k, None))
    /\ UNCHANGED <<now, cred, autoApprove, rows, subs, ghost>>

VerifyPermanent(r) ==
    /\ At(r, "permVerify")
    /\ IF req[r].cred = "current" THEN Proceed(r, "permTxn") ELSE Answer(r)
    /\ UNCHANGED <<now, cred, autoApprove, rows, subs, ghost>>

PairWithPermanent(r, d) ==
    /\ At(r, "permTxn")
    /\ Mint(r, d)
    /\ UNCHANGED <<now, cred, autoApprove, subs>>

\* build_pairing_response: the cookie is signed with the time read anew, and it
\* and the API key are handed out.
Sign(r) ==
    /\ At(r, "sign")
    /\ issuedAt' = [issuedAt EXCEPT ![req[r].dev] = now]
    /\ Answer(r)
    /\ UNCHANGED <<now, cred, autoApprove, status, revoked, subs, ghost>>

\* The credential is refused, or a statement or transaction fails and what it
\* wrote is rolled back.
RequestFails(r) ==
    /\ \E step \in {"codeTxn", "otkTxn", "permTxn", "otkInsert", "subWrite"} : At(r, step)
    /\ Answer(r)
    /\ UNCHANGED <<now, cred, autoApprove, rows, subs, ghost>>

-----------------------------------------------------------------------------
(* Authentication. *)

\* (faulty variant: the cookie path has no approval gate)
CookieAuthUngated(d) ==
    /\ issuedAt[d] # None
    /\ now - issuedAt[d] <= SESSION_TTL
    /\ d \notin revoked

\* verify_session and require_active_auth_with_device.
CookieAuth(d) ==
    /\ issuedAt[d] # None
    /\ now - issuedAt[d] <= SESSION_TTL
    /\ d \notin revoked
    /\ status[d] = "approved"

\* verify_api_key, of a key handed out with the cookie.
BearerAuth(d) ==
    /\ issuedAt[d] # None
    /\ d \notin revoked
    /\ status[d] = "approved"

Admitted(d) == CookieAuth(d) \/ BearerAuth(d)

-----------------------------------------------------------------------------
(* The operator's decisions. *)

\* (faulty variant: approving a device reinstates it)
ApproveReinstating(d) ==
    /\ Known(d)
    /\ status' = [status EXCEPT ![d] = "approved"]
    /\ revoked' = revoked \ {d}
    /\ blessed' = blessed \cup {d}
    /\ UNCHANGED <<now, cred, autoApprove, issuedAt, subs, req, origin, pairedAt, leftover>>

\* approve_device.
Approve(d) ==
    /\ Known(d)
    /\ status' = [status EXCEPT ![d] = "approved"]
    /\ blessed' = blessed \cup {d}
    /\ UNCHANGED <<now, cred, autoApprove, revoked, issuedAt, subs, req, origin, pairedAt, leftover>>

\* reject_device.
Reject(d) ==
    /\ Known(d)
    /\ status' = [status EXCEPT ![d] = "rejected"]
    /\ UNCHANGED <<now, cred, autoApprove, revoked, issuedAt, subs, req, ghost>>

\* (faulty variant: revoking an id that has no row makes one)
RevokeDeviceUpsert(r, d) ==
    /\ revoked' = revoked \cup {d}
    /\ Begin(r, Todo("revokeSubs", FALSE, None, d))
    /\ UNCHANGED <<now, cred, autoApprove, status, issuedAt, subs, ghost>>

\* api_agent_device_revoke (the operator) and api_device_revoke (any admitted
\* device): revoke_device, of any known device ...
RevokeDevice(r, d) ==
    /\ Known(d)
    /\ revoked' = revoked \cup {d}
    /\ Begin(r, Todo("revokeSubs", FALSE, None, d))
    /\ UNCHANGED <<now, cred, autoApprove, status, issuedAt, subs, ghost>>

\* (faulty variant: the push subscription outlives the device)
DropRevokedSubsNot(r) ==
    /\ At(r, "revokeSubs")
    /\ Answer(r)
    /\ UNCHANGED <<now, cred, autoApprove, rows, subs, ghost>>

\* ... and its push subscription ...
DropRevokedSubs(r) ==
    /\ At(r, "revokeSubs")
    /\ subs' = subs \ {req[r].dev}
    /\ leftover' = leftover \ {req[r].dev}
    /\ Answer(r)
    /\ UNCHANGED <<now, cred, autoApprove, rows, origin, pairedAt, blessed>>

\* ... unless the database cannot be opened or the DELETE fails, or the agent
\* stops before: nobody is told.
KeepRevokedSubs(r) ==
    /\ At(r, "revokeSubs")
    /\ leftover' = leftover \cup ({req[r].dev} \cap subs)
    /\ Answer(r)
    /\ UNCHANGED <<now, cred, autoApprove, rows, subs, origin, pairedAt, blessed>>

-----------------------------------------------------------------------------
(* Push subscriptions, the resource a device leaves behind. *)

\* subscribe: the caller is checked ...
BeginSubscribe(r, d) ==
    /\ Admitted(d)
    /\ Begin(r, Todo("subWrite", FALSE, None, d))
    /\ UNCHANGED <<now, cred, autoApprove, rows, subs, ghost>>

\* ... and its row written, whatever has become of the device.
Subscribe(r) ==
    /\ At(r, "subWrite")
    /\ LET d == req[r].dev IN
       /\ subs' = subs \cup {d}
       /\ leftover' = IF d \in revoked THEN leftover \cup {d} ELSE leftover
    /\ Answer(r)
    /\ UNCHANGED <<now, cred, autoApprove, rows, origin, pairedAt, blessed>>

\* unsubscribe, api_agent_device_disconnect, a push service that answers gone.
DropSubs(d) ==
    /\ d \in subs
    /\ subs' = subs \ {d}
    /\ leftover' = leftover \ {d}
    /\ UNCHANGED <<now, cred, autoApprove, rows, req, origin, pairedAt, blessed>>

-----------------------------------------------------------------------------
Arrival(r, d) == PairWithCode(r, d) \/ LoginWithOtk(r, d) \/ PairWithPermanent(r, d)

Next ==
    \/ Tick
    \/ \E c \in Code : CreatePairingCode(c)
    \/ RotatePermanentKey
    \/ \E b \in BOOLEAN : SetAutoApprove(b)
    \/ \E d \in Device : Approve(d) \/ Reject(d) \/ DropSubs(d)
    \/ \E r \in Request :
          \/ GenerateOtk(r) \/ \E t \in Token : InsertOtk(r, t)
          \/ \E c \in OneShot : BeginPairing(r, c)
          \/ \E k \in Key : BeginPermanent(r, k)
          \/ VerifyPermanent(r) \/ Sign(r) \/ RequestFails(r)
          \/ DropRevokedSubs(r) \/ KeepRevokedSubs(r) \/ Subscribe(r)
          \/ \E d \in Device :
                \/ Arrival(r, d)
                \/ RevokeDevice(r, d) \/ BeginSubscribe(r, d)

Spec == Init /\ [][Next]_vars

-----------------------------------------------------------------------------
(* Properties. *)

(* The promise: every credential is spent once, a revoked device stays out    *)
(* whatever decisions about it are still under way.                           *)
StandingAs(s) ==
    CASE s = None       -> "unknown"
      [] s = "pending"  -> "waiting"
      [] s = "approved" -> "trusted"
      [] s = "rejected" -> "refused"
standing ==
    [d \in Device |-> IF d \in revoked THEN "expelled" ELSE StandingAs(status[d])]

Trust == INSTANCE DeviceTrust
             WITH OneShot <- OneShot, Permanent <- Key, spent <- used
Implements == Trust!Spec

(* Whoever is let in, by cookie or by key, is in good standing now and was    *)
(* approved by the operator or paired by a request that found auto-approve    *)
(* on: revoking or rejecting a device closes both ways in at once.            *)
NoEntryWithoutConsent ==
    \A d \in Device : Admitted(d) => d \in blessed /\ standing[d] = "trusted"

(* A device was paired in its credential's lifetime, however long its request *)
(* took, and spent it; no two devices come from one credential.               *)
PairedInTime ==
    \A d \in Device :
        origin[d] \in OneShot =>
            /\ origin[d] \in used
            /\ pairedAt[d] <= expires[origin[d]]
            /\ \A e \in Device : origin[e] = origin[d] => e = d

(* A revoked device keeps a push subscription only if it was revoked between  *)
(* the check and the write of that very subscription, if the DELETE of it     *)
(* failed since, or while it is still being revoked.                          *)
RevokedHoldsNoSubscription ==
    \A d \in revoked \cap subs :
        \/ d \in leftover
        \/ \E r \in Request : At(r, "revokeSubs") /\ req[r].dev = d
=============================================================================
