------------------------ MODULE DeviceAccess_proofs ------------------------
(***************************************************************************)
(* Theorems about DeviceAccess and about the parts that MCDeviceAccess puts *)
(* beside it (the workspace's files, downloads, the boot, the update of the *)
(* executable, the start at login, the allowlists, the dashboard's tunnel   *)
(* panel), for any sets of devices, credentials, requests and processes and *)
(* any bounds.  Each part has an inductive invariant of its own; the last   *)
(* section of each property puts the parts together.                        *)
(***************************************************************************)
EXTENDS MCDeviceAccess, Sequences, TLAPS

USE DEF OneShot, Key, Credential, Known, Issued

LEMMA WorkFields ==
    ASSUME NEW w \in Work
    PROVE  /\ w.at \in Step /\ w.auto \in BOOLEAN
           /\ w.cred \in Credential \cup {None} /\ w.dev \in Device \cup {None}
           /\ w.since \in 0..MaxTime
  BY DEF Work

(* A request that has a step to do carries well-formed work.                *)
LEMMA AtWork ==
    ASSUME TypeOK, NEW r \in Request, NEW step, At(r, step)
    PROVE  req[r] \in Work /\ req[r] # None /\ req[r].at = step
  BY DEF TypeOK, At

(* Work whose credential and device suit its step.                          *)
Suits(w) ==
    /\ w.at = "codeTxn" => w.cred \in Code
    /\ w.at = "otkTxn" => w.cred \in Token
    /\ w.at \in {"permVerify", "permTxn"} => w.cred \in Key
    /\ w.at \in {"subWrite", "revokeSubs", "sign"} => w.dev \in Device /\ Known(w.dev)

(* No device loses its row.                                                 *)
RowsStay == \A d \in Device : Known(d) => Known(d)'

LEMMA TodoTyped ==
    ASSUME TypeOK, NEW r \in Request, NEW w \in Work, req' = [req EXCEPT ![r] = w],
           Suits(w)', RowsStay
    PROVE  req' \in [Request -> Work \cup {None}] /\ RequestsAgree'
  <1>1. req' \in [Request -> Work \cup {None}]
    BY DEF TypeOK
  <1>2. ASSUME NEW q \in Request, q # r PROVE req'[q] = req[q]
    BY <1>2 DEF TypeOK
  <1>3. req'[r] = w
    BY DEF TypeOK
  <1> QED
    BY <1>1, <1>2, <1>3 DEF TypeOK, RequestsAgree, Suits, RowsStay, At

LEMMA BeginTyped ==
    ASSUME TypeOK, NEW r \in Request, NEW w \in Work, Begin(r, w), Suits(w), RowsStay
    PROVE  req' \in [Request -> Work \cup {None}] /\ RequestsAgree'
  <1>1. Suits(w)'
    BY DEF Suits, RowsStay
  <1> QED
    BY <1>1, TodoTyped DEF Begin

LEMMA AnswerTyped ==
    ASSUME TypeOK, NEW r \in Request, Answer(r), RowsStay
    PROVE  req' \in [Request -> Work \cup {None}] /\ RequestsAgree'
  <1>1. req' \in [Request -> Work \cup {None}]
    BY DEF TypeOK, Answer
  <1>2. ASSUME NEW q \in Request, q # r PROVE req'[q] = req[q]
    BY <1>2 DEF TypeOK, Answer
  <1>3. req'[r] = None
    BY DEF TypeOK, Answer
  <1> QED
    BY <1>1, <1>2, <1>3 DEF TypeOK, RequestsAgree, RowsStay, At

(* What a pairing transaction does to the rows, whatever its credential.    *)
LEMMA MintTyped ==
    ASSUME TypeOK, NEW r \in Request, NEW d \in Device, NEW step, At(r, step), Mint(r, d)
    PROVE  /\ status' \in [Device -> {None, "pending", "approved", "rejected"}]
           /\ revoked' \in SUBSET Device
           /\ issuedAt' \in [Device -> 0..MaxTime \cup {None}]
           /\ req' \in [Request -> Work \cup {None}] /\ RequestsAgree'
           /\ origin' \in [Device -> OneShot \cup {None}]
           /\ pairedAt' \in [Device -> 0..MaxTime]
           /\ blessed' \in SUBSET Device
           /\ leftover' \in SUBSET Device
           /\ \A e \in revoked \cup subs \cup blessed' : status'[e] # None
  <1>1. req[r] \in Work
    BY AtWork
  <1>2. status' \in [Device -> {None, "pending", "approved", "rejected"}]
    <2>1. status \in [Device -> {None, "pending", "approved", "rejected"}]
      BY DEF TypeOK
    <2>2. \E s \in {"pending", "approved"} : status' = [status EXCEPT ![d] = s]
      BY DEF Mint
    <2> QED
      BY <2>1, <2>2
  <1>3. /\ revoked' \in SUBSET Device /\ leftover' \in SUBSET Device
        /\ issuedAt' \in [Device -> 0..MaxTime \cup {None}]
        /\ blessed' \in SUBSET Device
    BY DEF TypeOK, Mint
  <1>7. pairedAt' \in [Device -> 0..MaxTime]
    <2>1. pairedAt \in [Device -> 0..MaxTime] /\ now \in 0..MaxTime /\ 0 \in 0..MaxTime
      BY TimeAssumption DEF TypeOK
    <2>2. \E n \in {now, 0} : pairedAt' = [pairedAt EXCEPT ![d] = n]
      BY DEF Mint
    <2> QED
      BY <2>1, <2>2
  <1>4. req' \in [Request -> Work \cup {None}] /\ RequestsAgree'
    <2>1. RowsStay
      BY SetAssumption DEF TypeOK, Mint, RowsStay
    <2> DEFINE w == Todo("sign", FALSE, None, d)
    <2>2. w \in Work /\ req' = [req EXCEPT ![r] = w]
      BY TimeAssumption DEF Todo, Work, Step, Mint
    <2>3. Suits(w)'
      BY SetAssumption DEF TypeOK, Mint, Todo, Suits
    <2> HIDE DEF w
    <2> QED
      BY <2>1, <2>2, <2>3, TodoTyped
  <1>5. origin' \in [Device -> OneShot \cup {None}]
    BY DEF TypeOK, Mint
  <1>6. \A e \in revoked \cup subs \cup blessed' : status'[e] # None
    BY SetAssumption DEF TypeOK, Mint
  <1> QED
    BY <1>2, <1>3, <1>4, <1>5, <1>6, <1>7

LEMMA ArrivalTyped ==
    ASSUME TypeOK, NEW r \in Request, NEW d \in Device, NEW step, At(r, step), Mint(r, d),
           used' \in SUBSET OneShot, UNCHANGED <<now, expires, permanent, autoApprove, subs>>
    PROVE  TypeOK'
  BY MintTyped DEF TypeOK, Mint

(* Every variable keeps its type; nothing is recorded about a device that   *)
(* has no row.                                                              *)
THEOREM TypeCorrect == Spec => []TypeOK
  <1>1. Init => TypeOK
    <2> SUFFICES ASSUME Init PROVE TypeOK
      OBVIOUS
    <2>1. /\ now \in 0..MaxTime /\ pairedAt \in [Device -> 0..MaxTime]
          /\ issuedAt \in [Device -> 0..MaxTime \cup {None}]
      BY TimeAssumption DEF Init
    <2>2. /\ expires \in [OneShot -> Nat \cup {None}]
          /\ status \in [Device -> {None, "pending", "approved", "rejected"}]
          /\ req \in [Request -> Work \cup {None}]
          /\ origin \in [Device -> OneShot \cup {None}]
      BY DEF Init
    <2>3. permanent \in BOOLEAN /\ autoApprove \in BOOLEAN
      BY Zenon DEF Init
    <2>4. RequestsAgree
      BY DEF Init, RequestsAgree, At
    <2>5. /\ used = {} /\ revoked = {} /\ subs = {} /\ blessed = {} /\ leftover = {}
      BY DEF Init
    <2> QED
      BY <2>1, <2>2, <2>3, <2>4, <2>5 DEF TypeOK
  <1>2. TypeOK /\ [Next]_vars => TypeOK'
    <2> SUFFICES ASSUME TypeOK, [Next]_vars PROVE TypeOK'
      OBVIOUS
    <2> USE TimeAssumption, SetAssumption DEF TypeOK, cred, rows, ghost
    <2>1. CASE Tick
      <3>1. RequestsAgree'
        BY <2>1 DEF Tick, RequestsAgree, At
      <3> QED
        BY <2>1, <3>1 DEF Tick
    <2>2. ASSUME NEW c \in Code, CreatePairingCode(c) PROVE TypeOK'
      <3>1. RequestsAgree'
        BY <2>2 DEF CreatePairingCode, RequestsAgree, At
      <3> QED
        BY <2>2, <3>1 DEF CreatePairingCode
    <2>3. CASE RotatePermanentKey
      <3>1. ASSUME NEW r \in Request, At(r, "permVerify")
            PROVE  [req[r] EXCEPT !.cred = "superseded"] \in Work
        BY <3>1, AtWork DEF Work
      <3>2. req' \in [Request -> Work \cup {None}]
        BY <2>3, <3>1 DEF RotatePermanentKey
      <3>3. RequestsAgree'
        <4>1. ASSUME NEW r \in Request, At(r, "permVerify")
              PROVE  /\ req'[r] = [req[r] EXCEPT !.cred = "superseded"]
                     /\ req'[r].at = "permVerify"
                     /\ req'[r].cred = "superseded"
          <5>1. req[r] \in Work /\ req[r].at = "permVerify"
            BY <4>1, AtWork
          <5>2. req'[r] = [req[r] EXCEPT !.cred = "superseded"]
            BY <2>3, <4>1 DEF RotatePermanentKey
          <5>3. req'[r].at = "permVerify" /\ req'[r].cred = "superseded"
            BY <5>1, <5>2 DEF Work
          <5> QED
            BY <5>2, <5>3
        <4>2. ASSUME NEW r \in Request, ~At(r, "permVerify") PROVE req'[r] = req[r]
          BY <2>3, <4>2 DEF RotatePermanentKey
        <4>3. status' = status
          BY <2>3 DEF RotatePermanentKey
        <4> QED
          BY <4>1, <4>2, <4>3 DEF RequestsAgree, At
      <3> QED
        BY <2>3, <3>2, <3>3 DEF RotatePermanentKey
    <2>4. ASSUME NEW b \in BOOLEAN, SetAutoApprove(b) PROVE TypeOK'
      <3>1. RequestsAgree'
        BY <2>4 DEF SetAutoApprove, RequestsAgree, At
      <3> QED
        BY <2>4, <3>1 DEF SetAutoApprove
    <2>5. ASSUME NEW d \in Device, Approve(d) \/ Reject(d) \/ DropSubs(d) PROVE TypeOK'
      <3>1. RowsStay /\ req' = req
        BY <2>5 DEF Approve, Reject, DropSubs, RowsStay
      <3>2. RequestsAgree'
        BY <3>1 DEF RequestsAgree, RowsStay, At
      <3>3. status' \in [Device -> {None, "pending", "approved", "rejected"}]
        BY <2>5 DEF Approve, Reject, DropSubs
      <3> QED
        BY <2>5, <3>2, <3>3 DEF Approve, Reject, DropSubs
    <2>6. ASSUME NEW r \in Request, GenerateOtk(r) PROVE TypeOK'
      <3> DEFINE w == [Todo("otkInsert", FALSE, None, None) EXCEPT !.since = now]
      <3>1. w \in Work /\ Suits(w)
        BY DEF Todo, Work, Step, Suits
      <3>2. RowsStay
        BY <2>6 DEF GenerateOtk, RowsStay
      <3>3. req' \in [Request -> Work \cup {None}] /\ RequestsAgree'
        BY <2>6, <3>1, <3>2, BeginTyped DEF GenerateOtk
      <3> QED
        BY <2>6, <3>3 DEF GenerateOtk
    <2>7. ASSUME NEW r \in Request, NEW t \in Token, InsertOtk(r, t) PROVE TypeOK'
      <3>1. RowsStay
        BY <2>7 DEF InsertOtk, RowsStay
      <3>2. req' \in [Request -> Work \cup {None}] /\ RequestsAgree'
        BY <2>7, <3>1, AnswerTyped DEF InsertOtk
      <3>3. req[r].since + OTK_TTL \in Nat
        BY <2>7, AtWork, WorkFields DEF InsertOtk
      <3> QED
        BY <2>7, <3>3, <3>2 DEF InsertOtk
    <2>8. ASSUME NEW r \in Request, NEW c \in OneShot, BeginPairing(r, c) PROVE TypeOK'
      <3> DEFINE w == Todo(IF c \in Code THEN "codeTxn" ELSE "otkTxn", autoApprove, c, None)
      <3>1. w \in Work /\ Suits(w)
        BY DEF Todo, Work, Step, Suits
      <3>2. RowsStay
        BY <2>8 DEF BeginPairing, RowsStay
      <3>3. req' \in [Request -> Work \cup {None}] /\ RequestsAgree'
        BY <2>8, <3>1, <3>2, BeginTyped DEF BeginPairing
      <3> QED
        BY <2>8, <3>3 DEF BeginPairing
    <2>9. ASSUME NEW r \in Request, NEW k \in Key, BeginPermanent(r, k) PROVE TypeOK'
      <3> DEFINE w == Todo("permVerify", autoApprove, k, None)
      <3>1. w \in Work /\ Suits(w)
        BY DEF Todo, Work, Step, Suits
      <3>2. RowsStay
        BY <2>9 DEF BeginPermanent, RowsStay
      <3>3. req' \in [Request -> Work \cup {None}] /\ RequestsAgree'
        BY <2>9, <3>1, <3>2, BeginTyped DEF BeginPermanent
      <3> QED
        BY <2>9, <3>3 DEF BeginPermanent
    <2>10. ASSUME NEW r \in Request, VerifyPermanent(r) PROVE TypeOK'
      <3>1. req[r] \in Work /\ req[r].at = "permVerify" /\ req[r].cred \in Key
        BY <2>10, AtWork DEF VerifyPermanent, RequestsAgree
      <3>2. RowsStay
        BY <2>10 DEF VerifyPermanent, RowsStay
      <3>3. CASE Answer(r)
        BY <2>10, <3>2, <3>3, AnswerTyped DEF VerifyPermanent
      <3>4. CASE Proceed(r, "permTxn")
        <4> DEFINE w == [req[r] EXCEPT !.at = "permTxn"]
        <4>1. w \in Work /\ Suits(w)
          BY <3>1 DEF Work, Step, Suits
        <4>2. req' \in [Request -> Work \cup {None}]
          BY <3>4, <4>1 DEF Proceed
        <4>3. req'[r] = w
          BY <3>4 DEF Proceed
        <4>4. ASSUME NEW q \in Request, q # r PROVE req'[q] = req[q]
          BY <3>4, <4>4 DEF Proceed
        <4>5. RequestsAgree'
          <5> HIDE DEF w
          <5> QED
            BY <3>2, <4>1, <4>3, <4>4 DEF RequestsAgree, Suits, RowsStay, At
        <4> QED
          BY <2>10, <4>2, <4>5 DEF VerifyPermanent
      <3> QED
        BY <2>10, <3>3, <3>4 DEF VerifyPermanent
    <2>11. ASSUME NEW r \in Request, RequestFails(r) PROVE TypeOK'
      <3>1. RowsStay
        BY <2>11 DEF RequestFails, RowsStay
      <3>2. req' \in [Request -> Work \cup {None}] /\ RequestsAgree'
        BY <2>11, <3>1, AnswerTyped DEF RequestFails
      <3> QED
        BY <2>11, <3>2 DEF RequestFails
    <2>12. ASSUME NEW r \in Request, DropRevokedSubs(r) PROVE TypeOK'
      <3>1. RowsStay
        BY <2>12 DEF DropRevokedSubs, RowsStay
      <3>2. req' \in [Request -> Work \cup {None}] /\ RequestsAgree'
        BY <2>12, <3>1, AnswerTyped DEF DropRevokedSubs
      <3> QED
        BY <2>12, <3>2 DEF DropRevokedSubs
    <2>13. ASSUME NEW r \in Request, NEW d \in Device, RevokeDevice(r, d) PROVE TypeOK'
      <3> DEFINE w == Todo("revokeSubs", FALSE, None, d)
      <3>1. w \in Work /\ Suits(w)
        BY <2>13 DEF Todo, Work, Step, Suits, RevokeDevice
      <3>2. RowsStay
        BY <2>13 DEF RevokeDevice, RowsStay
      <3>3. req' \in [Request -> Work \cup {None}] /\ RequestsAgree'
        BY <2>13, <3>1, <3>2, BeginTyped DEF RevokeDevice
      <3> QED
        BY <2>13, <3>3 DEF RevokeDevice
    <2>14. ASSUME NEW r \in Request, NEW d \in Device, BeginSubscribe(r, d) PROVE TypeOK'
      <3> DEFINE w == Todo("subWrite", FALSE, None, d)
      <3>1. w \in Work /\ Suits(w)
        BY <2>14 DEF Todo, Work, Step, Suits, BeginSubscribe, Admitted, CookieAuth, BearerAuth
      <3>2. RowsStay
        BY <2>14 DEF BeginSubscribe, RowsStay
      <3>3. req' \in [Request -> Work \cup {None}] /\ RequestsAgree'
        BY <2>14, <3>1, <3>2, BeginTyped DEF BeginSubscribe
      <3> QED
        BY <2>14, <3>3 DEF BeginSubscribe
    <2>15. ASSUME NEW r \in Request, Subscribe(r) PROVE TypeOK'
      <3>1. RowsStay
        BY <2>15 DEF Subscribe, RowsStay
      <3>2. req' \in [Request -> Work \cup {None}] /\ RequestsAgree'
        BY <2>15, <3>1, AnswerTyped DEF Subscribe
      <3>3. req[r].dev \in Device /\ Known(req[r].dev)
        BY <2>15 DEF Subscribe, RequestsAgree
      <3> QED
        BY <2>15, <3>3, <3>2 DEF Subscribe
    <2>16. ASSUME NEW r \in Request, NEW d \in Device, Arrival(r, d) PROVE TypeOK'
      <3>1. CASE PairWithCode(r, d)
        <4>1. used' \in SUBSET OneShot
          BY <3>1 DEF PairWithCode, RequestsAgree
        <4> QED
          BY <3>1, <4>1, ArrivalTyped DEF PairWithCode
      <3>2. CASE LoginWithOtk(r, d)
        <4>1. used' \in SUBSET OneShot
          BY <3>2 DEF LoginWithOtk, RequestsAgree
        <4> QED
          BY <3>2, <4>1, ArrivalTyped DEF LoginWithOtk
      <3>3. CASE PairWithPermanent(r, d)
        BY <3>3, ArrivalTyped DEF PairWithPermanent
      <3> QED
        BY <2>16, <3>1, <3>2, <3>3 DEF Arrival
    <2>17. ASSUME NEW r \in Request, Sign(r) PROVE TypeOK'
      <3>1. RowsStay
        BY <2>17 DEF Sign, RowsStay
      <3>2. req' \in [Request -> Work \cup {None}] /\ RequestsAgree'
        BY <2>17, <3>1, AnswerTyped DEF Sign
      <3> QED
        BY <2>17, <3>2 DEF Sign
    <2>18. ASSUME NEW r \in Request, KeepRevokedSubs(r) PROVE TypeOK'
      <3>1. RowsStay
        BY <2>18 DEF KeepRevokedSubs, RowsStay
      <3>2. req' \in [Request -> Work \cup {None}] /\ RequestsAgree'
        BY <2>18, <3>1, AnswerTyped DEF KeepRevokedSubs
      <3> QED
        BY <2>18, <3>2 DEF KeepRevokedSubs
    <2>19. CASE UNCHANGED vars
      <3>1. RequestsAgree'
        BY <2>19 DEF vars, RequestsAgree, At
      <3> QED
        BY <2>19, <3>1 DEF vars
    <2> QED
      BY <2>1, <2>2, <2>3, <2>4, <2>5, <2>6, <2>7, <2>8, <2>9, <2>10, <2>11, <2>12,
         <2>13, <2>14, <2>15, <2>16, <2>17, <2>18, <2>19 DEF Next
  <1> QED
    BY <1>1, <1>2, PTL DEF Spec

-----------------------------------------------------------------------------
(* Approval. *)

Consented == \A d \in Device : status[d] = "approved" => d \in blessed

(* Whoever is let in was approved by the operator, or paired under          *)
(* auto-approve, and is in good standing: every way in asks for the         *)
(* approved status, which no step grants without recording the consent.     *)
THEOREM ConsentNeeded == Spec => []NoEntryWithoutConsent
  <1>1. Init => Consented
    BY SetAssumption DEF Init, Consented
  <1>2. TypeOK /\ Consented /\ [Next]_vars => Consented'
    <2> SUFFICES ASSUME TypeOK, Consented, [Next]_vars PROVE Consented'
      OBVIOUS
    <2> USE DEF TypeOK, Consented, rows, ghost
    <2>1. CASE UNCHANGED <<status, blessed>>
      BY <2>1
    <2>2. ASSUME NEW d \in Device, Approve(d) \/ Reject(d) PROVE Consented'
      BY <2>2 DEF Approve, Reject
    <2>3. ASSUME NEW r \in Request, NEW d \in Device, Mint(r, d) PROVE Consented'
      BY <2>3 DEF Mint
    <2> QED
      BY <2>1, <2>2, <2>3 DEF Next, Arrival, Tick, CreatePairingCode, RotatePermanentKey,
         SetAutoApprove, DropSubs, GenerateOtk, InsertOtk, BeginPairing, BeginPermanent,
         VerifyPermanent, Sign, RequestFails, DropRevokedSubs, KeepRevokedSubs, Subscribe, RevokeDevice,
         BeginSubscribe, PairWithCode, LoginWithOtk, PairWithPermanent, vars
  <1>3. TypeOK /\ Consented => NoEntryWithoutConsent
    BY SetAssumption DEF TypeOK, Consented, NoEntryWithoutConsent, Admitted, CookieAuth,
       BearerAuth, standing, StandingAs
  <1> QED
    BY <1>1, <1>2, <1>3, TypeCorrect, PTL DEF Spec

-----------------------------------------------------------------------------
(* Pairing. *)

\* What a device was paired with had been issued, was live then and is spent.
Spent(d) ==
    origin[d] \in OneShot =>
        /\ Issued(origin[d])
        /\ origin[d] \in used
        /\ pairedAt[d] <= expires[origin[d]]
Paired == \A d \in Device : Spent(d)
OneEach == \A d, e \in Device : origin[d] \in OneShot /\ origin[e] = origin[d] => e = d

LEMMA PairingKept ==
    ASSUME TypeOK, Paired, UNCHANGED <<origin, pairedAt>>, used \subseteq used',
           \A c \in OneShot : Issued(c) => expires'[c] = expires[c]
    PROVE  Paired'
  BY DEF TypeOK, Paired, Spent

LEMMA MintPaired ==
    ASSUME TypeOK, Paired, OneEach, NEW r \in Request, NEW d \in Device, Mint(r, d),
           expires' = expires, used \subseteq used', req[r] \in Work,
           req[r].cred \in OneShot =>
               /\ Issued(req[r].cred) /\ req[r].cred \notin used /\ req[r].cred \in used'
               /\ now <= expires[req[r].cred]
    PROVE  Paired' /\ OneEach'
  <1>1. /\ origin'[d] \in OneShot => origin'[d] = req[r].cred
        /\ origin'[d] \in OneShot => pairedAt'[d] = now
    BY SetAssumption DEF TypeOK, Mint
  <1>2. ASSUME NEW e \in Device, e # d
        PROVE  origin'[e] = origin[e] /\ pairedAt'[e] = pairedAt[e]
    BY <1>2 DEF TypeOK, Mint
  <1>3. Paired'
    BY <1>1, <1>2 DEF Paired, Spent
  <1>4. ASSUME NEW e \in Device, e # d, origin'[d] \in OneShot PROVE origin[e] # origin'[d]
    BY <1>1, <1>4 DEF Paired, Spent
  <1>5. OneEach'
    BY <1>2, <1>4 DEF OneEach
  <1> QED
    BY <1>3, <1>5

(* A device was paired within its credential's lifetime and spent it, and   *)
(* no other device came from that credential: the transaction checks and    *)
(* marks it in one step, and nothing issued is issued again.                *)
THEOREM PairingSound == Spec => []PairedInTime
  <1> DEFINE Inv == Paired /\ OneEach
  <1>1. Init => Inv
    BY SetAssumption DEF Init, Paired, OneEach, Spent
  <1>2. TypeOK /\ Inv /\ [Next]_vars => Inv'
    <2> SUFFICES ASSUME TypeOK, Inv, [Next]_vars PROVE Inv'
      OBVIOUS
    <2> USE DEF cred, rows, ghost
    <2>1. CASE UNCHANGED <<origin, pairedAt, used, expires>>
      BY <2>1, PairingKept DEF OneEach
    <2>2. ASSUME NEW c \in Code, CreatePairingCode(c) PROVE Inv'
      <3>1. \A x \in OneShot : Issued(x) => expires'[x] = expires[x]
        BY <2>2 DEF CreatePairingCode, TypeOK
      <3> QED
        BY <2>2, <3>1, PairingKept DEF CreatePairingCode, OneEach
    <2>3. ASSUME NEW r \in Request, GenerateOtk(r) PROVE Inv'
      BY <2>3, PairingKept DEF GenerateOtk, OneEach
    <2>4. ASSUME NEW r \in Request, NEW t \in Token, InsertOtk(r, t) PROVE Inv'
      <3>1. \A x \in OneShot : Issued(x) => expires'[x] = expires[x]
        BY <2>4 DEF InsertOtk, TypeOK
      <3> QED
        BY <2>4, <3>1, PairingKept DEF InsertOtk, OneEach
    <2>5. ASSUME NEW r \in Request, NEW d \in Device, PairWithCode(r, d) PROVE Inv'
      <3>1. req[r] \in Work
        BY <2>5, AtWork DEF PairWithCode
      <3> QED
        BY <2>5, <3>1, MintPaired DEF PairWithCode, CodeValid
    <2>6. ASSUME NEW r \in Request, NEW d \in Device, LoginWithOtk(r, d) PROVE Inv'
      <3>1. req[r] \in Work /\ req[r].cred \in Token
        BY <2>6, AtWork DEF LoginWithOtk, TypeOK, RequestsAgree
      <3>2. now <= expires[req[r].cred]
        <4>1. now \in Nat /\ expires[req[r].cred] \in Nat
          BY <2>6, <3>1, TimeAssumption DEF LoginWithOtk, OtkLive, TypeOK
        <4> QED
          BY <2>6, <4>1 DEF LoginWithOtk, OtkLive
      <3> QED
        BY <2>6, <3>1, <3>2, MintPaired DEF LoginWithOtk, OtkLive
    <2>7. ASSUME NEW r \in Request, NEW d \in Device, PairWithPermanent(r, d) PROVE Inv'
      <3>1. req[r] \in Work /\ req[r].cred \in Key
        BY <2>7, AtWork DEF PairWithPermanent, TypeOK, RequestsAgree
      <3>2. req[r].cred \notin OneShot
        BY <3>1, SetAssumption
      <3> QED
        BY <2>7, <3>1, <3>2, MintPaired DEF PairWithPermanent
    <2> QED
      BY <2>1, <2>2, <2>3, <2>4, <2>5, <2>6, <2>7 DEF Next, Arrival, Tick,
         RotatePermanentKey, SetAutoApprove, DropSubs, Approve, Reject, BeginPairing,
         BeginPermanent, VerifyPermanent, Sign, RequestFails, DropRevokedSubs, KeepRevokedSubs, Subscribe,
         RevokeDevice, BeginSubscribe, vars
  <1>3. Inv => PairedInTime
    BY DEF Paired, OneEach, Spent, PairedInTime
  <1> QED
    BY <1>1, <1>2, <1>3, TypeCorrect, PTL DEF Spec

-----------------------------------------------------------------------------
(* Revocation. *)

\* Some request has still to drop the subscription of a device it revoked.
BeingRevoked(d) == \E r \in Request : At(r, "revokeSubs") /\ req[r].dev = d

LEMMA BeginKeepsRevoking ==
    ASSUME TypeOK, NEW r \in Request, NEW w, Begin(r, w), NEW d, BeingRevoked(d)
    PROVE  BeingRevoked(d)'
  BY DEF TypeOK, BeingRevoked, Begin, At

LEMMA AnswerKeepsRevoking ==
    ASSUME TypeOK, NEW r \in Request, Answer(r), NEW d, BeingRevoked(d),
           ~(At(r, "revokeSubs") /\ req[r].dev = d)
    PROVE  BeingRevoked(d)'
  BY DEF TypeOK, BeingRevoked, Answer, At

(* A revoked device that still has a subscription was revoked between the   *)
(* check and the write of it, the DELETE of it failed since, or its         *)
(* revocation is under way.                                                 *)
THEOREM RevokedLosesSubscription == Spec => []RevokedHoldsNoSubscription
  <1> DEFINE Excused(d) == d \in leftover \/ BeingRevoked(d)
             Inv == \A d \in revoked \cap subs : Excused(d)
  <1>1. Init => Inv
    BY DEF Init
  <1>2. TypeOK /\ Inv /\ [Next]_vars => Inv'
    <2> SUFFICES ASSUME TypeOK, Inv, [Next]_vars, NEW d \in (revoked \cap subs)'
                 PROVE  Excused(d)'
      OBVIOUS
    <2> USE DEF cred, rows, ghost
    <2>1. CASE UNCHANGED <<revoked, subs, leftover, req>>
      BY <2>1 DEF BeingRevoked, At
    <2>2. CASE RotatePermanentKey
      <3>1. BeingRevoked(d) => BeingRevoked(d)'
        BY <2>2 DEF TypeOK, BeingRevoked, RotatePermanentKey, At
      <3> QED
        BY <2>2, <3>1 DEF RotatePermanentKey
    <2>3. ASSUME NEW r \in Request, NEW w, Begin(r, w), UNCHANGED <<revoked, subs, leftover>>
          PROVE  Excused(d)'
      BY <2>3, BeginKeepsRevoking
    <2>4. ASSUME NEW r \in Request, Answer(r), ~At(r, "revokeSubs"),
                 UNCHANGED <<revoked, subs, leftover>>
          PROVE  Excused(d)'
      BY <2>4, AnswerKeepsRevoking
    <2>5. ASSUME NEW r \in Request, VerifyPermanent(r) PROVE Excused(d)'
      <3>1. ~At(r, "revokeSubs")
        BY <2>5 DEF VerifyPermanent, At
      <3>2. CASE Answer(r)
        BY <2>4, <2>5, <3>1, <3>2 DEF VerifyPermanent
      <3>3. CASE Proceed(r, "permTxn")
        <4>1. BeingRevoked(d) => BeingRevoked(d)'
          BY <2>5, <3>1, <3>3 DEF TypeOK, BeingRevoked, Proceed, At
        <4> QED
          BY <2>5, <4>1 DEF VerifyPermanent
      <3> QED
        BY <2>5, <3>2, <3>3 DEF VerifyPermanent
    <2>6. ASSUME NEW r \in Request, NEW e \in Device, RevokeDevice(r, e) PROVE Excused(d)'
      <3>1. CASE d = e
        <4>1. req'[r] = Todo("revokeSubs", FALSE, None, e)
          BY <2>6 DEF RevokeDevice, Begin, TypeOK
        <4>2. req'[r] # None
          <5>1. Todo("revokeSubs", FALSE, None, e) \in Work
            BY TimeAssumption DEF Todo, Work, Step
          <5> QED
            BY <4>1, <5>1, SetAssumption
        <4> QED
          BY <3>1, <4>1, <4>2 DEF BeingRevoked, At, Todo
      <3>2. CASE d # e
        BY <2>6, <3>2, BeginKeepsRevoking DEF RevokeDevice
      <3> QED
        BY <3>1, <3>2
    <2>7. ASSUME NEW r \in Request, DropRevokedSubs(r) PROVE Excused(d)'
      <3>1. d # req[r].dev
        BY <2>7 DEF DropRevokedSubs
      <3> QED
        BY <2>7, <3>1, AnswerKeepsRevoking DEF DropRevokedSubs
    <2>11. ASSUME NEW r \in Request, KeepRevokedSubs(r) PROVE Excused(d)'
      <3>1. CASE d = req[r].dev
        BY <2>11, <3>1 DEF KeepRevokedSubs
      <3>2. CASE d # req[r].dev
        BY <2>11, <3>2, AnswerKeepsRevoking DEF KeepRevokedSubs
      <3> QED
        BY <3>1, <3>2
    <2>8. ASSUME NEW r \in Request, Subscribe(r) PROVE Excused(d)'
      <3>1. ~At(r, "revokeSubs")
        BY <2>8 DEF Subscribe, At
      <3>2. CASE d = req[r].dev
        BY <2>8, <3>2 DEF Subscribe
      <3>3. CASE d # req[r].dev
        BY <2>8, <3>1, <3>3, AnswerKeepsRevoking DEF Subscribe
      <3> QED
        BY <3>2, <3>3
    <2>9. ASSUME NEW e \in Device, DropSubs(e) PROVE Excused(d)'
      BY <2>9 DEF DropSubs, BeingRevoked, At
    <2>10. ASSUME NEW r \in Request, NEW e \in Device, Mint(r, e), ~At(r, "revokeSubs"),
                  subs' = subs
           PROVE  Excused(d)'
      <3>1. BeingRevoked(d) => BeingRevoked(d)'
        BY <2>10 DEF TypeOK, BeingRevoked, Mint, At
      <3> QED
        BY <2>10, <3>1 DEF Mint
    <2>12. ASSUME NEW r \in Request, Sign(r) PROVE Excused(d)'
      <3>1. ~At(r, "revokeSubs")
        BY <2>12 DEF Sign, At
      <3> QED
        BY <2>4, <2>12, <3>1 DEF Sign
    <2> QED
      BY <2>1, <2>2, <2>3, <2>4, <2>5, <2>6, <2>7, <2>8, <2>9, <2>10, <2>11, <2>12 DEF Next, Arrival, Tick,
         CreatePairingCode, SetAutoApprove, Approve, Reject, GenerateOtk, InsertOtk,
         BeginPairing, BeginPermanent, RequestFails, BeginSubscribe, PairWithCode,
         LoginWithOtk, PairWithPermanent, At, vars
  <1>3. Inv => RevokedHoldsNoSubscription
    BY DEF RevokedHoldsNoSubscription, BeingRevoked
  <1> QED
    BY <1>1, <1>2, <1>3, TypeCorrect, PTL DEF Spec

-----------------------------------------------------------------------------
(* Refinement. *)

LEMMA StandingOf ==
    ASSUME TypeOK, NEW d \in Device
    PROVE  /\ standing[d] \in {"unknown", "waiting", "trusted", "refused", "expelled"}
           /\ standing[d] = "unknown" <=> ~Known(d)
           /\ Known(d) /\ d \in revoked <=> standing[d] = "expelled"
  BY SetAssumption DEF TypeOK, standing, StandingAs

LEMMA StandingSame ==
    ASSUME UNCHANGED <<status, revoked>>
    PROVE  standing' = standing
  BY DEF standing

(* A step that changes the standing of one device.                          *)
LEMMA StandingStep ==
    ASSUME NEW d \in Device, NEW as, standing'[d] = as,
           \A e \in Device \ {d} : standing'[e] = standing[e]
    PROVE  standing' = [standing EXCEPT ![d] = as]
  <1>1. /\ standing = [e \in Device |-> standing[e]]
        /\ standing' = [e \in Device |-> standing'[e]]
    BY DEF standing
  <1> QED
    BY <1>1

LEMMA MintArrives ==
    ASSUME TypeOK, NEW r \in Request, NEW d \in Device, Mint(r, d),
           req[r] \in Work, req[r].cred \in Credential, req[r].cred \notin used,
           used' = IF req[r].cred \in OneShot THEN used \cup {req[r].cred} ELSE used
    PROVE  Trust!Next
  <1> DEFINE as == IF req[r].auto THEN "trusted" ELSE "waiting"
  <1>1. status'[d] = IF req[r].auto THEN "approved" ELSE "pending"
    BY DEF TypeOK, Mint
  <1>2. \A e \in Device \ {d} : status'[e] = status[e]
    BY DEF TypeOK, Mint
  <1>3. d \notin revoked /\ revoked' = revoked
    BY DEF TypeOK, Mint
  <1>4. standing'[d] = as
    BY <1>1, <1>3, SetAssumption DEF standing, StandingAs
  <1>5. \A e \in Device \ {d} : standing'[e] = standing[e]
    BY <1>2, <1>3 DEF standing
  <1>6. standing' = [standing EXCEPT ![d] = as]
    BY <1>4, <1>5, StandingStep
  <1>7. standing[d] = "unknown"
    BY StandingOf DEF Mint
  <1>8. as \in {"waiting", "trusted"}
    OBVIOUS
  <1>9. Trust!Arrive(d, req[r].cred, as)
    BY <1>6, <1>7 DEF Trust!Arrive
  <1> HIDE DEF as
  <1> QED
    BY <1>8, <1>9 DEF Trust!Next

(* The detailed protocol keeps the promise of DeviceTrust: every step is    *)
(* one of its steps or changes neither a standing nor what is spent.  A     *)
(* decision on a device already revoked is such a stutter.                  *)
THEOREM Refinement == Spec => Implements
  <1>1. Init => Trust!Init
    BY SetAssumption DEF Init, Trust!Init, standing, StandingAs
  <1>2. TypeOK /\ [Next]_vars => [Trust!Next]_Trust!vars
    <2> SUFFICES ASSUME TypeOK, [Next]_vars
                 PROVE  Trust!Next \/ UNCHANGED <<standing, used>>
      BY DEF Trust!vars
    <2> USE DEF cred, rows, ghost
    <2>1. CASE UNCHANGED <<status, revoked, used>>
      BY <2>1, StandingSame
    <2>2. ASSUME NEW d \in Device, Approve(d) \/ Reject(d)
          PROVE  Trust!Next \/ UNCHANGED <<standing, used>>
      <3>1. /\ status'[d] \in {"approved", "rejected"}
            /\ \A e \in Device \ {d} : status'[e] = status[e]
            /\ UNCHANGED <<revoked, used>> /\ Known(d)
        BY <2>2 DEF Approve, Reject, TypeOK
      <3>2. \A e \in Device \ {d} : standing'[e] = standing[e]
        BY <3>1 DEF standing
      <3>3. CASE d \in revoked
        <4>1. standing'[d] = standing[d]
          BY <3>1, <3>3, SetAssumption DEF standing
        <4> QED
          BY <3>1, <3>2, <4>1 DEF standing
      <3>4. CASE d \notin revoked
        <4> DEFINE as == IF status'[d] = "approved" THEN "trusted" ELSE "refused"
        <4>1. standing'[d] = as
          BY <3>1, <3>4, SetAssumption DEF standing, StandingAs
        <4>2. standing' = [standing EXCEPT ![d] = as]
          BY <3>2, <4>1, StandingStep
        <4>3. standing[d] \in {"waiting", "trusted", "refused"}
          BY <3>1, <3>4, StandingOf
        <4>4. Trust!Judge(d, as) /\ as \in {"trusted", "refused"}
          BY <3>1, <4>2, <4>3 DEF Trust!Judge
        <4> HIDE DEF as
        <4> QED
          BY <4>4 DEF Trust!Next
      <3> QED
        BY <3>3, <3>4
    <2>3. ASSUME NEW r \in Request, NEW d \in Device, RevokeDevice(r, d)
          PROVE  Trust!Next
      <3>1. status' = status /\ revoked' = revoked \cup {d} /\ used' = used /\ Known(d)
        BY <2>3 DEF RevokeDevice
      <3>2. standing'[d] = "expelled"
        BY <3>1 DEF standing
      <3>3. \A e \in Device \ {d} : standing'[e] = standing[e]
        BY <3>1 DEF standing
      <3>4. standing' = [standing EXCEPT ![d] = "expelled"]
        BY <3>2, <3>3, StandingStep
      <3>5. standing[d] # "unknown"
        BY <3>1, StandingOf
      <3>6. Trust!Expel(d)
        BY <3>1, <3>4, <3>5 DEF Trust!Expel
      <3> QED
        BY <3>6 DEF Trust!Next
    <2>4. ASSUME NEW r \in Request, GenerateOtk(r) PROVE Trust!Next
      <3>1. used' \in SUBSET OneShot /\ used \subseteq used' /\ standing' = standing
        BY <2>4, StandingSame DEF GenerateOtk, TypeOK
      <3> QED
        BY <3>1 DEF Trust!Next, Trust!Obsolete
    <2>5. ASSUME NEW r \in Request, NEW d \in Device, Arrival(r, d) PROVE Trust!Next
      <3>1. CASE PairWithCode(r, d)
        <4>1. req[r] \in Work /\ req[r].cred \in Code
          BY <3>1, AtWork DEF PairWithCode, TypeOK, RequestsAgree
        <4> QED
          BY <3>1, <4>1, MintArrives DEF PairWithCode, CodeValid
      <3>2. CASE LoginWithOtk(r, d)
        <4>1. req[r] \in Work /\ req[r].cred \in Token
          BY <3>2, AtWork DEF LoginWithOtk, TypeOK, RequestsAgree
        <4> QED
          BY <3>2, <4>1, MintArrives DEF LoginWithOtk, OtkLive
      <3>3. CASE PairWithPermanent(r, d)
        <4>1. req[r] \in Work /\ req[r].cred \in Key
          BY <3>3, AtWork DEF PairWithPermanent, TypeOK, RequestsAgree
        <4>2. req[r].cred \notin OneShot
          BY <4>1, SetAssumption
        <4> QED
          BY <3>3, <4>1, <4>2, MintArrives DEF PairWithPermanent, TypeOK
      <3> QED
        BY <2>5, <3>1, <3>2, <3>3 DEF Arrival
    <2> QED
      BY <2>1, <2>2, <2>3, <2>4, <2>5 DEF Next, Tick, CreatePairingCode,
         RotatePermanentKey, SetAutoApprove, DropSubs, InsertOtk, BeginPairing,
         BeginPermanent, VerifyPermanent, Sign, RequestFails, DropRevokedSubs, KeepRevokedSubs, Subscribe,
         BeginSubscribe, vars
  <1> QED
    BY <1>1, <1>2, TypeCorrect, PTL DEF Spec, Implements, Trust!Spec

(* Downloads.  The parts of a range, as parse_range reads it.               *)
LEMMA RangeParsed ==
    ASSUME NEW size \in Nat, NEW r \in Bytes!Range
    PROVE  /\ r.form = "suffix" /\ (r.a = 0 \/ size = 0) => Bytes!ParseRange(r, size) = <<>>
           /\ r.form = "suffix" /\ r.a # 0 /\ size # 0 =>
                Bytes!ParseRange(r, size) = <<IF size < r.a THEN 0 ELSE size - r.a, size - 1>>
           /\ r.form = "open" => Bytes!ParseRange(r, size) = <<r.a, MaxSize + 3>>
           /\ r.form = "closed" => Bytes!ParseRange(r, size) = <<r.a, r.b>>
  <1>1. r.form \in {"closed", "open", "suffix"} /\ r.a \in Int /\ r.b \in Int
    BY BytesAssumption DEF Bytes!Range, Bytes!Number, Bytes!RangeAssumption
  <1>2. CASE r.form = "suffix"
    BY <1>1, <1>2 DEF Bytes!ParseRange, Bytes!Lower, Bytes!Nothing
  <1>3. CASE r.form = "open"
    BY <1>1, <1>3 DEF Bytes!ParseRange, Bytes!Open
  <1>4. CASE r.form = "closed"
    BY <1>1, <1>4 DEF Bytes!ParseRange
  <1> QED
    BY <1>1, <1>2, <1>3, <1>4

BytesInv ==
    /\ total \in 0..MaxSize /\ ask \in Bytes!Range /\ Bytes!TypeOK
    /\ Bytes!NamedBytesAreSent

LEMMA NamedBy ==
    ASSUME total \in 0..MaxSize, ask \in Bytes!Range
    PROVE  /\ ask.form = "suffix" => Bytes!Named = {i \in 0..(total - 1) : i + ask.a >= total}
           /\ ask.form = "open" => Bytes!Named = {i \in 0..(total - 1) : i >= ask.a}
           /\ ask.form = "closed" => Bytes!Named = {i \in 0..(total - 1) : i >= ask.a /\ i <= ask.b}
  BY DEF Bytes!Named

LEMMA DownloadAnswers ==
    ASSUME BytesInv, Bytes!Download
    PROVE  BytesInv'
  <1> USE BytesAssumption DEF Bytes!RangeAssumption
  <1>1. total \in 0..MaxSize /\ total' = total /\ ask \in Bytes!Range /\ ask' = ask
    BY DEF BytesInv, Bytes!Download
  <1>2. /\ ask.form \in {"closed", "open", "suffix"} /\ ask.a \in Nat /\ ask.b \in Nat
        /\ total \in Nat /\ MaxSize \in Nat
    BY <1>1 DEF Bytes!Range, Bytes!Number
  <1>3. Bytes!Named' = Bytes!Named
    BY <1>1 DEF Bytes!Named
  <1> DEFINE p == Bytes!ParseRange(ask, total)
             last == Bytes!Lower(p[2], total - 1)
  <1>4. answer' = IF p = <<>> THEN [status |-> 200, first |-> 0, last |-> total]
                  ELSE IF total = 0 \/ p[1] >= total \/ last < p[1]
                       THEN [status |-> 416, first |-> 0, last |-> 0]
                       ELSE [status |-> 206, first |-> p[1], last |-> last]
    BY DEF Bytes!Download, Bytes!Nothing
  <1>5. CASE ask.form = "suffix"
    <2>1. Bytes!Named = {i \in 0..(total - 1) : i + ask.a >= total}
      BY <1>1, <1>5, NamedBy
    <2>2. CASE ask.a = 0 \/ total = 0
      <3>1. answer' = [status |-> 200, first |-> 0, last |-> total]
        BY <1>1, <1>2, <1>4, <1>5, <2>2, RangeParsed
      <3>2. Bytes!Named = {}
        BY <1>2, <2>1, <2>2
      <3> QED
        BY <1>1, <1>3, <3>1, <3>2 DEF BytesInv, Bytes!TypeOK, Bytes!NamedBytesAreSent
    <2>3. CASE ask.a # 0 /\ total # 0
      <3> DEFINE f == IF total < ask.a THEN 0 ELSE total - ask.a
      <3>1. p = <<f, total - 1>>
        BY <1>1, <1>2, <1>5, <2>3, RangeParsed
      <3>2. p # <<>> /\ p[1] = f /\ p[2] = total - 1 /\ f \in Nat /\ f < total
        BY <1>2, <2>3, <3>1
      <3>3. last = total - 1
        BY <1>2, <3>2 DEF Bytes!Lower
      <3> HIDE DEF p, last
      <3>4. answer' = [status |-> 206, first |-> f, last |-> total - 1]
        BY <1>2, <1>4, <2>3, <3>2, <3>3
      <3>5. Bytes!Named = f..(total - 1) /\ f \in Bytes!Named
        BY <1>2, <2>1, <3>2
      <3> QED
        BY <1>1, <1>2, <1>3, <3>2, <3>4, <3>5 DEF BytesInv, Bytes!TypeOK, Bytes!NamedBytesAreSent
    <2> QED
      BY <2>2, <2>3
  <1>6. CASE ask.form = "open"
    <2>1. Bytes!Named = {i \in 0..(total - 1) : i >= ask.a}
      BY <1>1, <1>6, NamedBy
    <2>2. p = <<ask.a, MaxSize + 3>>
      BY <1>1, <1>2, <1>6, RangeParsed
    <2>3. p # <<>> /\ p[1] = ask.a /\ p[2] = MaxSize + 3
      BY <2>2
    <2>4. last = total - 1
      BY <1>1, <1>2, <2>3 DEF Bytes!Lower
    <2> HIDE DEF p, last
    <2>5. CASE total = 0 \/ ask.a >= total
      <3>1. answer' = [status |-> 416, first |-> 0, last |-> 0]
        BY <1>2, <1>4, <2>3, <2>4, <2>5
      <3>2. Bytes!Named = {}
        BY <1>2, <2>1, <2>5
      <3> QED
        BY <1>1, <1>2, <1>3, <3>1, <3>2 DEF BytesInv, Bytes!TypeOK, Bytes!NamedBytesAreSent
    <2>6. CASE total # 0 /\ ask.a < total
      <3>1. answer' = [status |-> 206, first |-> ask.a, last |-> total - 1]
        BY <1>2, <1>4, <2>3, <2>4, <2>6
      <3>2. Bytes!Named = ask.a..(total - 1) /\ ask.a \in Bytes!Named
        BY <1>2, <2>1, <2>6
      <3> QED
        BY <1>1, <1>2, <1>3, <2>6, <3>1, <3>2 DEF BytesInv, Bytes!TypeOK, Bytes!NamedBytesAreSent
    <2> QED
      BY <1>2, <2>5, <2>6
  <1>7. CASE ask.form = "closed"
    <2>1. Bytes!Named = {i \in 0..(total - 1) : i >= ask.a /\ i <= ask.b}
      BY <1>1, <1>7, NamedBy
    <2>2. p = <<ask.a, ask.b>>
      BY <1>1, <1>2, <1>7, RangeParsed
    <2>3. p # <<>> /\ p[1] = ask.a /\ p[2] = ask.b
      BY <2>2
    <2>4. last = IF ask.b < total - 1 THEN ask.b ELSE total - 1
      BY <1>1, <1>2, <2>3 DEF Bytes!Lower
    <2> HIDE DEF p, last
    <2>5. CASE total = 0 \/ ask.a >= total \/ last < ask.a
      <3>1. answer' = [status |-> 416, first |-> 0, last |-> 0]
        BY <1>2, <1>4, <2>3, <2>5
      <3>2. Bytes!Named = {}
        BY <1>2, <2>1, <2>4, <2>5
      <3> QED
        BY <1>1, <1>2, <1>3, <3>1, <3>2 DEF BytesInv, Bytes!TypeOK, Bytes!NamedBytesAreSent
    <2>6. CASE total # 0 /\ ask.a < total /\ last >= ask.a
      <3>1. answer' = [status |-> 206, first |-> ask.a, last |-> last]
        BY <1>2, <1>4, <2>3, <2>4, <2>6
      <3>2. Bytes!Named = ask.a..last /\ ask.a \in Bytes!Named /\ last \in 0..MaxSize
        BY <1>1, <1>2, <2>1, <2>4, <2>6
      <3> QED
        BY <1>1, <1>2, <1>3, <2>6, <3>1, <3>2 DEF BytesInv, Bytes!TypeOK, Bytes!NamedBytesAreSent
    <2> QED
      BY <1>2, <2>4, <2>5, <2>6
  <1> QED
    BY <1>2, <1>5, <1>6, <1>7

LEMMA BytesAsked ==
    ASSUME Bytes!Init
    PROVE  BytesInv
  BY BytesAssumption DEF Bytes!Init, Bytes!RangeAssumption, Bytes!Unanswered, BytesInv, Bytes!TypeOK,
     Bytes!NamedBytesAreSent

(***************************************************************************)
(* Workspace files.  Whoever changes what is at a name runs on that name,   *)
(* so that whatever another running request has found out about it is void *)
(* only where the two overlapped; and what a client has read is either still*)
(* there or of an earlier second than whatever has come since.              *)
(***************************************************************************)

(* Names that two requests have in common, one of them a change, are close. *)
Overlaps ==
  \A r, p \in Files!Running : \A n \in Files!Names(r) \cap Files!Names(p) :
    r # p /\ (Files!Mutates(r) \/ Files!Mutates(p)) => n \in close

(* A file comes from a request that has put it there; one that is still being *)
(* filled is under its own name, or where requests overlapped.              *)
Origins ==
  /\ \A n \in Files!Name, r \in Files!Call :
       dir[n].who = r => /\ fileReq[r].step \in {"half", "ok", "refused"}
                         /\ fileReq[r].step = "half" => n = fileReq[r].name \/ n \in close
  /\ \A r \in Files!Call :
       fileReq[r].step = "half" => fileReq[r].kind \in {"write", "save"} /\ fileReq[r].to = fileReq[r].name

(* A client that has read a file has read what is there, or something of an *)
(* earlier second that is no more.                                          *)
ReadStands(k) ==
  IF dir[k.name] = k.file THEN fileReq[k.file.who].step # "half"
  ELSE k.file.mtime < second /\ (Files!Exists(k.name) => dir[k.name].mtime # k.file.mtime)
Read ==
  \A k \in known :
    /\ k.file.who # 0 /\ fileReq[k.file.who].step \in {"half", "ok", "refused"}
    /\ k.name \notin close => ReadStands(k)

(* What a request has found out still holds, where no other came between.   *)
Holds(r) ==
  /\ fileReq[r].kind \in {"create", "rename", "upload"} => ~Files!Exists(fileReq[r].to)
  /\ fileReq[r].kind = "save" /\ Files!Exists(fileReq[r].to) => dir[fileReq[r].to] = fileReq[r].base
  /\ fileReq[r].kind = "read" => dir[fileReq[r].to] = fileReq[r].saw
Found ==
  \A r \in Files!Call : fileReq[r].step = "checked" /\ fileReq[r].to \notin close => Holds(r)

ShapeOf(r) ==
  /\ fileReq[r].kind \in {"read", "write", "save", "create", "delete"} => fileReq[r].name = fileReq[r].to
  /\ fileReq[r].kind = "rename" => fileReq[r].name # fileReq[r].to
  /\ fileReq[r].kind = "save" => [name |-> fileReq[r].name, file |-> fileReq[r].base] \in known
  /\ fileReq[r].kind = "read" /\ fileReq[r].step = "checked" => fileReq[r].saw.who # 0
Shape == \A r \in Files!Call : fileReq[r].step # "new" => ShapeOf(r)

Times == \A n \in Files!Name : dir[n].mtime <= second

FilesInv ==
  /\ Files!TypeOK /\ Overlaps /\ Origins /\ Read /\ Found /\ Shape /\ Times
  /\ Files!LossNeedsARace /\ Files!PartsAreAccounted

FileKind == {"none", "read", "write", "save", "create", "rename", "delete", "upload"}
FileStep == {"new", "begun", "checked", "half", "ok", "refused", "gone"}
FileRequest == [kind : FileKind, name : Files!Name, to : Files!Name, base : Files!File,
                saw : Files!File, step : FileStep]

LEMMA FilesTyped ==
    Files!TypeOK <=>
      /\ dir \in [Files!Name -> Files!File] /\ parts \subseteq Files!Call /\ second \in 0..MaxSecond
      /\ fileReq \in [Files!Call -> FileRequest]
      /\ known \subseteq [name : Files!Name, file : Files!File]
      /\ close \subseteq Files!Name /\ lost \subseteq Files!Name
  BY DEF Files!TypeOK, FileRequest, FileKind, FileStep

LEMMA RequestFields ==
    ASSUME NEW q \in FileRequest
    PROVE  /\ q.kind \in FileKind /\ q.name \in Files!Name /\ q.to \in Files!Name
           /\ q.base \in Files!File /\ q.saw \in Files!File /\ q.step \in FileStep
  BY DEF FileRequest

LEMMA FileFields ==
    ASSUME NEW f \in Files!File
    PROVE  f.who \in 0..MaxReq /\ f.whole \in BOOLEAN /\ f.mtime \in 0..MaxSecond
  BY DEF Files!File

LEMMA WhoRuns ==
    ASSUME Files!TypeOK, NEW r \in Files!Call
    PROVE  /\ r \in Files!Running <=> fileReq[r].step \in {"begun", "checked", "half"}
           /\ fileReq[r].kind \in FileKind /\ fileReq[r].step \in FileStep
           /\ fileReq[r].name \in Files!Name /\ fileReq[r].to \in Files!Name
  BY FilesTyped, RequestFields DEF Files!Running, FileStep

(* Request r goes on; the others stay, and no name ceases to be close.       *)
Advances(r) ==
  /\ r \in Files!Running
  /\ \A q \in Files!Call \ {r} : fileReq'[q] = fileReq[q]
  /\ fileReq'[r].kind = fileReq[r].kind /\ fileReq'[r].name = fileReq[r].name
  /\ fileReq'[r].to = fileReq[r].to /\ fileReq'[r].base = fileReq[r].base
  /\ close \subseteq close'

LEMMA StepTaken ==
    ASSUME Files!TypeOK, NEW r \in Files!Running, NEW s \in FileStep, Files!Step(r, s),
           close \subseteq close'
    PROVE  /\ fileReq' \in [Files!Call -> FileRequest]
           /\ fileReq'[r].step = s /\ fileReq'[r].saw = fileReq[r].saw /\ Advances(r)
  <1>1. r \in Files!Call /\ fileReq[r] \in FileRequest /\ fileReq \in [Files!Call -> FileRequest]
    BY FilesTyped DEF Files!Running
  <1>2. fileReq' = [fileReq EXCEPT ![r] = [fileReq[r] EXCEPT !.step = s]]
    BY DEF Files!Step
  <1>3. [fileReq[r] EXCEPT !.step = s] \in FileRequest
    BY <1>1 DEF FileRequest
  <1>4. /\ [fileReq[r] EXCEPT !.step = s].kind = fileReq[r].kind
        /\ [fileReq[r] EXCEPT !.step = s].name = fileReq[r].name
        /\ [fileReq[r] EXCEPT !.step = s].to = fileReq[r].to
        /\ [fileReq[r] EXCEPT !.step = s].base = fileReq[r].base
        /\ [fileReq[r] EXCEPT !.step = s].saw = fileReq[r].saw
        /\ [fileReq[r] EXCEPT !.step = s].step = s
    BY <1>1 DEF FileRequest
  <1>5. fileReq'[r] = [fileReq[r] EXCEPT !.step = s] /\ \A q \in Files!Call \ {r} : fileReq'[q] = fileReq[q]
    BY <1>1, <1>2
  <1> QED
    BY <1>1, <1>2, <1>3, <1>4, <1>5 DEF Advances

LEMMA OverlapsStay ==
    ASSUME Files!TypeOK, Files!TypeOK', Overlaps, NEW r, Advances(r)
    PROVE  Overlaps'
  <1> SUFFICES ASSUME NEW q \in Files!Running', NEW p \in Files!Running', q # p,
                      NEW n \in (Files!Names(q) \cap Files!Names(p))',
                      (Files!Mutates(q) \/ Files!Mutates(p))'
               PROVE  n \in close'
    BY DEF Overlaps
  <1>0. Files!Call' = Files!Call /\ q \in Files!Call /\ p \in Files!Call /\ r \in Files!Call
    BY DEF Files!Call, Files!Running, Advances
  <1>1. ASSUME NEW c \in Files!Call
        PROVE  /\ c \in Files!Running' => c \in Files!Running
               /\ Files!Names(c)' = Files!Names(c) /\ (Files!Mutates(c)' <=> Files!Mutates(c))
    <2>1. CASE c = r
      BY <2>1 DEF Advances, Files!Names, Files!Mutates
    <2>2. CASE c # r
      <3>1. fileReq'[c] = fileReq[c]
        BY <2>2 DEF Advances
      <3> QED
        BY <1>0, <3>1 DEF Files!Running, Files!Names, Files!Mutates
    <2> QED
      BY <2>1, <2>2
  <1>2. n \in Files!Names(q) \cap Files!Names(p) /\ (Files!Mutates(q) \/ Files!Mutates(p))
    BY <1>0, <1>1
  <1> QED
    BY <1>0, <1>1, <1>2 DEF Overlaps, Advances

(* A step of request r that changes neither the directory nor what clients   *)
(* know.                                                                     *)
LEMMA DirectoryStays ==
    ASSUME FilesInv, NEW r, Advances(r), UNCHANGED <<dir, known, second, lost>>,
           close' \subseteq Files!Name, parts' \subseteq parts,
           fileReq' \in [Files!Call -> FileRequest],
           fileReq'[r].step \in {"checked", "refused", "gone"},
           fileReq[r].kind = "read" /\ fileReq'[r].step = "checked" => fileReq'[r].saw.who # 0,
           fileReq'[r].step = "checked" /\ fileReq[r].to \notin close' => Holds(r)',
           fileReq[r].step = "half" => fileReq'[r].step = "refused",
           r \in parts' => fileReq'[r].step = "gone"
    PROVE  FilesInv'
  <1>0. r \in Files!Call /\ Files!Call' = Files!Call /\ Files!Name' = Files!Name
    BY DEF Advances, Files!Running, Files!Call, Files!Name
  <1>1. Files!TypeOK'
    BY <1>0, FilesTyped DEF FilesInv, Files!TypeOK, FileRequest, FileKind, FileStep
  <1>2. Overlaps'
    BY <1>1, OverlapsStay DEF FilesInv
  <1>3. Origins'
    BY <1>0, WhoRuns DEF FilesInv, Origins, Advances
  <1>4. Read'
    <2> SUFFICES ASSUME NEW k \in known
                 PROVE  /\ k.file.who # 0 /\ fileReq'[k.file.who].step \in {"half", "ok", "refused"}
                        /\ k.name \notin close' => ReadStands(k)'
      BY DEF Read
    <2>1. k.file.who # 0 /\ fileReq[k.file.who].step \in {"half", "ok", "refused"} /\ k.file.who \in Files!Call
      BY FilesTyped, FileFields DEF FilesInv, Read, Files!Call
    <2>2. /\ fileReq'[k.file.who].step \in {"half", "ok", "refused"}
          /\ fileReq'[k.file.who].step = "half" => fileReq[k.file.who].step = "half"
      <3>1. CASE k.file.who = r
        BY <1>0, <2>1, <3>1, WhoRuns DEF FilesInv, Advances
      <3>2. CASE k.file.who # r
        BY <2>1, <3>2 DEF Advances
      <3> QED
        BY <3>1, <3>2
    <2> QED
      BY <2>1, <2>2 DEF FilesInv, Read, ReadStands, Advances, Files!Exists
  <1>5. Found'
    <2> SUFFICES ASSUME NEW q \in Files!Call, fileReq'[q].step = "checked", fileReq'[q].to \notin close'
                 PROVE  Holds(q)'
      BY <1>0 DEF Found
    <2>1. CASE q = r
      BY <2>1 DEF Advances
    <2>2. CASE q # r
      BY <2>2 DEF FilesInv, Found, Holds, Advances, Files!Exists
    <2> QED
      BY <2>1, <2>2
  <1>6. Shape'
    BY <1>0 DEF FilesInv, Shape, ShapeOf, Advances, Files!Running
  <1>7. Times' /\ Files!LossNeedsARace'
    BY <1>0 DEF FilesInv, Times, Files!LossNeedsARace, Advances
  <1>8. Files!PartsAreAccounted'
    BY <1>0, FilesTyped DEF FilesInv, Files!PartsAreAccounted, Advances
  <1> QED
    BY <1>1, <1>2, <1>3, <1>4, <1>5, <1>6, <1>7, <1>8 DEF FilesInv

LEMMA Refusal ==
    ASSUME FilesInv, NEW r \in Files!Running, Files!Step(r, "refused"),
           UNCHANGED <<dir, known, second, close, lost>>, parts' \subseteq parts, r \notin parts'
    PROVE  FilesInv'
  <1>1. /\ fileReq' \in [Files!Call -> FileRequest]
        /\ fileReq'[r].step = "refused" /\ Advances(r)
    BY StepTaken DEF FilesInv, FileStep
  <1>2. close' \subseteq Files!Name
    BY FilesTyped DEF FilesInv
  <1> QED
    BY <1>1, <1>2, DirectoryStays

LEMMA NoPart ==
    ASSUME FilesInv, NEW r, fileReq[r].kind # "upload" \/ fileReq[r].step \notin {"checked", "gone"}
    PROVE  r \notin parts
  BY DEF FilesInv, Files!PartsAreAccounted

LEMMA AtRuns ==
    ASSUME NEW r \in Files!Call, NEW kind, NEW step \in {"begun", "checked", "half"}, Files!At(r, kind, step)
    PROVE  r \in Files!Running /\ fileReq[r].kind = kind /\ fileReq[r].step = step
  BY DEF Files!At, Files!Running

LEMMA ReadMetaKeeps ==
    ASSUME FilesInv, NEW r \in Files!Call, Files!ReadMeta(r)
    PROVE  FilesInv'
  <1>1. r \in Files!Running /\ fileReq[r].kind = "read" /\ fileReq[r].step = "begun"
    BY AtRuns DEF Files!ReadMeta
  <1>2. UNCHANGED <<dir, parts, known, second, close, lost>> /\ r \notin parts
    BY <1>1, NoPart DEF Files!ReadMeta
  <1>3. CASE Files!Exists(fileReq[r].name)
    <2>1. fileReq[r] \in FileRequest /\ fileReq \in [Files!Call -> FileRequest]
      BY FilesTyped DEF FilesInv
    <2>2. dir[fileReq[r].name] \in Files!File
      BY <2>1, FilesTyped, RequestFields DEF FilesInv
    <2> DEFINE q == [fileReq[r] EXCEPT !.saw = dir[fileReq[r].name], !.step = "checked"]
    <2>3. /\ q \in FileRequest
          /\ q.kind = fileReq[r].kind /\ q.name = fileReq[r].name /\ q.to = fileReq[r].to
          /\ q.base = fileReq[r].base /\ q.saw = dir[fileReq[r].name] /\ q.step = "checked"
      BY <2>1, <2>2 DEF FileRequest, FileStep
    <2>4. fileReq' = [fileReq EXCEPT ![r] = q]
      BY <1>3, <2>1 DEF Files!ReadMeta
    <2> HIDE DEF q
    <2>5. fileReq'[r] = q /\ fileReq' \in [Files!Call -> FileRequest]
          /\ \A c \in Files!Call \ {r} : fileReq'[c] = fileReq[c]
      BY <2>1, <2>3, <2>4
    <2>6. Advances(r)
      BY <1>1, <1>2, <2>3, <2>5 DEF Advances
    <2>7. fileReq[r].name = fileReq[r].to
      BY <1>1 DEF FilesInv, Shape, ShapeOf
    <2>8. Holds(r)'
      BY <1>1, <1>2, <2>3, <2>5, <2>7 DEF Holds
    <2>9. close' \subseteq Files!Name /\ fileReq'[r].saw.who # 0
      BY <1>2, <1>3, <2>3, <2>5, FilesTyped DEF FilesInv, Files!Exists
    <2> QED
      BY <1>1, <1>2, <2>3, <2>5, <2>6, <2>8, <2>9, DirectoryStays
  <1>4. CASE ~Files!Exists(fileReq[r].name)
    BY <1>1, <1>2, <1>4, Refusal DEF Files!ReadMeta
  <1> QED
    BY <1>3, <1>4

(* A step to "checked" whose finding holds.                                  *)
LEMMA Checked ==
    ASSUME FilesInv, NEW r \in Files!Running, fileReq[r].step = "begun",
           fileReq[r].kind \in {"write", "save", "create", "rename"},
           Files!Step(r, "checked"), UNCHANGED <<dir, parts, known, second, close, lost>>,
           fileReq[r].to \notin close => Holds(r)
    PROVE  FilesInv'
  <1>1. /\ fileReq' \in [Files!Call -> FileRequest] /\ fileReq'[r].step = "checked"
        /\ fileReq'[r].saw = fileReq[r].saw /\ Advances(r)
    BY StepTaken DEF FilesInv, FileStep
  <1>2. close' \subseteq Files!Name /\ r \notin parts
    BY FilesTyped, NoPart DEF FilesInv
  <1>3. fileReq[r].to \notin close' => Holds(r)'
    BY <1>1 DEF Holds, Advances, Files!Exists
  <1> QED
    BY <1>1, <1>2, <1>3, DirectoryStays

LEMMA WriteCheckKeeps ==
    ASSUME FilesInv, NEW r \in Files!Call, Files!WriteCheck(r)
    PROVE  FilesInv'
  <1>1. r \in Files!Running /\ fileReq[r].kind \in {"write", "save"} /\ fileReq[r].step = "begun"
    BY AtRuns DEF Files!WriteCheck
  <1>2. UNCHANGED <<dir, parts, known, second, close, lost>> /\ r \notin parts
    BY <1>1, NoPart DEF Files!WriteCheck
  <1> DEFINE f == dir[fileReq[r].name]
             stale == fileReq[r].kind = "save" /\ f.who # 0 /\ f.mtime # fileReq[r].base.mtime
  <1>3. CASE stale
    <2>1. Files!Step(r, "refused")
      BY <1>3 DEF Files!WriteCheck
    <2> QED
      BY <1>1, <1>2, <2>1, Refusal
  <1>4. CASE ~stale
    <2>1. Files!Step(r, "checked")
      BY <1>4 DEF Files!WriteCheck
    <2>2. ASSUME fileReq[r].to \notin close PROVE Holds(r)
      <3>1. fileReq[r].name = fileReq[r].to
        BY <1>1 DEF FilesInv, Shape, ShapeOf
      <3>2. CASE fileReq[r].kind = "save" /\ Files!Exists(fileReq[r].to)
        <4> DEFINE k == [name |-> fileReq[r].name, file |-> fileReq[r].base]
        <4>1. k \in known /\ k.name = fileReq[r].to /\ k.file = fileReq[r].base
          BY <1>1, <3>1, <3>2 DEF FilesInv, Shape, ShapeOf
        <4>2. ReadStands(k)
          BY <2>2, <4>1 DEF FilesInv, Read
        <4>3. dir[fileReq[r].to].mtime = fileReq[r].base.mtime
          BY <1>4, <3>1, <3>2 DEF Files!Exists
        <4> QED
          BY <3>2, <4>1, <4>2, <4>3 DEF ReadStands, Holds
      <3> QED
        BY <1>1, <3>2 DEF Holds
    <2> QED
      BY <1>1, <1>2, <2>1, <2>2, Checked
  <1> QED
    BY <1>3, <1>4

LEMMA DestinationFreeKeeps ==
    ASSUME FilesInv, NEW r \in Files!Call, Files!DestinationFree(r)
    PROVE  FilesInv'
  <1>1. r \in Files!Running /\ fileReq[r].kind \in {"create", "rename"} /\ fileReq[r].step = "begun"
    BY AtRuns DEF Files!DestinationFree
  <1>2. UNCHANGED <<dir, parts, known, second, close, lost>> /\ r \notin parts
    BY <1>1, NoPart DEF Files!DestinationFree
  <1>3. CASE Files!Step(r, "refused")
    BY <1>1, <1>2, <1>3, Refusal
  <1>4. CASE Files!Step(r, "checked") /\ ~Files!Exists(fileReq[r].to)
    BY <1>1, <1>2, <1>4, Checked DEF Holds
  <1> QED
    BY <1>3, <1>4 DEF Files!DestinationFree

LEMMA UploadEndsKeeps ==
    ASSUME FilesInv, NEW r \in Files!Call, Files!UploadFails(r) \/ Files!ClientLeaves(r)
    PROVE  FilesInv'
  <1>1. r \in Files!Running /\ fileReq[r].kind = "upload" /\ fileReq[r].step = "checked"
    BY AtRuns DEF Files!UploadFails, Files!ClientLeaves
  <1>2. CASE Files!UploadFails(r)
    BY <1>1, <1>2, Refusal DEF Files!UploadFails
  <1>3. CASE Files!ClientLeaves(r)
    <2>1. UNCHANGED <<dir, parts, known, second, close, lost>> /\ Files!Step(r, "gone")
      BY <1>3 DEF Files!ClientLeaves
    <2>2. /\ fileReq' \in [Files!Call -> FileRequest] /\ fileReq'[r].step = "gone" /\ Advances(r)
      BY <1>1, <2>1, StepTaken DEF FilesInv, FileStep
    <2>3. close' \subseteq Files!Name
      BY <2>1, FilesTyped DEF FilesInv
    <2> QED
      BY <1>1, <2>1, <2>2, <2>3, DirectoryStays
  <1> QED
    BY <1>2, <1>3

LEMMA TickKeeps ==
    ASSUME FilesInv, Files!Tick
    PROVE  FilesInv'
  <1> USE FilesAssumption DEF Files!FilesAssumption
  <1>1. /\ UNCHANGED <<dir, parts, fileReq, known, close, lost>> /\ second' = second + 1
        /\ second \in 0..MaxSecond /\ second < MaxSecond
    BY FilesTyped DEF Files!Tick, FilesInv
  <1>2. Files!TypeOK'
    BY <1>1 DEF FilesInv, Files!TypeOK
  <1>3. Overlaps' /\ Origins' /\ Found' /\ Shape' /\ Files!LossNeedsARace' /\ Files!PartsAreAccounted'
    BY <1>1 DEF FilesInv, Overlaps, Origins, Found, Holds, Shape, ShapeOf, Files!LossNeedsARace,
       Files!PartsAreAccounted, Files!Running, Files!Names, Files!Mutates, Files!Exists
  <1>4. Times'
    <2> SUFFICES ASSUME NEW n \in Files!Name PROVE dir[n].mtime <= second + 1
      BY <1>1 DEF Times, Files!Name
    <2>1. dir[n].mtime \in 0..MaxSecond /\ dir[n].mtime <= second
      BY FilesTyped, FileFields DEF FilesInv, Times
    <2> QED
      BY <1>1, <2>1
  <1>5. Read'
    <2> SUFFICES ASSUME NEW k \in known, k.name \notin close, ReadStands(k) PROVE ReadStands(k)'
      BY <1>1 DEF FilesInv, Read
    <2>1. k.file.mtime \in 0..MaxSecond
      BY FilesTyped, FileFields DEF FilesInv
    <2> QED
      BY <1>1, <2>1 DEF ReadStands, Files!Exists
  <1> QED
    BY <1>2, <1>3, <1>4, <1>5 DEF FilesInv

LEMMA ReadContentKeeps ==
    ASSUME FilesInv, NEW r \in Files!Call, Files!ReadContent(r)
    PROVE  FilesInv'
  <1>1. r \in Files!Running /\ fileReq[r].kind = "read" /\ fileReq[r].step = "checked"
    BY AtRuns DEF Files!ReadContent
  <1>2. UNCHANGED <<dir, parts, second, close, lost>> /\ r \notin parts
    BY <1>1, NoPart DEF Files!ReadContent
  <1> DEFINE n == fileReq[r].name
             f == [dir[n] EXCEPT !.mtime = fileReq[r].saw.mtime]
  <1>3. CASE Files!Exists(n)
    <2>0. Files!Call' = Files!Call /\ Files!Name' = Files!Name
      BY DEF Files!Call, Files!Name
    <2>1. Files!Step(r, "ok") /\ known' = known \cup {[name |-> n, file |-> f]}
      BY <1>3 DEF Files!ReadContent
    <2>2. /\ fileReq' \in [Files!Call -> FileRequest] /\ fileReq'[r].step = "ok"
          /\ fileReq'[r].saw = fileReq[r].saw /\ Advances(r)
      BY <1>1, <1>2, <2>1, StepTaken DEF FilesInv, FileStep
    <2>3. n \in Files!Name /\ fileReq[r].to = n /\ dir[n] \in Files!File /\ fileReq[r].saw \in Files!File
      BY <1>1, FilesTyped, RequestFields DEF FilesInv, Shape, ShapeOf
    <2>4. f \in Files!File /\ f.who = dir[n].who /\ f.whole = dir[n].whole
      BY <2>3 DEF Files!File
    <2>5. Files!TypeOK'
      <3>1. known' \subseteq [name : Files!Name, file : Files!File]
        BY <2>1, <2>3, <2>4, FilesTyped DEF FilesInv
      <3>2. fileReq' \in [Files!Call -> [kind : {"none", "read", "write", "save", "create", "rename", "delete", "upload"},
                          name : Files!Name, to : Files!Name, base : Files!File, saw : Files!File,
                          step : {"new", "begun", "checked", "half", "ok", "refused", "gone"}]]
        BY <2>2 DEF FileRequest, FileKind, FileStep
      <3> QED
        BY <1>2, <3>1, <3>2 DEF FilesInv, Files!TypeOK
    <2>6. Overlaps'
      BY <2>2, <2>5, OverlapsStay DEF FilesInv
    <2>7. Origins'
      BY <1>1, <1>2, <2>0, <2>2 DEF FilesInv, Origins, Advances
    <2>8. Read'
      <3>1. ASSUME NEW k \in known
            PROVE  /\ k.file.who # 0 /\ fileReq'[k.file.who].step \in {"half", "ok", "refused"}
                   /\ k.name \notin close => ReadStands(k)'
        <4>1. /\ k.file.who # 0 /\ fileReq[k.file.who].step \in {"half", "ok", "refused"}
              /\ k.file.who \in Files!Call
          BY FilesTyped, FileFields DEF FilesInv, Read, Files!Call
        <4>2. fileReq'[k.file.who] = fileReq[k.file.who]
          BY <1>1, <2>2, <4>1 DEF Advances
        <4> QED
          BY <1>2, <4>1, <4>2 DEF FilesInv, Read, ReadStands, Files!Exists
      <3> DEFINE w == dir[n].who
      <3>2. /\ w # 0 /\ w \in Files!Call /\ fileReq[w].step \in {"half", "ok", "refused"}
            /\ fileReq'[w] = fileReq[w] /\ w # r
        BY <1>1, <1>3, <2>2, <2>3, FileFields DEF FilesInv, Origins, Files!Exists, Files!Call, Advances
      <3>3. ASSUME n \notin close PROVE f = dir[n] /\ fileReq[w].step # "half"
        <4>1. dir[n] = fileReq[r].saw
          BY <1>1, <2>3, <3>3 DEF FilesInv, Found, Holds
        <4>2. f = dir[n]
          BY <2>3, <4>1 DEF Files!File
        <4>3. ASSUME fileReq[w].step = "half" PROVE FALSE
          <5>1. n = fileReq[w].name /\ fileReq[w].kind \in {"write", "save"}
            BY <2>3, <3>2, <3>3, <4>3 DEF FilesInv, Origins
          <5>2. w \in Files!Running
            BY <3>2, <4>3 DEF Files!Running
          <5> QED
            BY <1>1, <3>2, <3>3, <5>1, <5>2 DEF FilesInv, Overlaps, Files!Names, Files!Mutates
        <4> QED
          BY <4>2, <4>3
      <3>0. PICK k : k = [name |-> n, file |-> f]
        OBVIOUS
      <3>4. k.name = n /\ k.file = f /\ f.who = w
        BY <2>4, <3>0
      <3>5. /\ k.file.who # 0 /\ fileReq'[k.file.who].step \in {"half", "ok", "refused"}
        BY <3>2, <3>4
      <3>6. ASSUME n \notin close PROVE ReadStands(k)'
        <4>1. dir'[k.name] = k.file /\ fileReq'[k.file.who].step # "half"
          BY <1>2, <3>2, <3>3, <3>4, <3>6
        <4> QED
          BY <4>1 DEF ReadStands
      <3>7. ASSUME NEW j \in known'
            PROVE  /\ j.file.who # 0 /\ fileReq'[j.file.who].step \in {"half", "ok", "refused"}
                   /\ j.name \notin close' => ReadStands(j)'
        <4>1. j \in known \/ j = k
          BY <2>1, <3>0
        <4> QED
          BY <1>2, <3>1, <3>4, <3>5, <3>6, <4>1
      <3> QED
        BY <3>7 DEF Read
    <2>9. Found'
      BY <1>2, <2>0, <2>2 DEF FilesInv, Found, Holds, Advances, Files!Exists
    <2>10. Shape'
      BY <1>1, <2>0, <2>1, <2>2 DEF FilesInv, Shape, ShapeOf, Advances
    <2>11. Times' /\ Files!LossNeedsARace'
      BY <1>2, <2>0 DEF FilesInv, Times, Files!LossNeedsARace
    <2>12. Files!PartsAreAccounted'
      BY <1>2, <2>0, <2>2, FilesTyped DEF FilesInv, Files!PartsAreAccounted, Advances
    <2> QED
      BY <2>5, <2>6, <2>7, <2>8, <2>9, <2>10, <2>11, <2>12 DEF FilesInv
  <1>4. CASE ~Files!Exists(n)
    <2>1. Files!Step(r, "refused") /\ UNCHANGED known
      BY <1>4 DEF Files!ReadContent
    <2> QED
      BY <1>1, <1>2, <2>1, Refusal
  <1> QED
    BY <1>3, <1>4

(* A request arrives: it was not running, and nothing comes from it yet.      *)
LEMMA BeginKeeps ==
    ASSUME FilesInv, NEW r \in Files!Call, NEW q \in FileRequest, Files!Begin(r, q), q.kind # "none",
           q.kind \in {"read", "write", "save", "create", "delete"} => q.name = q.to,
           q.kind = "rename" => q.name # q.to,
           q.kind = "save" => [name |-> q.name, file |-> q.base] \in known
    PROVE  FilesInv'
  <1>0. Files!Call' = Files!Call /\ Files!Name' = Files!Name
    BY DEF Files!Call, Files!Name
  <1> DEFINE c == [q EXCEPT !.step = "begun"]
  <1>1. /\ fileReq[r].step = "new" /\ fileReq' = [fileReq EXCEPT ![r] = c]
        /\ UNCHANGED <<dir, parts, known, second, lost>>
        /\ close' = close \cup {n \in {q.name, q.to} :
              \E p \in Files!Running : n \in Files!Names(p) /\ (Files!Mutates(p) \/ q.kind # "read")}
    BY DEF Files!Begin
  <1>2. /\ c \in FileRequest /\ c.step = "begun" /\ c.kind = q.kind /\ c.name = q.name /\ c.to = q.to
        /\ c.base = q.base
    BY DEF FileRequest, FileStep
  <1> HIDE DEF c
  <1>3. /\ fileReq' \in [Files!Call -> FileRequest] /\ fileReq'[r] = c
        /\ \A p \in Files!Call \ {r} : fileReq'[p] = fileReq[p]
    BY <1>1, <1>2, FilesTyped DEF FilesInv
  <1>4. Files!TypeOK'
    <2>1. close' \subseteq Files!Name
      BY <1>1, FilesTyped, RequestFields DEF FilesInv
    <2> QED
      BY <1>1, <1>3, <2>1 DEF FilesInv, Files!TypeOK, FileRequest, FileKind, FileStep
  <1>5. r \notin Files!Running
    BY <1>1 DEF Files!Running
  <1>6. Overlaps'
    <2> SUFFICES ASSUME NEW a \in Files!Running', NEW b \in Files!Running', a # b,
                        NEW n \in (Files!Names(a) \cap Files!Names(b))',
                        (Files!Mutates(a) \/ Files!Mutates(b))'
                 PROVE  n \in close'
      BY DEF Overlaps
    <2>1. a \in Files!Call /\ b \in Files!Call
      BY <1>0 DEF Files!Running
    <2>2. ASSUME NEW p \in Files!Call, p # r
          PROVE  /\ p \in Files!Running' => p \in Files!Running
                 /\ Files!Names(p)' = Files!Names(p) /\ (Files!Mutates(p)' <=> Files!Mutates(p))
      <3>1. fileReq'[p] = fileReq[p]
        BY <1>3, <2>2
      <3> QED
        BY <3>1 DEF Files!Running, Files!Names, Files!Mutates
    <2>3. Files!Names(r)' = {q.name, q.to} /\ (Files!Mutates(r)' <=> q.kind # "read")
      BY <1>2, <1>3 DEF Files!Names, Files!Mutates
    <2>4. ASSUME NEW p \in Files!Running', p # r, n \in Files!Names(p)', n \in Files!Names(r)',
                 (Files!Mutates(p) \/ Files!Mutates(r))'
          PROVE  n \in close'
      <3>1. p \in Files!Running /\ n \in Files!Names(p) /\ (Files!Mutates(p) \/ q.kind # "read")
        BY <1>0, <2>2, <2>3, <2>4 DEF Files!Running
      <3>2. n \in {q.name, q.to}
        BY <2>3, <2>4
      <3> QED
        BY <1>1, <3>1, <3>2
    <2>5. CASE a = r
      BY <2>4, <2>5
    <2>6. CASE b = r
      BY <2>4, <2>6
    <2>7. CASE a # r /\ b # r
      <3>1. a \in Files!Running /\ b \in Files!Running /\ n \in Files!Names(a) \cap Files!Names(b)
            /\ (Files!Mutates(a) \/ Files!Mutates(b))
        BY <2>1, <2>2, <2>7
      <3> QED
        BY <1>1, <3>1 DEF FilesInv, Overlaps
    <2> QED
      BY <2>5, <2>6, <2>7
  <1>7. Origins'
    BY <1>0, <1>1, <1>2, <1>3 DEF FilesInv, Origins
  <1>8. Read'
    <2> SUFFICES ASSUME NEW k \in known
                 PROVE  /\ k.file.who # 0 /\ fileReq'[k.file.who].step \in {"half", "ok", "refused"}
                        /\ k.name \notin close' => ReadStands(k)'
      BY <1>1 DEF Read
    <2>1. k.file.who # 0 /\ fileReq[k.file.who].step \in {"half", "ok", "refused"} /\ k.file.who \in Files!Call
      BY FilesTyped, FileFields DEF FilesInv, Read, Files!Call
    <2>2. fileReq'[k.file.who] = fileReq[k.file.who]
      BY <1>1, <1>3, <2>1
    <2> QED
      BY <1>1, <2>1, <2>2 DEF FilesInv, Read, ReadStands, Files!Exists
  <1>9. Found'
    BY <1>0, <1>1, <1>2, <1>3 DEF FilesInv, Found, Holds, Files!Exists
  <1>10. Shape'
    <2> SUFFICES ASSUME NEW p \in Files!Call, fileReq'[p].step # "new" PROVE ShapeOf(p)'
      BY <1>0 DEF Shape
    <2>1. CASE p = r
      BY <1>1, <1>2, <1>3, <2>1 DEF ShapeOf
    <2>2. CASE p # r
      <3>1. fileReq'[p] = fileReq[p]
        BY <1>3, <2>2
      <3> QED
        BY <1>1, <3>1 DEF FilesInv, Shape, ShapeOf
    <2> QED
      BY <2>1, <2>2
  <1>11. Times' /\ Files!LossNeedsARace'
    BY <1>0, <1>1 DEF FilesInv, Times, Files!LossNeedsARace
  <1>12. Files!PartsAreAccounted'
    BY <1>1, <1>3, FilesTyped DEF FilesInv, Files!PartsAreAccounted
  <1> QED
    BY <1>4, <1>6, <1>7, <1>8, <1>9, <1>10, <1>11, <1>12 DEF FilesInv

LEMMA ArrivesKeeps ==
    ASSUME FilesInv, NEW r \in Files!Call, Files!Arrives(r)
    PROVE  FilesInv'
  <1> USE FilesAssumption DEF Files!FilesAssumption
  <1>1. Files!Idle \in FileRequest /\ 0 \in Files!Name /\ Files!Absent \in Files!File
    BY DEF Files!Idle, Files!Absent, FileRequest, FileKind, FileStep, Files!Name, Files!File
  <1>2. CASE \E n \in Files!Name, k \in {"read", "write", "create", "delete"} :
               Files!Begin(r, [Files!Idle EXCEPT !.kind = k, !.name = n, !.to = n])
    <2>1. PICK n \in Files!Name, k \in {"read", "write", "create", "delete"} :
               Files!Begin(r, [Files!Idle EXCEPT !.kind = k, !.name = n, !.to = n])
      BY <1>2
    <2> DEFINE q == [Files!Idle EXCEPT !.kind = k, !.name = n, !.to = n]
    <2>2. q \in FileRequest /\ q.kind = k /\ q.name = n /\ q.to = n
      BY <1>1 DEF FileRequest, FileKind
    <2> HIDE DEF q
    <2> QED
      BY <2>1, <2>2, BeginKeeps DEF q
  <1>3. CASE \E n \in Files!Name : \E m \in Files!Name \ {n} :
               Files!Begin(r, [Files!Idle EXCEPT !.kind = "rename", !.name = n, !.to = m])
    <2>1. PICK n \in Files!Name : \E m \in Files!Name \ {n} :
               Files!Begin(r, [Files!Idle EXCEPT !.kind = "rename", !.name = n, !.to = m])
      BY <1>3
    <2>2. PICK m \in Files!Name \ {n} :
               Files!Begin(r, [Files!Idle EXCEPT !.kind = "rename", !.name = n, !.to = m])
      BY <2>1
    <2> DEFINE q == [Files!Idle EXCEPT !.kind = "rename", !.name = n, !.to = m]
    <2>3. q \in FileRequest /\ q.kind = "rename" /\ q.name = n /\ q.to = m
      BY <1>1 DEF FileRequest, FileKind
    <2> HIDE DEF q
    <2> QED
      BY <2>2, <2>3, BeginKeeps DEF q
  <1>4. CASE \E k \in known :
               Files!Begin(r, [Files!Idle EXCEPT !.kind = "save", !.name = k.name, !.to = k.name, !.base = k.file])
    <2>1. PICK k \in known :
               Files!Begin(r, [Files!Idle EXCEPT !.kind = "save", !.name = k.name, !.to = k.name, !.base = k.file])
      BY <1>4
    <2> DEFINE q == [Files!Idle EXCEPT !.kind = "save", !.name = k.name, !.to = k.name, !.base = k.file]
    <2>2. k.name \in Files!Name /\ k.file \in Files!File /\ k = [name |-> k.name, file |-> k.file]
      BY FilesTyped DEF FilesInv
    <2>3. q \in FileRequest /\ q.kind = "save" /\ q.name = k.name /\ q.to = k.name /\ q.base = k.file
      BY <1>1, <2>2 DEF FileRequest, FileKind
    <2> HIDE DEF q
    <2>4. [name |-> q.name, file |-> q.base] \in known
      BY <2>2, <2>3
    <2> QED
      BY <2>1, <2>3, <2>4, BeginKeeps DEF q
  <1>5. CASE Files!Begin(r, [Files!Idle EXCEPT !.kind = "upload"])
    <2> DEFINE q == [Files!Idle EXCEPT !.kind = "upload"]
    <2>1. q \in FileRequest /\ q.kind = "upload"
      BY <1>1 DEF FileRequest, FileKind
    <2> HIDE DEF q
    <2> QED
      BY <1>5, <2>1, BeginKeeps DEF q
  <1> QED
    BY <1>2, <1>3, <1>4, <1>5 DEF Files!Arrives

LEMMA StartedKeeps ==
    ASSUME FilesInv, NEW r \in Files!Running, fileReq[r].kind = "upload", fileReq[r].step = "begun",
           NEW n \in Files!Name, ~Files!Exists(n), Files!Started(r, n), UNCHANGED <<dir, known, second, lost>>
    PROVE  FilesInv'
  <1>0. Files!Call' = Files!Call /\ Files!Name' = Files!Name /\ r \in Files!Call
    BY DEF Files!Call, Files!Name, Files!Running
  <1>1. fileReq[r] \in FileRequest /\ fileReq \in [Files!Call -> FileRequest]
    BY <1>0, FilesTyped DEF FilesInv
  <1> DEFINE c == [fileReq[r] EXCEPT !.to = n, !.step = "checked"]
  <1>2. /\ c \in FileRequest /\ c.step = "checked" /\ c.kind = "upload" /\ c.name = fileReq[r].name
        /\ c.to = n
    BY <1>1 DEF FileRequest, FileStep
  <1>3. /\ fileReq' = [fileReq EXCEPT ![r] = c] /\ parts' = parts \cup {r}
        /\ close' = IF \E q \in Files!Running \ {r} : n \in Files!Names(q) THEN close \cup {n} ELSE close
    BY <1>1 DEF Files!Started
  <1> HIDE DEF c
  <1>4. /\ fileReq' \in [Files!Call -> FileRequest] /\ fileReq'[r] = c
        /\ \A p \in Files!Call \ {r} : fileReq'[p] = fileReq[p]
    BY <1>0, <1>1, <1>2, <1>3
  <1>5. close \subseteq close' /\ close' \subseteq Files!Name
    BY <1>3, FilesTyped DEF FilesInv
  <1>6. Files!TypeOK'
    BY <1>0, <1>3, <1>4, <1>5 DEF FilesInv, Files!TypeOK, FileRequest, FileKind, FileStep
  <1>7. Overlaps'
    <2> SUFFICES ASSUME NEW a \in Files!Running', NEW b \in Files!Running', a # b,
                        NEW m \in (Files!Names(a) \cap Files!Names(b))',
                        (Files!Mutates(a) \/ Files!Mutates(b))'
                 PROVE  m \in close'
      BY DEF Overlaps
    <2>1. a \in Files!Call /\ b \in Files!Call
      BY <1>0 DEF Files!Running
    <2>2. ASSUME NEW p \in Files!Call, p # r
          PROVE  /\ p \in Files!Running' => p \in Files!Running
                 /\ Files!Names(p)' = Files!Names(p) /\ (Files!Mutates(p)' <=> Files!Mutates(p))
      <3>1. fileReq'[p] = fileReq[p]
        BY <1>4, <2>2
      <3> QED
        BY <3>1 DEF Files!Running, Files!Names, Files!Mutates
    <2>3. Files!Names(r)' = {fileReq[r].name, n} /\ Files!Mutates(r)
      BY <1>2, <1>4 DEF Files!Names, Files!Mutates
    <2>4. ASSUME NEW p \in Files!Running', p # r, m \in Files!Names(p)', m \in Files!Names(r)'
          PROVE  m \in close'
      <3>1. p \in Files!Running /\ m \in Files!Names(p)
        BY <1>0, <2>2, <2>4 DEF Files!Running
      <3>2. CASE m = n
        BY <1>3, <2>4, <3>1, <3>2
      <3>3. CASE m = fileReq[r].name
        <4>1. m \in Files!Names(r)
          BY <3>3 DEF Files!Names
        <4> QED
          BY <1>5, <2>3, <2>4, <3>1, <4>1 DEF FilesInv, Overlaps
      <3> QED
        BY <2>3, <2>4, <3>2, <3>3
    <2>5. CASE a = r
      BY <2>4, <2>5
    <2>6. CASE b = r
      BY <2>4, <2>6
    <2>7. CASE a # r /\ b # r
      <3>1. a \in Files!Running /\ b \in Files!Running /\ m \in Files!Names(a) \cap Files!Names(b)
            /\ (Files!Mutates(a) \/ Files!Mutates(b))
        BY <2>1, <2>2, <2>7
      <3> QED
        BY <1>5, <3>1 DEF FilesInv, Overlaps
    <2> QED
      BY <2>5, <2>6, <2>7
  <1>8. Origins'
    BY <1>0, <1>2, <1>4, <1>5 DEF FilesInv, Origins
  <1>9. Read'
    <2> SUFFICES ASSUME NEW k \in known
                 PROVE  /\ k.file.who # 0 /\ fileReq'[k.file.who].step \in {"half", "ok", "refused"}
                        /\ k.name \notin close' => ReadStands(k)'
      BY DEF Read
    <2>1. k.file.who # 0 /\ fileReq[k.file.who].step \in {"half", "ok", "refused"} /\ k.file.who \in Files!Call
      BY FilesTyped, FileFields DEF FilesInv, Read, Files!Call
    <2>2. fileReq'[k.file.who] = fileReq[k.file.who]
      BY <1>4, <2>1
    <2> QED
      BY <1>5, <2>1, <2>2 DEF FilesInv, Read, ReadStands, Files!Exists
  <1>10. Found'
    <2> SUFFICES ASSUME NEW q \in Files!Call, fileReq'[q].step = "checked", fileReq'[q].to \notin close'
                 PROVE  Holds(q)'
      BY <1>0 DEF Found
    <2>1. CASE q = r
      BY <1>2, <1>4, <2>1 DEF Holds, Files!Exists
    <2>2. CASE q # r
      <3>1. fileReq'[q] = fileReq[q]
        BY <1>4, <2>2
      <3> QED
        BY <1>5, <3>1 DEF FilesInv, Found, Holds, Files!Exists
    <2> QED
      BY <2>1, <2>2
  <1>11. Shape'
    <2> SUFFICES ASSUME NEW p \in Files!Call, fileReq'[p].step # "new" PROVE ShapeOf(p)'
      BY <1>0 DEF Shape
    <2>1. CASE p = r
      BY <1>2, <1>4, <2>1 DEF ShapeOf
    <2>2. CASE p # r
      <3>1. fileReq'[p] = fileReq[p]
        BY <1>4, <2>2
      <3> QED
        BY <3>1 DEF FilesInv, Shape, ShapeOf
    <2> QED
      BY <2>1, <2>2
  <1>12. Times' /\ Files!LossNeedsARace'
    BY <1>0, <1>5 DEF FilesInv, Times, Files!LossNeedsARace
  <1>13. Files!PartsAreAccounted'
    BY <1>0, <1>2, <1>3, <1>4, FilesTyped DEF FilesInv, Files!PartsAreAccounted
  <1> QED
    BY <1>6, <1>7, <1>8, <1>9, <1>10, <1>11, <1>12, <1>13 DEF FilesInv

LEMMA UploadStartsKeeps ==
    ASSUME FilesInv, NEW r \in Files!Call, Files!UploadStarts(r)
    PROVE  FilesInv'
  <1> USE FilesAssumption DEF Files!FilesAssumption
  <1>1. r \in Files!Running /\ fileReq[r].kind = "upload" /\ fileReq[r].step = "begun"
    BY AtRuns DEF Files!UploadStarts
  <1>2. UNCHANGED <<dir, known, second, lost>> /\ r \notin parts /\ 0 \in Files!Name
    BY <1>1, NoPart DEF Files!UploadStarts, Files!Name
  <1>3. CASE ~Files!Exists(0) /\ Files!Started(r, 0)
    BY <1>1, <1>2, <1>3, StartedKeeps
  <1>4. CASE \E n \in Files!FreeSuffix : Files!Started(r, n)
    <2>1. PICK n \in Files!FreeSuffix : Files!Started(r, n)
      BY <1>4
    <2>2. n \in Files!Name /\ ~Files!Exists(n)
      BY DEF Files!FreeSuffix, Files!Name
    <2> QED
      BY <1>1, <1>2, <2>1, <2>2, StartedKeeps
  <1>5. CASE Files!Step(r, "refused") /\ UNCHANGED <<parts, close>>
    BY <1>1, <1>2, <1>5, Refusal
  <1> QED
    BY <1>3, <1>4, <1>5 DEF Files!UploadStarts

(* A request that runs, and has put nothing anywhere yet, replaces what is at *)
(* one of its names: with a file of its own, of this second, or by nothing.  *)
LEMMA PutKeeps ==
    ASSUME FilesInv, NEW r \in Files!Running, Files!Mutates(r), fileReq[r].step \in {"begun", "checked"},
           NEW n \in Files!Names(r), NEW f \in Files!File, NEW allowed \in BOOLEAN, NEW s,
           s = "half" => fileReq[r].kind \in {"write", "save"} /\ n = fileReq[r].name,
           s \in {"half", "ok"}, f = Files!Absent \/ (f.who = r /\ f.mtime = second),
           Files!Put(r, n, f, allowed), Files!Step(r, s), UNCHANGED <<known, second>>,
           parts' \subseteq parts, r \notin parts',
           Files!Exists(n) /\ n \notin close => allowed
    PROVE  FilesInv'
  <1> USE FilesAssumption DEF Files!FilesAssumption
  <1>0. Files!Call' = Files!Call /\ Files!Name' = Files!Name /\ r \in Files!Call
    BY DEF Files!Call, Files!Name, Files!Running
  <1>1. /\ n \in Files!Name /\ dir \in [Files!Name -> Files!File] /\ close \subseteq Files!Name
        /\ lost \subseteq Files!Name /\ second \in 0..MaxSecond
    BY <1>0, FilesTyped, RequestFields DEF FilesInv, Files!Names
  <1>2. /\ dir' = [dir EXCEPT ![n] = f]
        /\ close' = IF Files!Exists(n) /\ dir[n].mtime = second /\ dir[n].who # r THEN close \cup {n} ELSE close
        /\ lost' = IF Files!Exists(n) /\ fileReq[dir[n].who].step = "ok" /\ dir[n].who # r /\ ~allowed
                   THEN lost \cup {n} ELSE lost
    BY DEF Files!Put
  <1>3. /\ dir' \in [Files!Name -> Files!File] /\ dir'[n] = f
        /\ \A m \in Files!Name \ {n} : dir'[m] = dir[m]
        /\ close \subseteq close' /\ close' \subseteq Files!Name /\ lost' \subseteq Files!Name
    BY <1>1, <1>2
  <1>4. /\ fileReq' \in [Files!Call -> FileRequest] /\ fileReq'[r].step = s /\ Advances(r)
    BY <1>3, StepTaken DEF FilesInv, FileStep
  <1>5. f.who \in {0, r} /\ f.mtime <= second /\ (f.who # 0 => f.mtime = second) /\ 0 \notin Files!Call
    BY <1>1 DEF Files!Absent, Files!Call
  <1>6. ASSUME NEW m \in Files!Name PROVE dir[m].who # r
    BY <1>0, <1>6 DEF FilesInv, Origins
  <1>7. Files!TypeOK'
    BY <1>0, <1>3, <1>4, FilesTyped DEF FilesInv, Files!TypeOK, FileRequest, FileKind, FileStep
  <1>8. Overlaps'
    BY <1>4, <1>7, OverlapsStay DEF FilesInv
  <1>9. Origins'
    <2>1. ASSUME NEW m \in Files!Name, NEW c \in Files!Call, dir'[m].who = c
          PROVE  /\ fileReq'[c].step \in {"half", "ok", "refused"}
                 /\ fileReq'[c].step = "half" => m = fileReq'[c].name \/ m \in close'
      <3>1. CASE m = n
        <4>1. c = r
          BY <1>3, <1>5, <2>1, <3>1
        <4> QED
          BY <1>4, <3>1, <4>1 DEF Advances
      <3>2. CASE m # n
        <4>1. dir[m].who = c /\ c # r
          BY <1>3, <1>6, <2>1, <3>2
        <4> QED
          BY <1>3, <1>4, <4>1 DEF FilesInv, Origins, Advances
      <3> QED
        BY <3>1, <3>2
    <2>2. ASSUME NEW c \in Files!Call, fileReq'[c].step = "half"
          PROVE  fileReq'[c].kind \in {"write", "save"} /\ fileReq'[c].to = fileReq'[c].name
      <3>1. CASE c = r
        <4>1. fileReq[r].to = fileReq[r].name
          BY <1>0, <1>4, <2>2, <3>1 DEF FilesInv, Shape, ShapeOf
        <4> QED
          BY <1>4, <2>2, <3>1, <4>1 DEF Advances
      <3>2. CASE c # r
        BY <1>4, <2>2, <3>2 DEF FilesInv, Origins, Advances
      <3> QED
        BY <3>1, <3>2
    <2> QED
      BY <1>0, <2>1, <2>2 DEF Origins
  <1>10. Read'
    <2> SUFFICES ASSUME NEW k \in known
                 PROVE  /\ k.file.who # 0 /\ fileReq'[k.file.who].step \in {"half", "ok", "refused"}
                        /\ k.name \notin close' => ReadStands(k)'
      BY DEF Read
    <2>1. /\ k.file.who # 0 /\ fileReq[k.file.who].step \in {"half", "ok", "refused"}
          /\ k.file.who \in Files!Call /\ k.name \in Files!Name /\ k.file.mtime \in 0..MaxSecond
      BY FilesTyped, FileFields DEF FilesInv, Read, Files!Call
    <2>2. k.file.who # r
      BY <1>0, <2>1
    <2>3. fileReq'[k.file.who] = fileReq[k.file.who]
      BY <1>4, <2>1, <2>2 DEF Advances
    <2>4. ASSUME k.name \notin close' PROVE ReadStands(k)'
      <3>1. ReadStands(k)
        BY <1>3, <2>4 DEF FilesInv, Read
      <3>2. CASE k.name # n
        BY <1>3, <2>1, <2>3, <3>1, <3>2 DEF ReadStands, Files!Exists
      <3>3. CASE k.name = n
        <4>1. dir'[n] # k.file
          BY <1>3, <1>5, <2>1, <2>2
        <4>2. k.file.mtime < second
          <5>1. CASE dir[n] = k.file
            <6>1. dir[n].mtime # second /\ dir[n].mtime <= second
              BY <1>1, <1>2, <1>6, <2>1, <2>4, <3>3, <5>1 DEF Files!Exists, FilesInv, Times
            <6> QED
              BY <1>1, <2>1, <5>1, <6>1
          <5>2. CASE dir[n] # k.file
            BY <3>1, <3>3, <5>2 DEF ReadStands
          <5> QED
            BY <5>1, <5>2
        <4>3. dir'[n].who # 0 => dir'[n].mtime # k.file.mtime
          BY <1>1, <1>3, <1>5, <2>1, <4>2
        <4> QED
          BY <3>3, <4>1, <4>2, <4>3 DEF ReadStands, Files!Exists
      <3> QED
        BY <3>2, <3>3
    <2> QED
      BY <2>1, <2>3, <2>4
  <1>11. Found'
    <2> SUFFICES ASSUME NEW q \in Files!Call, fileReq'[q].step = "checked", fileReq'[q].to \notin close'
                 PROVE  Holds(q)'
      BY <1>0 DEF Found
    <2>1. q # r
      BY <1>4
    <2>2. fileReq'[q] = fileReq[q] /\ q \in Files!Running /\ fileReq[q].to \in Files!Name
      BY <1>4, <2>1, WhoRuns DEF Advances, FilesInv
    <2>3. fileReq[q].to # n
      BY <1>3, <2>1, <2>2 DEF FilesInv, Overlaps, Files!Names
    <2>4. dir'[fileReq[q].to] = dir[fileReq[q].to]
      BY <1>3, <2>2, <2>3
    <2> QED
      BY <1>3, <2>2, <2>4 DEF FilesInv, Found, Holds, Files!Exists
  <1>12. Shape'
    BY <1>0, <1>4 DEF FilesInv, Shape, ShapeOf, Advances, Files!Running
  <1>13. Times'
    BY <1>0, <1>3, <1>5 DEF FilesInv, Times
  <1>14. Files!LossNeedsARace'
    BY <1>2, <1>3 DEF FilesInv, Files!LossNeedsARace
  <1>15. Files!PartsAreAccounted'
    BY <1>0, <1>4, FilesTyped DEF FilesInv, Files!PartsAreAccounted, Advances
  <1> QED
    BY <1>7, <1>8, <1>9, <1>10, <1>11, <1>12, <1>13, <1>14, <1>15 DEF FilesInv

LEMMA WriteTruncatesKeeps ==
    ASSUME FilesInv, NEW r \in Files!Call, Files!WriteTruncates(r)
    PROVE  FilesInv'
  <1>1. r \in Files!Running /\ fileReq[r].kind \in {"write", "save"} /\ fileReq[r].step = "checked"
    BY AtRuns DEF Files!WriteTruncates
  <1> DEFINE n == fileReq[r].name
             f == [who |-> r, whole |-> FALSE, mtime |-> second]
  <1>2. Files!Put(r, n, f, Files!Seen(r)) /\ Files!Step(r, "half") /\ UNCHANGED <<parts, known, second>>
    BY DEF Files!WriteTruncates
  <1>3. f \in Files!File /\ f.who = r /\ f.mtime = second
    BY FilesTyped DEF FilesInv, Files!File, Files!Call
  <1>4. Files!Mutates(r) /\ n \in Files!Names(r) /\ n = fileReq[r].to /\ r \notin parts
    BY <1>1, NoPart DEF Files!Mutates, Files!Names, FilesInv, Shape, ShapeOf
  <1>5. Files!Exists(n) /\ n \notin close => Files!Seen(r)
    BY <1>1, <1>4 DEF FilesInv, Found, Holds, Files!Seen
  <1>6. Files!Seen(r) \in BOOLEAN
    BY DEF Files!Seen
  <1> HIDE DEF n, f
  <1>7. "half" = "half" => fileReq[r].kind \in {"write", "save"} /\ n = fileReq[r].name
    BY <1>1 DEF n
  <1> QED
    BY <1>1, <1>2, <1>3, <1>4, <1>5, <1>6, <1>7, PutKeeps

LEMMA CreateWritesKeeps ==
    ASSUME FilesInv, NEW r \in Files!Call, Files!CreateWrites(r)
    PROVE  FilesInv'
  <1>1. r \in Files!Running /\ fileReq[r].kind = "create" /\ fileReq[r].step = "checked"
    BY AtRuns DEF Files!CreateWrites
  <1> DEFINE n == fileReq[r].name
             f == [who |-> r, whole |-> TRUE, mtime |-> second]
  <1>2. Files!Put(r, n, f, FALSE) /\ Files!Step(r, "ok") /\ UNCHANGED <<parts, known, second>>
    BY DEF Files!CreateWrites
  <1>3. f \in Files!File /\ f.who = r /\ f.mtime = second
    BY FilesTyped DEF FilesInv, Files!File, Files!Call
  <1>4. Files!Mutates(r) /\ n \in Files!Names(r) /\ n = fileReq[r].to /\ r \notin parts
    BY <1>1, NoPart DEF Files!Mutates, Files!Names, FilesInv, Shape, ShapeOf
  <1>5. ~(Files!Exists(n) /\ n \notin close)
    BY <1>1, <1>4 DEF FilesInv, Found, Holds
  <1> HIDE DEF n, f
  <1> QED
    BY <1>1, <1>2, <1>3, <1>4, <1>5, PutKeeps

LEMMA UploadFinishesKeeps ==
    ASSUME FilesInv, NEW r \in Files!Call, Files!UploadFinishes(r)
    PROVE  FilesInv'
  <1>1. r \in Files!Running /\ fileReq[r].kind = "upload" /\ fileReq[r].step = "checked"
    BY AtRuns DEF Files!UploadFinishes
  <1> DEFINE n == fileReq[r].to
             f == [who |-> r, whole |-> TRUE, mtime |-> second]
  <1>2. /\ Files!Put(r, n, f, FALSE) /\ Files!Step(r, "ok") /\ UNCHANGED <<known, second>>
        /\ parts' = parts \ {r}
    BY DEF Files!UploadFinishes
  <1>3. f \in Files!File /\ f.who = r /\ f.mtime = second
    BY FilesTyped DEF FilesInv, Files!File, Files!Call
  <1>4. Files!Mutates(r) /\ n \in Files!Names(r)
    BY <1>1 DEF Files!Mutates, Files!Names
  <1>5. ~(Files!Exists(n) /\ n \notin close)
    BY <1>1 DEF FilesInv, Found, Holds
  <1> HIDE DEF n, f
  <1> QED
    BY <1>1, <1>2, <1>3, <1>4, <1>5, PutKeeps

LEMMA DeletesKeeps ==
    ASSUME FilesInv, NEW r \in Files!Call, Files!Deletes(r)
    PROVE  FilesInv'
  <1>1. r \in Files!Running /\ fileReq[r].kind = "delete" /\ fileReq[r].step = "begun"
    BY AtRuns DEF Files!Deletes
  <1> DEFINE n == fileReq[r].name
  <1>2. r \notin parts /\ UNCHANGED <<parts, known, second>>
    BY <1>1, NoPart DEF Files!Deletes
  <1>3. CASE Files!Exists(n)
    <2>1. Files!Put(r, n, Files!Absent, TRUE) /\ Files!Step(r, "ok")
      BY <1>3 DEF Files!Deletes
    <2>2. Files!Absent \in Files!File
      BY FilesAssumption DEF Files!Absent, Files!File, Files!FilesAssumption
    <2>3. Files!Mutates(r) /\ n \in Files!Names(r)
      BY <1>1 DEF Files!Mutates, Files!Names
    <2> HIDE DEF n
    <2> QED
      BY <1>1, <1>2, <2>1, <2>2, <2>3, PutKeeps
  <1>4. CASE ~Files!Exists(n)
    <2>1. Files!Step(r, "refused") /\ UNCHANGED <<dir, close, lost>>
      BY <1>4 DEF Files!Deletes
    <2> QED
      BY <1>1, <1>2, <2>1, Refusal
  <1> QED
    BY <1>3, <1>4

LEMMA WriteFillsKeeps ==
    ASSUME FilesInv, NEW r \in Files!Call, Files!WriteFills(r)
    PROVE  FilesInv'
  <1> USE FilesAssumption DEF Files!FilesAssumption
  <1>1. r \in Files!Running /\ fileReq[r].kind \in {"write", "save"} /\ fileReq[r].step = "half"
    BY AtRuns DEF Files!WriteFills
  <1>2. UNCHANGED <<parts, known, second, close, lost>> /\ r \notin parts
    BY <1>1, NoPart DEF Files!WriteFills
  <1>3. CASE Files!Step(r, "refused") /\ UNCHANGED dir
    BY <1>1, <1>2, <1>3, Refusal
  <1> DEFINE f == [who |-> r, whole |-> TRUE, mtime |-> second]
  <1>4. CASE /\ dir' = [n \in Files!Name |-> IF dir[n].who = r THEN f ELSE dir[n]]
             /\ Files!Step(r, "ok")
    <2>0. /\ Files!Call' = Files!Call /\ Files!Name' = Files!Name
          /\ dir \in [Files!Name -> Files!File] /\ second \in 0..MaxSecond
      BY FilesTyped DEF Files!Call, Files!Name, FilesInv
    <2>1. f \in Files!File /\ f.who = r /\ f.mtime = second
      BY <2>0 DEF Files!File, Files!Call
    <2> HIDE DEF f
    <2>2. /\ dir' \in [Files!Name -> Files!File]
          /\ \A n \in Files!Name : dir'[n] = IF dir[n].who = r THEN f ELSE dir[n]
      BY <1>4, <2>0, <2>1
    <2>3. /\ fileReq' \in [Files!Call -> FileRequest] /\ fileReq'[r].step = "ok" /\ Advances(r)
      BY <1>1, <1>2, <1>4, StepTaken DEF FilesInv, FileStep
    <2>4. Files!TypeOK'
      BY <1>2, <2>0, <2>2, <2>3, FilesTyped DEF FilesInv, Files!TypeOK, FileRequest, FileKind, FileStep
    <2>5. Overlaps'
      BY <2>3, <2>4, OverlapsStay DEF FilesInv
    <2>6. Origins'
      <3>1. \A n \in Files!Name : dir'[n].who = dir[n].who
        BY <2>1, <2>2
      <3> QED
        BY <1>1, <1>2, <2>0, <2>3, <3>1 DEF FilesInv, Origins, Advances
    <2>7. Read'
      <3> SUFFICES ASSUME NEW k \in known
                   PROVE  /\ k.file.who # 0 /\ fileReq'[k.file.who].step \in {"half", "ok", "refused"}
                          /\ k.name \notin close => ReadStands(k)'
        BY <1>2 DEF Read
      <3>1. /\ k.file.who # 0 /\ fileReq[k.file.who].step \in {"half", "ok", "refused"}
            /\ k.file.who \in Files!Call /\ k.name \in Files!Name /\ k.file.mtime \in 0..MaxSecond
        BY FilesTyped, FileFields DEF FilesInv, Read, Files!Call
      <3>2. fileReq'[k.file.who].step \in {"half", "ok", "refused"}
        BY <2>3, <3>1 DEF Advances
      <3>3. ASSUME k.name \notin close PROVE ReadStands(k)'
        <4>1. ReadStands(k)
          BY <3>3 DEF FilesInv, Read
        <4>2. CASE dir[k.name].who = r
          <5>1. dir[k.name] # k.file
            BY <1>1, <4>1, <4>2 DEF ReadStands
          <5>2. k.file.mtime < second
            BY <4>1, <5>1 DEF ReadStands
          <5>3. dir'[k.name] # k.file /\ dir'[k.name].mtime # k.file.mtime
            BY <2>0, <2>1, <2>2, <3>1, <4>2, <5>2
          <5> QED
            BY <1>2, <5>2, <5>3 DEF ReadStands
        <4>3. CASE dir[k.name].who # r
          <5>1. dir'[k.name] = dir[k.name]
            BY <2>2, <3>1, <4>3
          <5>2. k.file.who # r => fileReq'[k.file.who] = fileReq[k.file.who]
            BY <2>3, <3>1 DEF Advances
          <5> QED
            BY <1>2, <4>1, <4>3, <5>1, <5>2 DEF ReadStands, Files!Exists
        <4> QED
          BY <4>2, <4>3
      <3> QED
        BY <3>1, <3>2, <3>3
    <2>8. Found'
      <3> SUFFICES ASSUME NEW q \in Files!Call, fileReq'[q].step = "checked", fileReq'[q].to \notin close'
                   PROVE  Holds(q)'
        BY <2>0 DEF Found
      <3>1. q # r
        BY <2>3
      <3>2. fileReq'[q] = fileReq[q] /\ q \in Files!Running /\ fileReq[q].to \in Files!Name
        BY <2>3, <3>1, WhoRuns DEF Advances, FilesInv
      <3>3. dir[fileReq[q].to].who # r
        <4> SUFFICES ASSUME dir[fileReq[q].to].who = r PROVE FALSE
          OBVIOUS
        <4>1. fileReq[q].to = fileReq[r].name
          BY <1>1, <1>2, <3>2 DEF FilesInv, Origins
        <4> QED
          BY <1>1, <1>2, <3>1, <3>2, <4>1 DEF FilesInv, Overlaps, Files!Names, Files!Mutates
      <3>4. dir'[fileReq[q].to] = dir[fileReq[q].to]
        BY <2>2, <3>2, <3>3
      <3> QED
        BY <1>2, <3>2, <3>4 DEF FilesInv, Found, Holds, Files!Exists
    <2>9. Shape'
      BY <1>2, <2>0, <2>3 DEF FilesInv, Shape, ShapeOf, Advances, Files!Running
    <2>10. Times' /\ Files!LossNeedsARace'
      BY <1>2, <2>0, <2>1, <2>2 DEF FilesInv, Times, Files!LossNeedsARace
    <2>11. Files!PartsAreAccounted'
      BY <1>2, <2>0, <2>3, FilesTyped DEF FilesInv, Files!PartsAreAccounted, Advances
    <2> QED
      BY <2>4, <2>5, <2>6, <2>7, <2>8, <2>9, <2>10, <2>11 DEF FilesInv
  <1> QED
    BY <1>3, <1>4 DEF Files!WriteFills

LEMMA RenameMovesKeeps ==
    ASSUME FilesInv, NEW r \in Files!Call, Files!RenameMoves(r)
    PROVE  FilesInv'
  <1> USE FilesAssumption DEF Files!FilesAssumption
  <1>1. r \in Files!Running /\ fileReq[r].kind = "rename" /\ fileReq[r].step = "checked"
    BY AtRuns DEF Files!RenameMoves
  <1>2. UNCHANGED <<parts, known, second>> /\ r \notin parts
    BY <1>1, NoPart DEF Files!RenameMoves
  <1>3. PICK a \in Files!Name, b \in Files!Name : a = fileReq[r].name /\ b = fileReq[r].to
    BY WhoRuns DEF FilesInv
  <1>4. CASE ~Files!Exists(a)
    <2>1. Files!Step(r, "refused") /\ UNCHANGED <<dir, close, lost>>
      BY <1>3, <1>4 DEF Files!RenameMoves
    <2> QED
      BY <1>1, <1>2, <2>1, Refusal
  <1>5. CASE Files!Exists(a)
    <2>0. /\ Files!Call' = Files!Call /\ Files!Name' = Files!Name
          /\ dir \in [Files!Name -> Files!File] /\ second \in 0..MaxSecond
          /\ close \subseteq Files!Name /\ lost \subseteq Files!Name
      BY FilesTyped DEF Files!Call, Files!Name, FilesInv
    <2>1. a # b /\ Files!Mutates(r) /\ Files!Names(r) = {a, b}
      BY <1>1, <1>3 DEF FilesInv, Shape, ShapeOf, Files!Mutates, Files!Names
    <2>2. /\ dir' = [dir EXCEPT ![b] = dir[a], ![a] = Files!Absent]
          /\ close' = close \cup {n \in {a, b} : Files!Exists(n) /\ dir[n].mtime = second}
                            \cup {n \in {b} : a \in close \/ Files!Mistaken(dir[a], b)}
          /\ lost' = IF Files!Exists(b) /\ fileReq[dir[b].who].step = "ok" THEN lost \cup {b} ELSE lost
          /\ Files!Step(r, "ok")
      BY <1>3, <1>5 DEF Files!RenameMoves
    <2>3. Files!Absent \in Files!File /\ Files!Absent.who = 0 /\ Files!Absent.mtime = 0
      BY DEF Files!Absent, Files!File
    <2>4. /\ dir' \in [Files!Name -> Files!File] /\ dir'[a] = Files!Absent /\ dir'[b] = dir[a]
          /\ \A n \in Files!Name \ {a, b} : dir'[n] = dir[n]
      BY <2>0, <2>1, <2>2, <2>3
    <2>5. /\ close \subseteq close' /\ close' \subseteq Files!Name /\ lost' \subseteq Files!Name
          /\ \A n \in {a, b} : Files!Exists(n) /\ dir[n].mtime = second => n \in close'
          /\ a \in close \/ Files!Mistaken(dir[a], b) => b \in close'
      BY <2>0, <2>2
    <2>6. /\ fileReq' \in [Files!Call -> FileRequest] /\ fileReq'[r].step = "ok" /\ Advances(r)
      BY <1>1, <2>2, <2>5, StepTaken DEF FilesInv, FileStep
    <2> DEFINE w == dir[a].who
    <2>7. /\ w \in Files!Call /\ fileReq[w].step \in {"half", "ok", "refused"} /\ w # r
          /\ fileReq'[w] = fileReq[w]
      BY <1>1, <1>5, <2>0, <2>6, FileFields DEF FilesInv, Origins, Files!Exists, Files!Call, Advances
    <2>8. fileReq[w].step = "half" => a \in close
      <3> SUFFICES ASSUME fileReq[w].step = "half", a = fileReq[w].name PROVE a \in close
        BY <2>7 DEF FilesInv, Origins
      <3>1. w \in Files!Running /\ a \in Files!Names(w)
        BY <2>7 DEF Files!Running, Files!Names
      <3> QED
        BY <1>1, <2>1, <2>7, <3>1 DEF FilesInv, Overlaps
    <2> HIDE DEF w
    <2>9. Files!TypeOK'
      BY <1>2, <2>0, <2>4, <2>5, <2>6, FilesTyped DEF FilesInv, Files!TypeOK, FileRequest, FileKind, FileStep
    <2>10. Overlaps'
      BY <2>6, <2>9, OverlapsStay DEF FilesInv
    <2>11. Origins'
      <3>1. ASSUME NEW m \in Files!Name, NEW c \in Files!Call, dir'[m].who = c
            PROVE  /\ fileReq'[c].step \in {"half", "ok", "refused"}
                   /\ fileReq'[c].step = "half" => m = fileReq'[c].name \/ m \in close'
        <4>1. CASE m = a
          BY <2>3, <2>4, <3>1, <4>1 DEF Files!Call
        <4>2. CASE m = b
          <5>1. c = w
            BY <2>4, <3>1, <4>2 DEF w
          <5> QED
            BY <2>5, <2>7, <2>8, <4>2, <5>1
        <4>3. CASE m \notin {a, b}
          <5>1. dir[m].who = c /\ c # r
            BY <1>1, <2>4, <3>1, <4>3 DEF FilesInv, Origins
          <5>2. fileReq'[c] = fileReq[c]
            BY <2>6, <5>1 DEF Advances
          <5> QED
            BY <2>5, <5>1, <5>2 DEF FilesInv, Origins
        <4> QED
          BY <4>1, <4>2, <4>3
      <3>2. ASSUME NEW c \in Files!Call, fileReq'[c].step = "half"
            PROVE  fileReq'[c].kind \in {"write", "save"} /\ fileReq'[c].to = fileReq'[c].name
        BY <2>6, <3>2 DEF FilesInv, Origins, Advances
      <3> QED
        BY <2>0, <3>1, <3>2 DEF Origins
    <2>12. Read'
      <3> SUFFICES ASSUME NEW k \in known
                   PROVE  /\ k.file.who # 0 /\ fileReq'[k.file.who].step \in {"half", "ok", "refused"}
                          /\ k.name \notin close' => ReadStands(k)'
        BY <1>2 DEF Read
      <3>1. /\ k.file.who # 0 /\ fileReq[k.file.who].step \in {"half", "ok", "refused"}
            /\ k.file.who \in Files!Call /\ k.name \in Files!Name /\ k.file.mtime \in 0..MaxSecond
        BY FilesTyped, FileFields DEF FilesInv, Read, Files!Call
      <3>2. k.file.who # r /\ fileReq'[k.file.who] = fileReq[k.file.who]
        BY <1>1, <2>6, <3>1 DEF Advances
      <3>3. ASSUME k.name \notin close' PROVE ReadStands(k)'
        <4>1. ReadStands(k)
          BY <2>5, <3>3 DEF FilesInv, Read
        <4>2. k.name \in {a, b} => k.file.mtime < second
          <5>1. CASE k.name \in {a, b} /\ dir[k.name] = k.file
            <6>1. dir[k.name].mtime # second
              BY <2>5, <3>1, <3>3, <5>1 DEF Files!Exists
            <6>2. dir[k.name].mtime <= second
              BY <3>1 DEF FilesInv, Times
            <6> QED
              BY <2>0, <3>1, <5>1, <6>1, <6>2
          <5>2. CASE dir[k.name] # k.file
            BY <4>1, <5>2 DEF ReadStands
          <5> QED
            BY <5>1, <5>2
        <4>3. CASE k.name = a
          <5>1. dir'[a] # k.file /\ dir'[a].who = 0
            BY <2>3, <2>4, <3>1
          <5> QED
            BY <1>2, <4>2, <4>3, <5>1 DEF ReadStands, Files!Exists
        <4>4. CASE k.name = b
          <5>1. a \notin close /\ ~Files!Mistaken(dir[a], b)
            BY <2>5, <3>3, <4>4
          <5>2. CASE dir[a] = k.file
            <6>1. k.file.who = w
              BY <5>2 DEF w
            <6>2. fileReq'[k.file.who].step # "half"
              BY <2>7, <2>8, <5>1, <6>1
            <6> QED
              BY <2>4, <4>4, <5>2, <6>2 DEF ReadStands
          <5>3. CASE dir[a] # k.file
            <6>1. k.file.mtime # dir[a].mtime
              BY <4>4, <5>1, <5>3 DEF Files!Mistaken
            <6> QED
              BY <1>2, <2>4, <4>2, <4>4, <5>3, <6>1 DEF ReadStands
          <5> QED
            BY <5>2, <5>3
        <4>5. CASE k.name \notin {a, b}
          <5>1. dir'[k.name] = dir[k.name]
            BY <2>4, <3>1, <4>5
          <5> QED
            BY <1>2, <3>2, <4>1, <5>1 DEF ReadStands, Files!Exists
        <4> QED
          BY <4>3, <4>4, <4>5
      <3> QED
        BY <3>1, <3>2, <3>3
    <2>13. Found'
      <3> SUFFICES ASSUME NEW q \in Files!Call, fileReq'[q].step = "checked", fileReq'[q].to \notin close'
                   PROVE  Holds(q)'
        BY <2>0 DEF Found
      <3>1. q # r
        BY <2>6
      <3>2. fileReq'[q] = fileReq[q] /\ q \in Files!Running /\ fileReq[q].to \in Files!Name
        BY <2>6, <3>1, WhoRuns DEF Advances, FilesInv
      <3>3. fileReq[q].to \notin {a, b}
        BY <1>1, <2>1, <2>5, <3>1, <3>2 DEF FilesInv, Overlaps, Files!Names
      <3>4. dir'[fileReq[q].to] = dir[fileReq[q].to]
        BY <2>4, <3>2, <3>3
      <3> QED
        BY <2>5, <3>2, <3>4 DEF FilesInv, Found, Holds, Files!Exists
    <2>14. Shape'
      BY <1>2, <2>0, <2>6 DEF FilesInv, Shape, ShapeOf, Advances, Files!Running
    <2>15. Times'
      <3>1. dir[a].mtime <= second /\ 0 <= second
        BY <2>0 DEF FilesInv, Times
      <3> QED
        BY <1>2, <2>0, <2>3, <2>4, <3>1 DEF FilesInv, Times
    <2>16. Files!LossNeedsARace'
      <3>1. Files!Exists(b) => b \in close
        BY <1>1, <1>3 DEF FilesInv, Found, Holds
      <3> QED
        BY <2>2, <2>5, <3>1 DEF FilesInv, Files!LossNeedsARace
    <2>17. Files!PartsAreAccounted'
      BY <1>2, <2>0, <2>6, FilesTyped DEF FilesInv, Files!PartsAreAccounted, Advances
    <2> QED
      BY <2>9, <2>10, <2>11, <2>12, <2>13, <2>14, <2>15, <2>16, <2>17 DEF FilesInv
  <1> QED
    BY <1>4, <1>5

LEMMA FilesBegin ==
    ASSUME Files!Init
    PROVE  FilesInv
  <1> USE FilesAssumption DEF Files!FilesAssumption
  <1>1. Files!Idle \in FileRequest /\ 0 \in Files!Name /\ Files!Absent \in Files!File
        /\ Files!Idle.step = "new" /\ Files!Absent.who = 0 /\ Files!Absent.mtime = 0
    BY DEF Files!Idle, Files!Absent, FileRequest, FileKind, FileStep, Files!Name, Files!File
  <1>2. parts = {} /\ second = 0 /\ close = {} /\ lost = {}
    BY DEF Files!Init
  <1>3. CASE /\ dir = [n \in Files!Name |-> Files!Absent] /\ known = {}
             /\ fileReq = [r \in Files!Call |-> Files!Idle]
    <2>1. Files!TypeOK
      BY <1>1, <1>2, <1>3, FilesTyped
    <2>2. \A n \in Files!Name : dir[n] = Files!Absent
      BY <1>3
    <2>3. \A r \in Files!Call : fileReq[r].step = "new" /\ r # 0
      BY <1>1, <1>3 DEF Files!Call
    <2>4. Overlaps /\ Origins /\ Found /\ Shape
      BY <1>1, <2>2, <2>3 DEF Overlaps, Origins, Found, Shape, Files!Running
    <2>5. Read /\ Times /\ Files!LossNeedsARace /\ Files!PartsAreAccounted
      BY <1>1, <1>2, <1>3, <2>2 DEF Read, Times, Files!LossNeedsARace, Files!PartsAreAccounted
    <2> QED
      BY <2>1, <2>4, <2>5 DEF FilesInv
  <1>4. CASE LET first == [who |-> 1, whole |-> TRUE, mtime |-> 0]
             IN /\ dir = [n \in Files!Name |-> IF n = 0 THEN first ELSE Files!Absent]
                /\ known = {[name |-> 0, file |-> first]}
                /\ fileReq = [r \in Files!Call |->
                     IF r = 1 THEN [Files!Idle EXCEPT !.kind = "write", !.step = "ok"] ELSE Files!Idle]
    <2> DEFINE first == [who |-> 1, whole |-> TRUE, mtime |-> 0]
               done == [Files!Idle EXCEPT !.kind = "write", !.step = "ok"]
               k == [name |-> 0, file |-> first]
    <2>1. first \in Files!File /\ first.who = 1 /\ first.mtime = 0
      BY DEF Files!File
    <2>2. done \in FileRequest /\ done.kind = "write" /\ done.step = "ok" /\ done.name = done.to
      <3>1. Files!Idle.name = Files!Idle.to
        BY DEF Files!Idle
      <3> QED
        BY <1>1, <3>1 DEF FileRequest, FileKind, FileStep
    <2>3. k.name = 0 /\ k.file = first /\ k \in [name : Files!Name, file : Files!File]
      BY <1>1, <2>1
    <2>4. 1 \in Files!Call /\ 0 \notin Files!Call
      BY DEF Files!Call
    <2>5. /\ dir = [n \in Files!Name |-> IF n = 0 THEN first ELSE Files!Absent] /\ known = {k}
          /\ fileReq = [r \in Files!Call |-> IF r = 1 THEN done ELSE Files!Idle]
      BY <1>4
    <2> HIDE DEF first, done, k
    <2>6. /\ dir \in [Files!Name -> Files!File] /\ dir[0] = first
          /\ \A n \in Files!Name \ {0} : dir[n] = Files!Absent
      BY <1>1, <2>1, <2>5
    <2>7. /\ fileReq \in [Files!Call -> FileRequest] /\ fileReq[1] = done
          /\ \A r \in Files!Call \ {1} : fileReq[r] = Files!Idle
      BY <1>1, <2>2, <2>4, <2>5
    <2>8. Files!TypeOK
      BY <1>2, <2>3, <2>5, <2>6, <2>7, FilesTyped
    <2>9. \A r \in Files!Call : fileReq[r].step = IF r = 1 THEN "ok" ELSE "new"
      BY <1>1, <2>2, <2>7
    <2>10. Overlaps /\ Found
      BY <2>9 DEF Overlaps, Found, Files!Running
    <2>11. Origins
      BY <1>1, <2>1, <2>4, <2>6, <2>9 DEF Origins
    <2>12. Read
      BY <2>1, <2>3, <2>4, <2>5, <2>6, <2>9 DEF Read, ReadStands
    <2>13. Shape
      BY <2>2, <2>7, <2>9 DEF Shape, ShapeOf
    <2>14. Times /\ Files!LossNeedsARace /\ Files!PartsAreAccounted
      BY <1>1, <1>2, <2>1, <2>6 DEF Times, Files!LossNeedsARace, Files!PartsAreAccounted
    <2> QED
      BY <2>8, <2>10, <2>11, <2>12, <2>13, <2>14 DEF FilesInv
  <1> QED
    BY <1>3, <1>4 DEF Files!Init

LEMMA FilesStutter ==
    ASSUME FilesInv, UNCHANGED filesAll
    PROVE  FilesInv'
  <1>1. UNCHANGED <<dir, parts, fileReq, known, second, close, lost>>
    BY DEF filesAll
  <1>2. Files!TypeOK' /\ Overlaps' /\ Origins' /\ Found'
    BY <1>1 DEF FilesInv, Files!TypeOK, Overlaps, Origins, Found, Holds, Files!Running, Files!Names,
       Files!Mutates, Files!Exists
  <1>3. Read' /\ Shape' /\ Times' /\ Files!LossNeedsARace' /\ Files!PartsAreAccounted'
    BY <1>1 DEF FilesInv, Read, ReadStands, Shape, ShapeOf, Times, Files!LossNeedsARace,
       Files!PartsAreAccounted, Files!Exists
  <1> QED
    BY <1>2, <1>3 DEF FilesInv

LEMMA FilesNext ==
    ASSUME FilesInv, Files!Next
    PROVE  FilesInv'
  <1>1. CASE Files!Tick
    BY <1>1, TickKeeps
  <1>2. ASSUME NEW r \in Files!Call,
               \/ Files!Arrives(r) \/ Files!ReadMeta(r) \/ Files!ReadContent(r) \/ Files!WriteCheck(r)
               \/ Files!WriteTruncates(r) \/ Files!WriteFills(r)
        PROVE  FilesInv'
    BY <1>2, ArrivesKeeps, ReadMetaKeeps, ReadContentKeeps, WriteCheckKeeps, WriteTruncatesKeeps,
       WriteFillsKeeps
  <1>3. ASSUME NEW r \in Files!Call,
               \/ Files!DestinationFree(r) \/ Files!CreateWrites(r) \/ Files!RenameMoves(r) \/ Files!Deletes(r)
               \/ Files!UploadStarts(r) \/ Files!UploadFails(r) \/ Files!ClientLeaves(r)
               \/ Files!UploadFinishes(r)
        PROVE  FilesInv'
    BY <1>3, DestinationFreeKeeps, CreateWritesKeeps, RenameMovesKeeps, DeletesKeeps, UploadStartsKeeps,
       UploadEndsKeeps, UploadFinishesKeeps
  <1> QED
    BY <1>1, <1>2, <1>3 DEF Files!Next

AgentSteps == [\/ AccessStep \/ BootStep \/ ListsStep \/ FilesStep
                \/ BytesStep \/ ExeStep \/ AutoStep \/ TuiStep]_all

\* A behaviour stays with its part.
LEMMA PartsApart ==
    ASSUME AgentSteps
    PROVE  /\ part' = part
           /\ part = "boot" => Boot!Next \/ UNCHANGED bootAll
           /\ part = "lists" => Lists!Next \/ UNCHANGED listsAll
           /\ part = "files" => Files!Next \/ UNCHANGED filesAll
           /\ part = "bytes" => Bytes!Download \/ UNCHANGED bytesAll
           /\ part = "exe" => Exe!Next \/ UNCHANGED exeAll
           /\ part = "auto" => Login!Next \/ UNCHANGED autoAll
           /\ part = "tui" => Tui!Next \/ UNCHANGED tuiAll
  BY DEF AgentSteps, AccessStep, BootStep, ListsStep, FilesStep, BytesStep, ExeStep, AutoStep, TuiStep, all

(* In a behaviour of any part the devices, credentials and requests behave  *)
(* as DeviceAccess says: what is proved of Spec holds beside the other      *)
(* parts of the agent.                                                      *)
THEOREM AccessInAgent == AgentSpec => Spec
  <1>1. AgentInit => Init
    BY DEF AgentInit
  <1>2. AgentSteps => [Next]_vars
    BY DEF AgentSteps, AccessStep, BootStep, ListsStep, FilesStep, BytesStep, ExeStep, AutoStep, TuiStep, all
  <1> QED
    BY <1>1, <1>2, PTL DEF AgentSpec, AgentSteps, Spec

LEMMA BytesStutter ==
    ASSUME BytesInv, UNCHANGED bytesAll
    PROVE  BytesInv'
  BY DEF bytesAll, BytesInv, Bytes!TypeOK, Bytes!NamedBytesAreSent, Bytes!Named

KeptInv == (part = "files" => FilesInv) /\ (part = "bytes" => BytesInv)

LEMMA KeptStep == KeptInv /\ AgentSteps => KeptInv'
  BY PartsApart, FilesNext, FilesStutter, DownloadAnswers, BytesStutter DEF KeptInv

(* FilesKept, for any number of requests, of numbered names, of seconds and *)
(* of bytes: a file that a client was told is written is lost only where    *)
(* requests on its name overlapped or shared a second, a temporary file is  *)
(* that of an upload under way or of a client that has gone, and a download *)
(* carries the bytes that its range names.                                  *)
THEOREM FilesAreKept == AgentSpec => []FilesKept
  <1>1. AgentInit => KeptInv
    BY FilesBegin, BytesAsked DEF AgentInit, KeptInv
  <1>2. KeptInv => FilesKept
    BY DEF KeptInv, FilesKept, FilesInv, BytesInv
  <1> QED
    BY <1>1, <1>2, KeptStep, PTL DEF AgentSpec, AgentSteps

(***************************************************************************)
(* The boot.  A secret that an agent has served with is the file that is    *)
(* there: only a file of nobody's identity is ever written, and one that was*)
(* cut is known to be torn.                                                 *)
(***************************************************************************)

Late == {"subscribe", "bind", "supervise", "watch", "serving"}

(* Where a boot is that has loaded a secret.                                *)
Past(s) ==
  Late \cup (IF s # "token" THEN {"token"} ELSE {})
       \cup (IF s \in {"key", "salt"} THEN {"seedHome", "seedRoot", "vapid"} ELSE {})
       \cup (IF s = "key" THEN {"salt"} ELSE {})

BinaryStaged ==
  /\ Boot!BinaryRuns
  /\ pc \in {"chmod", "move"} => tmp.whole
  /\ pc = "move" => tmp.exec

SecretStored(s) ==
  /\ file[s].whole => file[s].by # 0
  /\ writing /\ pc = s => file[s].by = boot /\ ~file[s].whole /\ kept[s].by = 0
  /\ file[s].by # 0 /\ ~file[s].whole => s \in torn \/ (writing /\ pc = s)
  /\ kept[s].by # 0 => file[s] = kept[s] /\ (file[s].whole \/ s = "key")
  /\ pc \in Past(s) => held[s] = file[s] /\ file[s].by # 0 /\ (file[s].whole \/ s = "key")
SecretsStored ==
  /\ boot = 0 => pc = "down"
  /\ writing => pc \in Boot!Secret
  /\ \A s \in Boot!Secret : SecretStored(s)

SeedsSown ==
  /\ seeds # {} /\ "root" \notin seeds => "seeds" \in torn \/ pc = "seedRoot"
  /\ pc \in {"vapid", "token"} \cup Late => seeds # {} \/ "seeds" \in torn

EarlySubscribed == pc \in Late \ {"subscribe"} => Boot!Early \subseteq bootSubs

BootInv ==
  /\ Boot!TypeOK /\ BinaryStaged /\ SecretsStored /\ SeedsSown
  /\ Boot!FailureIsTold /\ Boot!SecretsRarelyBlock /\ EarlySubscribed

BootPlace == {"cloudflared", "version", "download", "stage", "fill", "chmod", "move", "clean", "db",
              "key", "salt", "seedHome", "seedRoot", "vapid", "token",
              "subscribe", "bind", "supervise", "watch", "serving"}
SecretFile == [by : 0..MaxBoot, whole : BOOLEAN]
BinaryFile == [by : 0..MaxBoot, whole : BOOLEAN, exec : BOOLEAN]

LEMMA StepsAre ==
    /\ {Boot!Steps[i] : i \in 1..Len(Boot!Steps)} = BootPlace
    /\ Len(Boot!Steps) = 20
  <1>1. Len(Boot!Steps) = 20
    BY DEF Boot!Steps
  <1>2. \A i \in 1..20 : Boot!Steps[i] \in BootPlace
    BY DEF Boot!Steps, BootPlace
  <1>3. \A p \in BootPlace : \E i \in 1..20 : Boot!Steps[i] = p
    <2>1. /\ Boot!Steps[1] = "cloudflared" /\ Boot!Steps[2] = "version" /\ Boot!Steps[3] = "download"
          /\ Boot!Steps[4] = "stage" /\ Boot!Steps[5] = "fill" /\ Boot!Steps[6] = "chmod"
          /\ Boot!Steps[7] = "move" /\ Boot!Steps[8] = "clean" /\ Boot!Steps[9] = "db"
          /\ Boot!Steps[10] = "key" /\ Boot!Steps[11] = "salt" /\ Boot!Steps[12] = "seedHome"
          /\ Boot!Steps[13] = "seedRoot" /\ Boot!Steps[14] = "vapid" /\ Boot!Steps[15] = "token"
          /\ Boot!Steps[16] = "subscribe" /\ Boot!Steps[17] = "bind" /\ Boot!Steps[18] = "supervise"
          /\ Boot!Steps[19] = "watch" /\ Boot!Steps[20] = "serving"
      BY DEF Boot!Steps
    <2>2. {1, 2, 3, 4, 5, 6, 7, 8, 9, 10, 11, 12, 13, 14, 15, 16, 17, 18, 19, 20} \subseteq 1..20
      OBVIOUS
    <2> QED
      BY <2>1, <2>2 DEF BootPlace
  <1> QED
    BY <1>1, <1>2, <1>3

LEMMA OnwardIs ==
    /\ pc = "key" => Boot!Onward = "salt"
    /\ pc = "salt" => Boot!Onward = "seedHome"
    /\ pc = "vapid" => Boot!Onward = "token"
    /\ pc = "token" => Boot!Onward = "subscribe"
    /\ pc = "subscribe" => Boot!Onward = "bind"
    /\ pc = "watch" => Boot!Onward = "serving"
  <1>1. Len(Boot!Steps) = 20
    BY DEF Boot!Steps
  <1>2. /\ Boot!Steps[10] = "key" /\ Boot!Steps[11] = "salt" /\ Boot!Steps[12] = "seedHome"
        /\ Boot!Steps[14] = "vapid" /\ Boot!Steps[15] = "token"
        /\ Boot!Steps[16] = "subscribe" /\ Boot!Steps[17] = "bind"
        /\ Boot!Steps[19] = "watch" /\ Boot!Steps[20] = "serving"
    BY DEF Boot!Steps
  <1>3. \A i \in 1..20 :
          /\ Boot!Steps[i] = "key" => i = 10
          /\ Boot!Steps[i] = "salt" => i = 11
          /\ Boot!Steps[i] = "vapid" => i = 14
          /\ Boot!Steps[i] = "token" => i = 15
          /\ Boot!Steps[i] = "subscribe" => i = 16
          /\ Boot!Steps[i] = "watch" => i = 19
    BY DEF Boot!Steps
  <1>4. ASSUME NEW n \in 1..20, \A i \in 1..20 : Boot!Steps[i] = pc <=> i = n
        PROVE  Boot!Onward = Boot!Steps[1 + n]
    <2>1. (CHOOSE i \in 1..Len(Boot!Steps) : Boot!Steps[i] = pc) = n
      BY <1>1, <1>4
    <2> QED
      BY <2>1 DEF Boot!Onward
  <1>5. CASE pc = "key"
    BY <1>2, <1>3, <1>4, <1>5
  <1>6. CASE pc = "salt"
    BY <1>2, <1>3, <1>4, <1>6
  <1>7. CASE pc = "vapid"
    BY <1>2, <1>3, <1>4, <1>7
  <1>8. CASE pc = "token"
    BY <1>2, <1>3, <1>4, <1>8
  <1>9. CASE pc = "subscribe"
    BY <1>2, <1>3, <1>4, <1>9
  <1>10. CASE pc = "watch"
    BY <1>2, <1>3, <1>4, <1>10
  <1> QED
    BY <1>5, <1>6, <1>7, <1>8, <1>9, <1>10

LEMMA BootTyped ==
    Boot!TypeOK <=>
      /\ pc \in {"down"} \cup BootPlace /\ writing \in BOOLEAN
      /\ ended \in {"none", "killed"} \cup BootPlace
      /\ boot \in 0..MaxBoot /\ try \in 1..MaxTry
      /\ cf \in BinaryFile /\ tmp \in BinaryFile
      /\ told \in {"none", "preparing", "failed"}
      /\ file \in [Boot!Secret -> SecretFile] /\ held \in [Boot!Secret -> SecretFile]
      /\ seeds \subseteq {"home", "root"} /\ bootSubs \subseteq Boot!Subscriber
      /\ torn \subseteq Boot!Secret \cup {"seeds"}
      /\ kept \in [Boot!Secret -> SecretFile]
  <1>1. Boot!Unloaded \in [Boot!Secret -> SecretFile]
    BY BootAssumption DEF Boot!Unloaded, Boot!Missing, SecretFile, Boot!StartupAssumption
  <1> QED
    BY <1>1, StepsAre DEF Boot!TypeOK, SecretFile, BinaryFile

(* The binary is moved into place when it is whole and can be executed.     *)
LEMMA StagedKeeps ==
    ASSUME BootInv, Boot!Next
    PROVE  BinaryStaged'
  <1>0. BootInv /\ MaxBoot \in Nat /\ MaxTry \in Nat \ {0} /\ boot \in 0..MaxBoot /\ try \in 1..MaxTry
    BY BootAssumption, BootTyped DEF BootInv, Boot!StartupAssumption
  <1>1. CASE Boot!Run
    BY <1>0, <1>1, BootTyped, OnwardIs DEF Boot!Run, BootInv, BinaryStaged, Boot!BinaryRuns,
       Boot!NoBinary, BinaryFile, Boot!Secret
  <1>2. CASE Boot!Killed
    BY <1>0, <1>2, BootTyped, OnwardIs DEF Boot!Killed, Boot!Down, BootInv, BinaryStaged,
       Boot!BinaryRuns, Boot!NoBinary, BinaryFile, Boot!Secret
  <1>3. CASE Boot!Check \/ Boot!Version \/ Boot!Download
    BY <1>0, <1>3, BootTyped, OnwardIs DEF Boot!Check, Boot!Version, Boot!Download, Boot!Go,
       Boot!DownloadFails, Boot!Down, BootInv, BinaryStaged, Boot!BinaryRuns, Boot!NoBinary,
       BinaryFile, Boot!Secret
  <1>4. CASE Boot!Stage \/ Boot!Fill
    BY <1>0, <1>4, BootTyped, OnwardIs DEF Boot!Stage, Boot!Fill, Boot!Go, Boot!DownloadFails,
       Boot!Down, BootInv, BinaryStaged, Boot!BinaryRuns, Boot!NoBinary, BinaryFile, Boot!Secret
  <1>5. CASE Boot!Place \/ Boot!Clean
    BY <1>0, <1>5, BootTyped, OnwardIs DEF Boot!Place, Boot!Clean, Boot!Go, Boot!DownloadFails,
       Boot!Down, BootInv, BinaryStaged, Boot!BinaryRuns, Boot!NoBinary, BinaryFile, Boot!Secret
  <1>6. CASE Boot!Db \/ Boot!Bind
    BY <1>0, <1>6, BootTyped, OnwardIs DEF Boot!Db, Boot!Bind, Boot!Go, Boot!Down, BootInv,
       BinaryStaged, Boot!BinaryRuns, Boot!NoBinary, BinaryFile, Boot!Secret
  <1>7. CASE Boot!SigningKey \/ Boot!Salt
    BY <1>0, <1>7, BootTyped, OnwardIs DEF Boot!SigningKey, Boot!Salt, Boot!At, Boot!Others,
       Boot!Load, Boot!Create, BootInv, BinaryStaged, Boot!BinaryRuns, Boot!NoBinary, BinaryFile,
       Boot!Secret
  <1>8. CASE Boot!Vapid \/ Boot!NotifyToken
    BY <1>0, <1>8, BootTyped, OnwardIs DEF Boot!Vapid, Boot!NotifyToken, Boot!At, Boot!Others,
       Boot!Load, Boot!Create, Boot!Down, BootInv, BinaryStaged, Boot!BinaryRuns, Boot!NoBinary,
       BinaryFile, Boot!Secret
  <1>9. CASE Boot!SeedHome \/ Boot!SeedRoot
    BY <1>0, <1>9, BootTyped, OnwardIs DEF Boot!SeedHome, Boot!SeedRoot, Boot!Go, Boot!Down, BootInv,
       BinaryStaged, Boot!BinaryRuns, Boot!NoBinary, BinaryFile, Boot!Secret
  <1>10. CASE Boot!Subscribe \/ Boot!Watch
    BY <1>0, <1>10, BootTyped, OnwardIs DEF Boot!Subscribe, Boot!Watch, Boot!Joins, BootInv,
       BinaryStaged, Boot!BinaryRuns, Boot!NoBinary, BinaryFile, Boot!Secret
  <1>11. CASE Boot!Supervise
    BY <1>0, <1>11, BootTyped, OnwardIs DEF Boot!Supervise, Boot!Go, BootInv, BinaryStaged,
       Boot!BinaryRuns, Boot!NoBinary, BinaryFile, Boot!Secret
  <1>12. ASSUME NEW s \in Boot!Secret, Boot!Written(s) PROVE BinaryStaged'
    BY <1>0, <1>12, BootTyped, OnwardIs DEF Boot!Written, Boot!Others, Boot!Down, BootInv,
       BinaryStaged, Boot!BinaryRuns, Boot!NoBinary, BinaryFile, Boot!Secret
  <1> QED
    BY <1>1, <1>2, <1>3, <1>4, <1>5, <1>6, <1>7, <1>8, <1>9, <1>10, <1>11, <1>12 DEF Boot!Next

LEMMA TellingKeeps ==
    ASSUME BootInv, Boot!Next
    PROVE  Boot!FailureIsTold' /\ EarlySubscribed'
  <1>0. BootInv /\ MaxBoot \in Nat /\ MaxTry \in Nat \ {0} /\ boot \in 0..MaxBoot /\ try \in 1..MaxTry
    BY BootAssumption, BootTyped DEF BootInv, Boot!StartupAssumption
  <1>1. CASE Boot!Run
    BY <1>0, <1>1, BootTyped, OnwardIs DEF Boot!Run, BootInv, Boot!FailureIsTold, EarlySubscribed,
       Late, Boot!Early, Boot!Subscriber, Boot!Downloading, Boot!Secret
  <1>2. CASE Boot!Killed
    BY <1>0, <1>2, BootTyped, OnwardIs DEF Boot!Killed, Boot!Down, BootInv, Boot!FailureIsTold,
       EarlySubscribed, Late, Boot!Early, Boot!Subscriber, Boot!Downloading, Boot!Secret
  <1>3. CASE Boot!Check \/ Boot!Version \/ Boot!Download
    BY <1>0, <1>3, BootTyped, OnwardIs DEF Boot!Check, Boot!Version, Boot!Download, Boot!Go,
       Boot!DownloadFails, Boot!Down, BootInv, Boot!FailureIsTold, EarlySubscribed, Late,
       Boot!Early, Boot!Subscriber, Boot!Downloading, Boot!Secret
  <1>4. CASE Boot!Stage \/ Boot!Fill
    BY <1>0, <1>4, BootTyped, OnwardIs DEF Boot!Stage, Boot!Fill, Boot!Go, Boot!DownloadFails,
       Boot!Down, BootInv, Boot!FailureIsTold, EarlySubscribed, Late, Boot!Early, Boot!Subscriber,
       Boot!Downloading, Boot!Secret
  <1>5. CASE Boot!Place \/ Boot!Clean
    BY <1>0, <1>5, BootTyped, OnwardIs DEF Boot!Place, Boot!Clean, Boot!Go, Boot!DownloadFails,
       Boot!Down, BootInv, Boot!FailureIsTold, EarlySubscribed, Late, Boot!Early, Boot!Subscriber,
       Boot!Downloading, Boot!Secret
  <1>6. CASE Boot!Db \/ Boot!Bind
    BY <1>0, <1>6, BootTyped, OnwardIs DEF Boot!Db, Boot!Bind, Boot!Go, Boot!Down, BootInv,
       Boot!FailureIsTold, EarlySubscribed, Late, Boot!Early, Boot!Subscriber, Boot!Downloading,
       Boot!Secret
  <1>7. CASE Boot!SigningKey \/ Boot!Salt
    BY <1>0, <1>7, BootTyped, OnwardIs DEF Boot!SigningKey, Boot!Salt, Boot!At, Boot!Others,
       Boot!Load, Boot!Create, BootInv, Boot!FailureIsTold, EarlySubscribed, Late, Boot!Early,
       Boot!Subscriber, Boot!Downloading, Boot!Secret
  <1>8. CASE Boot!Vapid \/ Boot!NotifyToken
    BY <1>0, <1>8, BootTyped, OnwardIs DEF Boot!Vapid, Boot!NotifyToken, Boot!At, Boot!Others,
       Boot!Load, Boot!Create, Boot!Down, BootInv, Boot!FailureIsTold, EarlySubscribed, Late,
       Boot!Early, Boot!Subscriber, Boot!Downloading, Boot!Secret
  <1>9. CASE Boot!SeedHome \/ Boot!SeedRoot
    BY <1>0, <1>9, BootTyped, OnwardIs DEF Boot!SeedHome, Boot!SeedRoot, Boot!Go, Boot!Down, BootInv,
       Boot!FailureIsTold, EarlySubscribed, Late, Boot!Early, Boot!Subscriber, Boot!Downloading,
       Boot!Secret
  <1>10. CASE Boot!Subscribe \/ Boot!Watch
    BY <1>0, <1>10, BootTyped, OnwardIs DEF Boot!Subscribe, Boot!Watch, Boot!Joins, BootInv,
       Boot!FailureIsTold, EarlySubscribed, Late, Boot!Early, Boot!Subscriber, Boot!Downloading,
       Boot!Secret
  <1>11. CASE Boot!Supervise
    BY <1>0, <1>11, BootTyped, OnwardIs DEF Boot!Supervise, Boot!Go, BootInv, Boot!FailureIsTold,
       EarlySubscribed, Late, Boot!Early, Boot!Subscriber, Boot!Downloading, Boot!Secret
  <1>12. ASSUME NEW s \in Boot!Secret, Boot!Written(s) PROVE Boot!FailureIsTold' /\ EarlySubscribed'
    BY <1>0, <1>12, BootTyped, OnwardIs DEF Boot!Written, Boot!Others, Boot!Down, BootInv,
       Boot!FailureIsTold, EarlySubscribed, Late, Boot!Early, Boot!Subscriber, Boot!Downloading,
       Boot!Secret
  <1> QED
    BY <1>1, <1>2, <1>3, <1>4, <1>5, <1>6, <1>7, <1>8, <1>9, <1>10, <1>11, <1>12 DEF Boot!Next

LEMMA SeedsKeep ==
    ASSUME BootInv, Boot!Next
    PROVE  SeedsSown'
  <1>0. BootInv /\ MaxBoot \in Nat /\ MaxTry \in Nat \ {0} /\ boot \in 0..MaxBoot /\ try \in 1..MaxTry
    BY BootAssumption, BootTyped DEF BootInv, Boot!StartupAssumption
  <1>1. CASE Boot!Run
    BY <1>0, <1>1, BootTyped, OnwardIs DEF Boot!Run, BootInv, SeedsSown, Late, Boot!Secret
  <1>2. CASE Boot!Killed
    BY <1>0, <1>2, BootTyped, OnwardIs DEF Boot!Killed, Boot!Down, BootInv, SeedsSown, Late,
       Boot!Secret
  <1>3. CASE Boot!Check \/ Boot!Version \/ Boot!Download
    BY <1>0, <1>3, BootTyped, OnwardIs DEF Boot!Check, Boot!Version, Boot!Download, Boot!Go,
       Boot!DownloadFails, Boot!Down, BootInv, SeedsSown, Late, Boot!Secret
  <1>4. CASE Boot!Stage \/ Boot!Fill
    BY <1>0, <1>4, BootTyped, OnwardIs DEF Boot!Stage, Boot!Fill, Boot!Go, Boot!DownloadFails,
       Boot!Down, BootInv, SeedsSown, Late, Boot!Secret
  <1>5. CASE Boot!Place \/ Boot!Clean
    BY <1>0, <1>5, BootTyped, OnwardIs DEF Boot!Place, Boot!Clean, Boot!Go, Boot!DownloadFails,
       Boot!Down, BootInv, SeedsSown, Late, Boot!Secret
  <1>6. CASE Boot!Db \/ Boot!Bind
    BY <1>0, <1>6, BootTyped, OnwardIs DEF Boot!Db, Boot!Bind, Boot!Go, Boot!Down, BootInv,
       SeedsSown, Late, Boot!Secret
  <1>7. CASE Boot!SigningKey \/ Boot!Salt
    BY <1>0, <1>7, BootTyped, OnwardIs DEF Boot!SigningKey, Boot!Salt, Boot!At, Boot!Others,
       Boot!Load, Boot!Create, BootInv, SeedsSown, Late, Boot!Secret
  <1>8. CASE Boot!Vapid \/ Boot!NotifyToken
    BY <1>0, <1>8, BootTyped, OnwardIs DEF Boot!Vapid, Boot!NotifyToken, Boot!At, Boot!Others,
       Boot!Load, Boot!Create, Boot!Down, BootInv, SeedsSown, Late, Boot!Secret
  <1>9. CASE Boot!SeedHome \/ Boot!SeedRoot
    BY <1>0, <1>9, BootTyped, OnwardIs DEF Boot!SeedHome, Boot!SeedRoot, Boot!Go, Boot!Down, BootInv,
       SeedsSown, Late, Boot!Secret
  <1>10. CASE Boot!Subscribe \/ Boot!Watch
    BY <1>0, <1>10, BootTyped, OnwardIs DEF Boot!Subscribe, Boot!Watch, Boot!Joins, BootInv,
       SeedsSown, Late, Boot!Secret
  <1>11. CASE Boot!Supervise
    BY <1>0, <1>11, BootTyped, OnwardIs DEF Boot!Supervise, Boot!Go, BootInv, SeedsSown, Late,
       Boot!Secret
  <1>12. ASSUME NEW s \in Boot!Secret, Boot!Written(s) PROVE SeedsSown'
    BY <1>0, <1>12, BootTyped, OnwardIs DEF Boot!Written, Boot!Others, Boot!Down, BootInv,
       SeedsSown, Late, Boot!Secret
  <1> QED
    BY <1>1, <1>2, <1>3, <1>4, <1>5, <1>6, <1>7, <1>8, <1>9, <1>10, <1>11, <1>12 DEF Boot!Next

LEMMA PlacesTyped ==
    ASSUME BootInv, Boot!Next
    PROVE  /\ pc' \in {"down"} \cup BootPlace /\ writing' \in BOOLEAN /\ told' \in {"none", "preparing", "failed"}
           /\ ended' \in {"none", "killed"} \cup BootPlace /\ boot' \in 0..MaxBoot /\ try' \in 1..MaxTry
           /\ seeds' \subseteq {"home", "root"} /\ bootSubs' \subseteq Boot!Subscriber
           /\ torn' \subseteq Boot!Secret \cup {"seeds"}
  <1>0. BootInv /\ MaxBoot \in Nat /\ MaxTry \in Nat \ {0} /\ boot \in 0..MaxBoot /\ try \in 1..MaxTry
    BY BootAssumption, BootTyped DEF BootInv, Boot!StartupAssumption
  <1>1. CASE Boot!Run
    BY <1>0, <1>1, BootTyped, OnwardIs DEF Boot!Run, BootInv, BootPlace, Boot!Subscriber,
       Boot!Early, Boot!Secret
  <1>2. CASE Boot!Killed
    BY <1>0, <1>2, BootTyped, OnwardIs DEF Boot!Killed, Boot!Down, BootInv, BootPlace,
       Boot!Subscriber, Boot!Early, Boot!Secret
  <1>3. CASE Boot!Check \/ Boot!Version \/ Boot!Download
    <2>1. CASE Boot!Check
      BY <1>0, <2>1, BootTyped DEF Boot!Check, Boot!Go, BootInv, BootPlace
    <2>2. CASE Boot!Version
      <3>1. CASE Boot!Go("download") /\ UNCHANGED <<try, told>>
        BY <1>0, <2>2, <3>1, BootTyped DEF Boot!Version, Boot!Go, BootInv, BootPlace
      <3>2. CASE try < MaxTry /\ try' = try + 1 /\ Boot!Go("version") /\ UNCHANGED told
        BY <1>0, <2>2, <3>2, BootTyped DEF Boot!Version, Boot!Go, BootInv, BootPlace
      <3>3. CASE Boot!DownloadFails /\ UNCHANGED try
        BY <1>0, <2>2, <3>3, BootTyped DEF Boot!Version, Boot!DownloadFails, Boot!Down, BootInv, BootPlace
      <3> QED
        BY <2>2, <3>1, <3>2, <3>3 DEF Boot!Version
    <2>3. CASE Boot!Download
      BY <1>0, <2>3, BootTyped DEF Boot!Download, Boot!Go, Boot!DownloadFails, Boot!Down, BootInv, BootPlace
    <2> QED
      BY <1>3, <2>1, <2>2, <2>3
  <1>4. CASE Boot!Stage \/ Boot!Fill
    BY <1>0, <1>4, BootTyped, OnwardIs DEF Boot!Stage, Boot!Fill, Boot!Go, Boot!DownloadFails,
       Boot!Down, BootInv, BootPlace, Boot!Subscriber, Boot!Early, Boot!Secret
  <1>5. CASE Boot!Place \/ Boot!Clean
    BY <1>0, <1>5, BootTyped, OnwardIs DEF Boot!Place, Boot!Clean, Boot!Go, Boot!DownloadFails,
       Boot!Down, BootInv, BootPlace, Boot!Subscriber, Boot!Early, Boot!Secret
  <1>6. CASE Boot!Db \/ Boot!Bind
    BY <1>0, <1>6, BootTyped, OnwardIs DEF Boot!Db, Boot!Bind, Boot!Go, Boot!Down, BootInv,
       BootPlace, Boot!Subscriber, Boot!Early, Boot!Secret
  <1>7. CASE Boot!SigningKey \/ Boot!Salt
    BY <1>0, <1>7, BootTyped, OnwardIs DEF Boot!SigningKey, Boot!Salt, Boot!At, Boot!Others,
       Boot!Load, Boot!Create, BootInv, BootPlace, Boot!Subscriber, Boot!Early, Boot!Secret
  <1>8. CASE Boot!Vapid \/ Boot!NotifyToken
    BY <1>0, <1>8, BootTyped, OnwardIs DEF Boot!Vapid, Boot!NotifyToken, Boot!At, Boot!Others,
       Boot!Load, Boot!Create, Boot!Down, BootInv, BootPlace, Boot!Subscriber, Boot!Early,
       Boot!Secret
  <1>9. CASE Boot!SeedHome \/ Boot!SeedRoot
    BY <1>0, <1>9, BootTyped, OnwardIs DEF Boot!SeedHome, Boot!SeedRoot, Boot!Go, Boot!Down, BootInv,
       BootPlace, Boot!Subscriber, Boot!Early, Boot!Secret
  <1>10. CASE Boot!Subscribe \/ Boot!Watch
    BY <1>0, <1>10, BootTyped, OnwardIs DEF Boot!Subscribe, Boot!Watch, Boot!Joins, BootInv,
       BootPlace, Boot!Subscriber, Boot!Early, Boot!Secret
  <1>11. CASE Boot!Supervise
    BY <1>0, <1>11, BootTyped, OnwardIs DEF Boot!Supervise, Boot!Go, BootInv, BootPlace,
       Boot!Subscriber, Boot!Early, Boot!Secret
  <1>12. ASSUME NEW s \in Boot!Secret, Boot!Written(s) PROVE /\ pc' \in {"down"} \cup BootPlace /\ writing' \in BOOLEAN /\ told' \in {"none", "preparing", "failed"}
           /\ ended' \in {"none", "killed"} \cup BootPlace /\ boot' \in 0..MaxBoot /\ try' \in 1..MaxTry
           /\ seeds' \subseteq {"home", "root"} /\ bootSubs' \subseteq Boot!Subscriber
           /\ torn' \subseteq Boot!Secret \cup {"seeds"}
    BY <1>0, <1>12, BootTyped, OnwardIs DEF Boot!Written, Boot!Others, Boot!Down, BootInv,
       BootPlace, Boot!Subscriber, Boot!Early, Boot!Secret
  <1> QED
    BY <1>1, <1>2, <1>3, <1>4, <1>5, <1>6, <1>7, <1>8, <1>9, <1>10, <1>11, <1>12 DEF Boot!Next

LEMMA BinariesTyped ==
    ASSUME BootInv, Boot!Next
    PROVE  cf' \in BinaryFile /\ tmp' \in BinaryFile
  <1>0. BootInv /\ MaxBoot \in Nat /\ MaxTry \in Nat \ {0} /\ boot \in 0..MaxBoot /\ try \in 1..MaxTry
    BY BootAssumption, BootTyped DEF BootInv, Boot!StartupAssumption
  <1>1. CASE Boot!Run
    BY <1>0, <1>1, BootTyped DEF Boot!Run, BootInv, BinaryFile, Boot!NoBinary
  <1>2. CASE Boot!Killed
    BY <1>0, <1>2, BootTyped DEF Boot!Killed, Boot!Down, BootInv, BinaryFile, Boot!NoBinary
  <1>3. CASE Boot!Check \/ Boot!Version \/ Boot!Download
    BY <1>0, <1>3, BootTyped DEF Boot!Check, Boot!Version, Boot!Download, Boot!Go,
       Boot!DownloadFails, Boot!Down, BootInv, BinaryFile, Boot!NoBinary
  <1>4. CASE Boot!Stage \/ Boot!Fill
    BY <1>0, <1>4, BootTyped DEF Boot!Stage, Boot!Fill, Boot!Go, Boot!DownloadFails, Boot!Down,
       BootInv, BinaryFile, Boot!NoBinary
  <1>5. CASE Boot!Place \/ Boot!Clean
    <2>1. cf \in BinaryFile /\ tmp \in BinaryFile /\ Boot!NoBinary \in BinaryFile
      BY <1>0, BootTyped DEF BootInv, BinaryFile, Boot!NoBinary
    <2>2. [tmp EXCEPT !.exec = TRUE] \in BinaryFile
      BY <2>1 DEF BinaryFile
    <2> QED
      BY <1>5, <2>1, <2>2 DEF Boot!Place, Boot!Clean
  <1>6. CASE Boot!Db \/ Boot!Bind
    BY <1>0, <1>6, BootTyped DEF Boot!Db, Boot!Bind, Boot!Go, Boot!Down, BootInv, BinaryFile,
       Boot!NoBinary
  <1>7. CASE Boot!SigningKey \/ Boot!Salt
    BY <1>0, <1>7, BootTyped DEF Boot!SigningKey, Boot!Salt, Boot!At, Boot!Others, Boot!Load,
       Boot!Create, BootInv, BinaryFile, Boot!NoBinary
  <1>8. CASE Boot!Vapid \/ Boot!NotifyToken
    BY <1>0, <1>8, BootTyped DEF Boot!Vapid, Boot!NotifyToken, Boot!At, Boot!Others, Boot!Load,
       Boot!Create, Boot!Down, BootInv, BinaryFile, Boot!NoBinary
  <1>9. CASE Boot!SeedHome \/ Boot!SeedRoot
    BY <1>0, <1>9, BootTyped DEF Boot!SeedHome, Boot!SeedRoot, Boot!Go, Boot!Down, BootInv, BinaryFile,
       Boot!NoBinary
  <1>10. CASE Boot!Subscribe \/ Boot!Watch
    BY <1>0, <1>10, BootTyped DEF Boot!Subscribe, Boot!Watch, Boot!Joins, BootInv, BinaryFile,
       Boot!NoBinary
  <1>11. CASE Boot!Supervise
    BY <1>0, <1>11, BootTyped DEF Boot!Supervise, Boot!Go, BootInv, BinaryFile, Boot!NoBinary
  <1>12. ASSUME NEW s \in Boot!Secret, Boot!Written(s) PROVE cf' \in BinaryFile /\ tmp' \in BinaryFile
    BY <1>0, <1>12, BootTyped DEF Boot!Written, Boot!Others, Boot!Down, BootInv, BinaryFile,
       Boot!NoBinary
  <1> QED
    BY <1>1, <1>2, <1>3, <1>4, <1>5, <1>6, <1>7, <1>8, <1>9, <1>10, <1>11, <1>12 DEF Boot!Next

LEMMA UnloadedTyped == Boot!Unloaded \in [Boot!Secret -> SecretFile]
  BY BootAssumption DEF Boot!Unloaded, Boot!Missing, SecretFile, Boot!StartupAssumption

LEMMA SecretTaken ==
    ASSUME Boot!TypeOK, NEW s \in Boot!Secret, Boot!Load(s) \/ Boot!Create(s)
    PROVE  file' \in [Boot!Secret -> SecretFile] /\ held' \in [Boot!Secret -> SecretFile]
  <1>1. /\ file \in [Boot!Secret -> SecretFile] /\ held \in [Boot!Secret -> SecretFile]
        /\ [by |-> boot, whole |-> FALSE] \in SecretFile
    BY BootTyped DEF SecretFile
  <1> QED
    BY <1>1 DEF Boot!Load, Boot!Create

LEMMA FilesOfBootTyped ==
    ASSUME BootInv, Boot!Next
    PROVE  file' \in [Boot!Secret -> SecretFile] /\ held' \in [Boot!Secret -> SecretFile]
           /\ kept' \in [Boot!Secret -> SecretFile]
  <1>0. BootInv /\ MaxBoot \in Nat /\ MaxTry \in Nat \ {0} /\ boot \in 0..MaxBoot /\ try \in 1..MaxTry
    BY BootAssumption, BootTyped DEF BootInv, Boot!StartupAssumption
  <1>1. CASE Boot!Run
    BY <1>0, <1>1, BootTyped, UnloadedTyped DEF Boot!Run, BootInv
  <1>2. CASE Boot!Killed
    BY <1>0, <1>2, BootTyped, UnloadedTyped DEF Boot!Killed, Boot!Down, BootInv
  <1>3. CASE Boot!Check \/ Boot!Version \/ Boot!Download
    BY <1>0, <1>3, BootTyped, UnloadedTyped DEF Boot!Check, Boot!Version, Boot!Download, Boot!Go,
       Boot!DownloadFails, Boot!Down, BootInv
  <1>4. CASE Boot!Stage \/ Boot!Fill
    BY <1>0, <1>4, BootTyped, UnloadedTyped DEF Boot!Stage, Boot!Fill, Boot!Go, Boot!DownloadFails,
       Boot!Down, BootInv
  <1>5. CASE Boot!Place \/ Boot!Clean
    BY <1>0, <1>5, BootTyped, UnloadedTyped DEF Boot!Place, Boot!Clean, Boot!Go, Boot!DownloadFails,
       Boot!Down, BootInv
  <1>6. CASE Boot!Db \/ Boot!Bind
    BY <1>0, <1>6, BootTyped, UnloadedTyped DEF Boot!Db, Boot!Bind, Boot!Go, Boot!Down, BootInv
  <1>7. CASE Boot!SigningKey \/ Boot!Salt
    <2> DEFINE v == IF Boot!SigningKey THEN "key" ELSE "salt"
    <2>1. v \in Boot!Secret
      BY DEF Boot!Secret
    <2>2. Boot!Load(v) \/ Boot!Create(v)
      BY <1>7 DEF Boot!SigningKey, Boot!Salt
    <2>3. kept' = kept
      BY <1>7 DEF Boot!SigningKey, Boot!Salt, Boot!Others
    <2> HIDE DEF v
    <2> QED
      BY <1>0, <2>1, <2>2, <2>3, BootTyped, SecretTaken DEF BootInv
  <1>8. CASE Boot!Vapid \/ Boot!NotifyToken
    <2> DEFINE v == IF Boot!Vapid THEN "vapid" ELSE "token"
    <2>1. v \in Boot!Secret
      BY DEF Boot!Secret
    <2>2. Boot!Load(v) \/ Boot!Create(v) \/ (Boot!Down(pc) /\ UNCHANGED file)
      BY <1>8 DEF Boot!Vapid, Boot!NotifyToken
    <2>3. kept' = kept
      BY <1>8 DEF Boot!Vapid, Boot!NotifyToken, Boot!Others
    <2> HIDE DEF v
    <2> QED
      BY <1>0, <2>1, <2>2, <2>3, BootTyped, SecretTaken, UnloadedTyped DEF BootInv, Boot!Down
  <1>9. CASE Boot!SeedHome \/ Boot!SeedRoot
    BY <1>0, <1>9, BootTyped, UnloadedTyped DEF Boot!SeedHome, Boot!SeedRoot, Boot!Go, Boot!Down, BootInv
  <1>10. CASE Boot!Subscribe \/ Boot!Watch
    BY <1>0, <1>10, BootTyped, UnloadedTyped DEF Boot!Subscribe, Boot!Watch, Boot!Joins, BootInv
  <1>11. CASE Boot!Supervise
    BY <1>0, <1>11, BootTyped, UnloadedTyped DEF Boot!Supervise, Boot!Go, BootInv
  <1>12. ASSUME NEW s \in Boot!Secret, Boot!Written(s) PROVE file' \in [Boot!Secret -> SecretFile] /\ held' \in [Boot!Secret -> SecretFile]
           /\ kept' \in [Boot!Secret -> SecretFile]
    <2>1. kept' \in [Boot!Secret -> SecretFile] /\ file \in [Boot!Secret -> SecretFile] /\ held \in [Boot!Secret -> SecretFile]
      BY <1>0, <1>12, BootTyped DEF Boot!Written, Boot!Others, BootInv
    <2>2. CASE Boot!Down(pc) /\ UNCHANGED file
      BY <2>1, <2>2, UnloadedTyped DEF Boot!Down
    <2>3. CASE /\ file' = [file EXCEPT ![s].whole = TRUE]
               /\ held' = [held EXCEPT ![s] = file'[s]]
      <3>1. [file[s] EXCEPT !.whole = TRUE] \in SecretFile
        BY <1>12, <2>1 DEF SecretFile
      <3>2. file' = [file EXCEPT ![s] = [file[s] EXCEPT !.whole = TRUE]]
        BY <2>3
      <3>3. file' \in [Boot!Secret -> SecretFile]
        BY <2>1, <3>1, <3>2
      <3> QED
        BY <1>12, <2>1, <2>3, <3>3
    <2> QED
      BY <1>12, <2>2, <2>3 DEF Boot!Written
  <1> QED
    BY <1>1, <1>2, <1>3, <1>4, <1>5, <1>6, <1>7, <1>8, <1>9, <1>10, <1>11, <1>12 DEF Boot!Next

LEMMA Quiet ==
    ASSUME SecretsStored, writing = FALSE, UNCHANGED <<writing, boot, file, held, kept>>, boot # 0,
           torn \subseteq torn',
           \A s \in Boot!Secret : pc' \in Past(s) => pc \in Past(s)
    PROVE  SecretsStored'
  <1>1. \A s \in Boot!Secret : Past(s)' = Past(s)
    BY DEF Past, Late
  <1> QED
    BY <1>1 DEF SecretsStored, SecretStored, Boot!Secret

LEMMA Cut ==
    ASSUME SecretsStored, NEW how, Boot!Down(how), UNCHANGED <<boot, file, kept>>
    PROVE  SecretsStored'
  BY DEF SecretsStored, SecretStored, Boot!Down, Boot!Secret, Past, Late

(* A secret that is there is loaded ...                                     *)
LEMMA Loaded ==
    ASSUME BootInv, NEW v \in Boot!Secret, Boot!At(v), Boot!Load(v), UNCHANGED <<boot, kept>>,
           file[v].by # 0, file[v].whole \/ v = "key"
    PROVE  SecretsStored'
  <1>1. /\ pc = v /\ writing = FALSE /\ boot # 0 /\ held \in [Boot!Secret -> SecretFile]
        /\ UNCHANGED <<writing, file, torn>>
    BY BootTyped DEF Boot!At, Boot!Load, BootInv, SecretsStored, Boot!Secret
  <1>2. held'[v] = file[v] /\ \A s \in Boot!Secret \ {v} : held'[s] = held[s]
    BY <1>1 DEF Boot!Load
  <1>3. \A s \in Boot!Secret \ {v} : pc' \in Past(s) => pc \in Past(s)
    BY <1>1, OnwardIs DEF Boot!Load, Boot!Secret, Past, Late
  <1>4. boot' # 0
    BY <1>1
  <1>5. ASSUME NEW s \in Boot!Secret PROVE SecretStored(s)'
    <2>1. SecretStored(s)
      BY DEF BootInv, SecretsStored
    <2>2. CASE s = v
      BY <1>1, <1>2, <2>1, <2>2 DEF SecretStored
    <2>3. CASE s # v
      BY <1>1, <1>2, <1>3, <2>1, <2>3 DEF SecretStored, Past
    <2> QED
      BY <2>2, <2>3
  <1> QED
    BY <1>1, <1>4, <1>5 DEF SecretsStored, Boot!Secret

(* ... and one that is not there, or is cut, is written anew, unless it has *)
(* been served.                                                             *)
LEMMA Created ==
    ASSUME BootInv, NEW v \in Boot!Secret, Boot!At(v), Boot!Create(v), UNCHANGED <<boot, kept>>,
           kept[v].by = 0
    PROVE  SecretsStored'
  <1>1. /\ pc = v /\ writing = FALSE /\ writing' = TRUE /\ boot # 0 /\ boot \in Nat
        /\ file \in [Boot!Secret -> SecretFile] /\ UNCHANGED <<pc, held, torn>>
    BY BootTyped, BootAssumption DEF Boot!At, Boot!Create, BootInv, SecretsStored, Boot!Secret, Boot!StartupAssumption
  <1>2. file'[v] = [by |-> boot, whole |-> FALSE] /\ \A s \in Boot!Secret \ {v} : file'[s] = file[s]
    BY <1>1 DEF Boot!Create
  <1>3. file'[v].by = boot /\ file'[v].whole = FALSE
    BY <1>2
  <1>4. pc \notin Past(v)
    BY <1>1 DEF Past, Late, Boot!Secret
  <1>5. ASSUME NEW s \in Boot!Secret PROVE SecretStored(s)'
    <2>1. SecretStored(s)
      BY DEF BootInv, SecretsStored
    <2>2. CASE s = v
      BY <1>1, <1>3, <1>4, <2>1, <2>2 DEF SecretStored, Past
    <2>3. CASE s # v
      BY <1>1, <1>2, <2>1, <2>3 DEF SecretStored, Past
    <2> QED
      BY <2>2, <2>3
  <1> QED
    BY <1>1, <1>5 DEF SecretsStored, Boot!Secret

LEMMA WrittenKeeps ==
    ASSUME BootInv, NEW v \in Boot!Secret, Boot!Written(v)
    PROVE  SecretsStored'
  <1>1. /\ pc = v /\ writing = TRUE /\ boot # 0 /\ UNCHANGED <<boot, kept>>
        /\ file \in [Boot!Secret -> SecretFile] /\ held \in [Boot!Secret -> SecretFile]
    BY BootTyped DEF Boot!Written, Boot!Others, BootInv, SecretsStored, Boot!Secret
  <1>2. CASE Boot!Down(pc) /\ UNCHANGED file
    BY <1>1, <1>2, Cut DEF BootInv
  <1>3. CASE /\ file' = [file EXCEPT ![v].whole = TRUE] /\ held' = [held EXCEPT ![v] = file'[v]]
             /\ pc' = Boot!Onward /\ writing' = FALSE /\ UNCHANGED <<ended, bootSubs, torn>>
    <2> DEFINE f == [file[v] EXCEPT !.whole = TRUE]
    <2>1. f.whole = TRUE /\ f.by = file[v].by
      BY <1>1 DEF SecretFile
    <2>2. file' = [file EXCEPT ![v] = f]
      BY <1>3
    <2> HIDE DEF f
    <2>3. /\ file'[v] = f /\ held'[v] = f
          /\ \A s \in Boot!Secret \ {v} : file'[s] = file[s] /\ held'[s] = held[s]
      BY <1>1, <1>3, <2>2
    <2>4. SecretStored(v) /\ f.by # 0 /\ kept[v].by = 0
      BY <1>1, <2>1 DEF BootInv, SecretsStored, SecretStored
    <2>5. \A s \in Boot!Secret \ {v} : pc' \in Past(s) => pc \in Past(s)
      BY <1>1, <1>3, OnwardIs DEF Boot!Secret, Past, Late
    <2>6. ASSUME NEW s \in Boot!Secret PROVE SecretStored(s)'
      <3>1. SecretStored(s)
        BY DEF BootInv, SecretsStored
      <3>2. CASE s = v
        BY <1>1, <1>3, <2>1, <2>3, <2>4, <3>1, <3>2 DEF SecretStored
      <3>3. CASE s # v
        BY <1>1, <1>3, <2>3, <2>5, <3>1, <3>3 DEF SecretStored, Past
      <3> QED
        BY <3>2, <3>3
    <2> QED
      BY <1>1, <1>3, <2>6 DEF SecretsStored, Boot!Secret
  <1> QED
    BY <1>2, <1>3 DEF Boot!Written

LEMMA SecretsKeep ==
    ASSUME BootInv, Boot!Next
    PROVE  SecretsStored'
  <1> USE DEF Boot!Secret
  <1>0. /\ SecretsStored /\ boot \in 0..MaxBoot /\ MaxBoot \in Nat
        /\ pc \in {"down"} \cup BootPlace /\ writing \in BOOLEAN
        /\ pc # "down" => boot # 0
        /\ pc \notin Boot!Secret => writing = FALSE
        /\ kept \in [Boot!Secret -> SecretFile] /\ held \in [Boot!Secret -> SecretFile]
    BY BootTyped, BootAssumption DEF BootInv, SecretsStored, Boot!StartupAssumption
  <1>1. CASE Boot!Run
    BY <1>0, <1>1 DEF Boot!Run, SecretsStored, SecretStored, Past, Late
  <1>2. CASE Boot!Killed
    BY <1>0, <1>2, Cut DEF Boot!Killed
  <1>3. CASE Boot!Check \/ Boot!Version \/ Boot!Download
    <2>1. UNCHANGED <<boot, file, kept>> /\ pc \in {"cloudflared", "version", "download"}
      BY <1>3 DEF Boot!Check, Boot!Version, Boot!Download
    <2>2. Boot!Down(pc) \/ (UNCHANGED <<writing, held, torn>> /\ pc' \in {"version", "download", "stage", "fill", "chmod", "move", "clean", "db"})
      BY <1>3 DEF Boot!Check, Boot!Version, Boot!Download, Boot!Go, Boot!DownloadFails
    <2>3. CASE Boot!Down(pc)
      BY <1>0, <2>1, <2>3, Cut
    <2>4. CASE UNCHANGED <<writing, held, torn>> /\ pc' \in {"version", "download", "stage", "fill", "chmod", "move", "clean", "db"}
      <3>1. \A s \in Boot!Secret : pc' \in Past(s) => pc \in Past(s)
        BY <2>1, <2>4 DEF Past, Late
      <3>2. writing = FALSE /\ boot # 0
        BY <1>0, <2>1
      <3> QED
        BY <1>0, <2>1, <2>4, <3>1, <3>2, Quiet
    <2> QED
      BY <2>2, <2>3, <2>4
  <1>4. CASE Boot!Stage \/ Boot!Fill
    <2>1. UNCHANGED <<boot, file, kept>> /\ pc \in {"stage", "fill"}
      BY <1>4 DEF Boot!Stage, Boot!Fill
    <2>2. Boot!Down(pc) \/ (UNCHANGED <<writing, held, torn>> /\ pc' \in {"version", "download", "stage", "fill", "chmod", "move", "clean", "db"})
      BY <1>4 DEF Boot!Stage, Boot!Fill, Boot!Go, Boot!DownloadFails
    <2>3. CASE Boot!Down(pc)
      BY <1>0, <2>1, <2>3, Cut
    <2>4. CASE UNCHANGED <<writing, held, torn>> /\ pc' \in {"version", "download", "stage", "fill", "chmod", "move", "clean", "db"}
      <3>1. \A s \in Boot!Secret : pc' \in Past(s) => pc \in Past(s)
        BY <2>1, <2>4 DEF Past, Late
      <3>2. writing = FALSE /\ boot # 0
        BY <1>0, <2>1
      <3> QED
        BY <1>0, <2>1, <2>4, <3>1, <3>2, Quiet
    <2> QED
      BY <2>2, <2>3, <2>4
  <1>5. CASE Boot!Place \/ Boot!Clean
    <2>1. UNCHANGED <<boot, file, kept>> /\ pc \in {"chmod", "move", "clean"}
      BY <1>5 DEF Boot!Place, Boot!Clean
    <2>2. Boot!Down(pc) \/ (UNCHANGED <<writing, held, torn>> /\ pc' \in {"version", "download", "stage", "fill", "chmod", "move", "clean", "db"})
      BY <1>5 DEF Boot!Place, Boot!Clean, Boot!Go, Boot!DownloadFails
    <2>3. CASE Boot!Down(pc)
      BY <1>0, <2>1, <2>3, Cut
    <2>4. CASE UNCHANGED <<writing, held, torn>> /\ pc' \in {"version", "download", "stage", "fill", "chmod", "move", "clean", "db"}
      <3>1. \A s \in Boot!Secret : pc' \in Past(s) => pc \in Past(s)
        BY <2>1, <2>4 DEF Past, Late
      <3>2. writing = FALSE /\ boot # 0
        BY <1>0, <2>1
      <3> QED
        BY <1>0, <2>1, <2>4, <3>1, <3>2, Quiet
    <2> QED
      BY <2>2, <2>3, <2>4
  <1>6. CASE Boot!Db
    <2>1. UNCHANGED <<boot, file, kept>> /\ pc \in {"db"}
      BY <1>6 DEF Boot!Db
    <2>2. Boot!Down(pc) \/ (UNCHANGED <<writing, held, torn>> /\ pc' \in {"key"})
      BY <1>6 DEF Boot!Db, Boot!Go
    <2>3. CASE Boot!Down(pc)
      BY <1>0, <2>1, <2>3, Cut
    <2>4. CASE UNCHANGED <<writing, held, torn>> /\ pc' \in {"key"}
      <3>1. \A s \in Boot!Secret : pc' \in Past(s) => pc \in Past(s)
        BY <2>1, <2>4 DEF Past, Late
      <3>2. writing = FALSE /\ boot # 0
        BY <1>0, <2>1
      <3> QED
        BY <1>0, <2>1, <2>4, <3>1, <3>2, Quiet
    <2> QED
      BY <2>2, <2>3, <2>4
  <1>15. CASE Boot!Bind
    <2>1. UNCHANGED <<boot, file, kept>> /\ pc \in {"bind"}
      BY <1>15 DEF Boot!Bind
    <2>2. Boot!Down(pc) \/ (UNCHANGED <<writing, held, torn>> /\ pc' \in {"supervise"})
      BY <1>15 DEF Boot!Bind, Boot!Go
    <2>3. CASE Boot!Down(pc)
      BY <1>0, <2>1, <2>3, Cut
    <2>4. CASE UNCHANGED <<writing, held, torn>> /\ pc' \in {"supervise"}
      <3>1. \A s \in Boot!Secret : pc' \in Past(s) => pc \in Past(s)
        BY <2>1, <2>4 DEF Past, Late
      <3>2. writing = FALSE /\ boot # 0
        BY <1>0, <2>1
      <3> QED
        BY <1>0, <2>1, <2>4, <3>1, <3>2, Quiet
    <2> QED
      BY <2>2, <2>3, <2>4
  <1>7. CASE Boot!SigningKey
    <2>1. Boot!At("key") /\ UNCHANGED <<boot, kept>> /\ SecretStored("key")
      BY <1>0, <1>7 DEF Boot!SigningKey, Boot!Others, SecretsStored
    <2> QED
      BY <1>7, <2>1, Loaded, Created DEF Boot!SigningKey, SecretStored
  <1>8. CASE Boot!Salt
    <2>1. Boot!At("salt") /\ UNCHANGED <<boot, kept>> /\ SecretStored("salt")
      BY <1>0, <1>8 DEF Boot!Salt, Boot!Others, SecretsStored
    <2> QED
      BY <1>8, <2>1, Loaded, Created DEF Boot!Salt, SecretStored
  <1>9. CASE Boot!Vapid
    <2>1. Boot!At("vapid") /\ UNCHANGED <<boot, kept>> /\ SecretStored("vapid")
      BY <1>0, <1>9 DEF Boot!Vapid, Boot!Others, SecretsStored
    <2> QED
      BY <1>0, <1>9, <2>1, Cut, Loaded, Created DEF Boot!Vapid, SecretStored
  <1>10. CASE Boot!NotifyToken
    <2>1. Boot!At("token") /\ UNCHANGED <<boot, kept>> /\ SecretStored("token")
      BY <1>0, <1>10 DEF Boot!NotifyToken, Boot!Others, SecretsStored
    <2> QED
      BY <1>10, <2>1, Loaded, Created DEF Boot!NotifyToken, SecretStored
  <1>11. ASSUME NEW s \in Boot!Secret, Boot!Written(s) PROVE SecretsStored'
    BY <1>11, WrittenKeeps
  <1>12. CASE Boot!SeedHome \/ Boot!SeedRoot
    <2>1. UNCHANGED <<boot, file, kept>> /\ pc \in {"seedHome", "seedRoot"}
      BY <1>12 DEF Boot!SeedHome, Boot!SeedRoot
    <2>2. \/ Boot!Down(pc)
          \/ /\ UNCHANGED <<writing, held>> /\ torn \subseteq torn'
             /\ pc' \in {"seedRoot", "vapid"}
      BY <1>12 DEF Boot!SeedHome, Boot!SeedRoot, Boot!Go
    <2>3. CASE Boot!Down(pc)
      BY <1>0, <2>1, <2>3, Cut
    <2>4. CASE /\ UNCHANGED <<writing, held>> /\ torn \subseteq torn'
               /\ pc' \in {"seedRoot", "vapid"}
      <3>1. \A s \in Boot!Secret : pc' \in Past(s) => pc \in Past(s)
        BY <2>1, <2>4 DEF Past, Late
      <3>2. writing = FALSE /\ boot # 0
        BY <1>0, <2>1
      <3> QED
        BY <1>0, <2>1, <2>4, <3>1, <3>2, Quiet
    <2> QED
      BY <2>2, <2>3, <2>4
  <1>13. CASE Boot!Subscribe \/ Boot!Watch
    <2>1. UNCHANGED <<boot, file, kept>> /\ pc \in {"subscribe", "watch"}
      BY <1>13 DEF Boot!Subscribe, Boot!Watch
    <2>2. UNCHANGED <<writing, held, torn>> /\ pc' \in Late
      BY <1>13, OnwardIs DEF Boot!Subscribe, Boot!Watch, Boot!Joins, Late
    <2>3. \A s \in Boot!Secret : pc' \in Past(s) => pc \in Past(s)
      BY <2>1, <2>2 DEF Past, Late
    <2>4. writing = FALSE /\ boot # 0
      BY <1>0, <2>1
    <2> QED
      BY <1>0, <2>1, <2>2, <2>3, <2>4, Quiet
  <1>14. CASE Boot!Supervise
    BY <1>0, <1>14 DEF Boot!Supervise, Boot!Go, SecretsStored, SecretStored, Past, Late
  <1> QED
    BY <1>1, <1>2, <1>3, <1>4, <1>5, <1>6, <1>7, <1>8, <1>9, <1>10, <1>11, <1>12, <1>13, <1>14, <1>15 DEF Boot!Next

(* A boot that ends at the push key has found it torn, or has torn it.       *)
LEMMA EndsAtVapid ==
    ASSUME Boot!Next
    PROVE  /\ torn \subseteq torn'
           /\ pc = "down" => pc' # "down"
           /\ pc # "down" /\ pc' = "down" /\ ended' = "vapid" =>
                /\ pc = "vapid" /\ Boot!Down(pc)
                /\ Boot!Vapid \/ \E s \in Boot!Secret : Boot!Written(s)
  BY OnwardIs DEF Boot!Next, Boot!Run, Boot!Killed, Boot!Check, Boot!Version, Boot!Download, Boot!Stage,
     Boot!Fill, Boot!Place, Boot!Clean, Boot!Db, Boot!SigningKey, Boot!Salt, Boot!Vapid, Boot!NotifyToken,
     Boot!Written, Boot!SeedHome, Boot!SeedRoot, Boot!Subscribe, Boot!Bind, Boot!Supervise, Boot!Watch,
     Boot!DownloadFails, Boot!Down, Boot!Go, Boot!Load, Boot!Create, Boot!Joins, Boot!At, Boot!Secret

LEMMA BlockedKeeps ==
    ASSUME BootInv, Boot!Next
    PROVE  Boot!SecretsRarelyBlock'
  <1>1. SUFFICES ASSUME pc' = "down", ended' = "vapid" PROVE "vapid" \in torn'
    BY DEF Boot!SecretsRarelyBlock
  <1>2. /\ torn \subseteq torn' /\ pc = "vapid" /\ Boot!Down(pc)
        /\ Boot!Vapid \/ \E s \in Boot!Secret : Boot!Written(s)
    BY <1>1, EndsAtVapid
  <1>3. SecretStored("vapid") /\ writing \in BOOLEAN
    BY BootTyped DEF BootInv, SecretsStored, Boot!Secret
  <1>4. CASE writing
    BY <1>2, <1>4 DEF Boot!Down, Boot!Secret
  <1>5. CASE ~writing
    <2>1. Boot!Vapid
      BY <1>2, <1>5 DEF Boot!Written
    <2>2. file["vapid"].by # 0 /\ ~file["vapid"].whole
      BY <1>1, <1>2, <2>1, OnwardIs DEF Boot!Vapid, Boot!Load, Boot!Create
    <2> QED
      BY <1>2, <1>3, <1>5, <2>2 DEF SecretStored
  <1> QED
    BY <1>4, <1>5

LEMMA BootBegins ==
    ASSUME Boot!Init
    PROVE  BootInv
  <1> USE BootAssumption DEF Boot!StartupAssumption
  <1>1. /\ pc = "down" /\ writing = FALSE /\ ended = "none" /\ boot = 0 /\ try = 1 /\ told = "none"
        /\ cf = [by |-> 0, whole |-> FALSE, exec |-> FALSE] /\ tmp = [by |-> 0, whole |-> FALSE, exec |-> FALSE]
        /\ file = Boot!Unloaded /\ held = Boot!Unloaded /\ kept = Boot!Unloaded
        /\ seeds = {} /\ bootSubs = {} /\ torn = {}
    BY DEF Boot!Init, Boot!NoBinary
  <1>2. Boot!TypeOK
    <2>1. cf \in BinaryFile /\ tmp \in BinaryFile
      BY <1>1 DEF BinaryFile
    <2>2. file \in [Boot!Secret -> SecretFile] /\ held \in [Boot!Secret -> SecretFile]
          /\ kept \in [Boot!Secret -> SecretFile]
      BY <1>1, UnloadedTyped
    <2>3. boot \in 0..MaxBoot /\ try \in 1..MaxTry
      BY <1>1
    <2>4. /\ pc \in {"down"} \cup BootPlace /\ writing \in BOOLEAN /\ ended \in {"none", "killed"} \cup BootPlace
          /\ told \in {"none", "preparing", "failed"} /\ seeds \subseteq {"home", "root"}
          /\ bootSubs \subseteq Boot!Subscriber /\ torn \subseteq Boot!Secret \cup {"seeds"}
      BY <1>1
    <2> QED
      BY <2>1, <2>2, <2>3, <2>4, BootTyped
  <1>3. \A s \in Boot!Secret : Boot!Unloaded[s].by = 0 /\ Boot!Unloaded[s].whole = FALSE
    BY DEF Boot!Unloaded, Boot!Missing
  <1>4. SecretsStored
    <2>1. \A s \in Boot!Secret : pc \notin Past(s)
      BY <1>1 DEF Past, Late
    <2> QED
      BY <1>1, <1>3, <2>1 DEF SecretsStored, SecretStored
  <1>5. BinaryStaged /\ SeedsSown /\ Boot!FailureIsTold /\ Boot!SecretsRarelyBlock /\ EarlySubscribed
    BY <1>1 DEF BinaryStaged, Boot!BinaryRuns, SeedsSown, Boot!FailureIsTold, Boot!SecretsRarelyBlock,
       EarlySubscribed, Late, Boot!Downloading
  <1> QED
    BY <1>2, <1>4, <1>5 DEF BootInv

LEMMA BootNext ==
    ASSUME BootInv, Boot!Next
    PROVE  BootInv'
  <1>1. Boot!TypeOK'
    <2>1. Boot!Secret' = Boot!Secret /\ Boot!Subscriber' = Boot!Subscriber
      BY DEF Boot!Secret, Boot!Subscriber, Boot!Early
    <2> QED
      BY PlacesTyped, BinariesTyped, FilesOfBootTyped, StepsAre, BootTyped DEF Boot!TypeOK, SecretFile, BinaryFile
  <1> QED
    BY <1>1, StagedKeeps, SecretsKeep, SeedsKeep, TellingKeeps, BlockedKeeps DEF BootInv

LEMMA BootStutters ==
    ASSUME BootInv, UNCHANGED bootAll
    PROVE  BootInv'
  <1>1. UNCHANGED <<pc, writing, ended, boot, try, cf, tmp, told, file, seeds, held, bootSubs, torn, kept>>
    BY DEF bootAll
  <1>2. Boot!TypeOK' /\ BinaryStaged' /\ Boot!FailureIsTold' /\ Boot!SecretsRarelyBlock'
    BY <1>1 DEF BootInv, Boot!TypeOK, BinaryStaged, Boot!BinaryRuns, Boot!FailureIsTold, Boot!SecretsRarelyBlock
  <1>3. SecretsStored' /\ SeedsSown' /\ EarlySubscribed'
    BY <1>1 DEF BootInv, SecretsStored, SecretStored, SeedsSown, EarlySubscribed, Past, Late
  <1> QED
    BY <1>2, <1>3 DEF BootInv

LEMMA BootPromises ==
    ASSUME BootInv
    PROVE  /\ Boot!BinaryRuns /\ Boot!IdentityIsKept /\ Boot!RootIsSeeded /\ Boot!SecretsRarelyBlock
           /\ Boot!FailureIsTold /\ Boot!FirstUrlIsHeard
  <1>1. Boot!IdentityIsKept
    <2> SUFFICES ASSUME pc \in {"supervise", "watch", "serving"}, NEW s \in Boot!Secret
                 PROVE  (kept[s].by # 0 => held[s] = kept[s]) /\ (held[s].whole \/ s \in torn)
      BY DEF Boot!IdentityIsKept
    <2>1. SecretStored(s) /\ pc \in Past(s) /\ pc # s
      BY DEF BootInv, SecretsStored, Past, Late, Boot!Secret
    <2> QED
      BY <2>1 DEF SecretStored
  <1>2. Boot!RootIsSeeded
    BY DEF BootInv, SeedsSown, Boot!RootIsSeeded, Late
  <1>3. Boot!FirstUrlIsHeard
    BY DEF BootInv, EarlySubscribed, Boot!FirstUrlIsHeard, Late
  <1> QED
    BY <1>1, <1>2, <1>3 DEF BootInv, BinaryStaged

-----------------------------------------------------------------------------
(* The update of the executable.  While no two updates have overlapped, one *)
(* process at most is updating, and what it has downloaded is no older than *)
(* the binary that runs: the executable, or the one moved aside from it.    *)
Current == IF Exe!Runs(exe) THEN exe.v ELSE bak.v
Fetching == {"fetch", "extract", "fill", "chmod", "replace", "install"}

Prepared(p) ==
  /\ proc[p].pc \in Fetching =>
       proc[p].want > 0 /\ Current <= proc[p].want /\ proc[p].want <= latest
  /\ proc[p].pc \in {"fill", "chmod"} => platform = "unix" /\ new.v = proc[p].want
  /\ proc[p].pc = "chmod" => new.whole
  /\ proc[p].pc \in {"replace", "install"} => Exe!Runs(new) /\ new.v = proc[p].want
  /\ proc[p].pc = "install" => platform = "windows" /\ exe = Exe!NoFile

OneUpdates == \A p, q \in Updater : proc[p].pc \in Exe!Busy /\ proc[q].pc \in Exe!Busy => p = q
RunsAside == platform = "windows" /\ exe = Exe!NoFile /\ Exe!Runs(bak)
NoneIsAhead == \A q \in Updater : Exe!Running(q) => Current = proc[q].ver \/ Current <= latest
UpdatesInTurn ==
  /\ OneUpdates
  /\ \A p \in Updater : Prepared(p)
  /\ Exe!Runs(exe) \/ RunsAside
  /\ NoneIsAhead
  /\ ~downgraded

ExeInv == Exe!TypeOK /\ (~overlapped => UpdatesInTurn)

LEMMA ExeTyped ==
    ASSUME Exe!TypeOK
    PROVE  /\ MaxVersion \in Nat \ {0} /\ latest \in Nat /\ 1 <= latest /\ latest <= MaxVersion
           /\ exe \in Exe!File /\ new \in Exe!File /\ bak \in Exe!File
           /\ \A f \in Exe!File : /\ f.v \in Nat /\ f.v <= MaxVersion
                                  /\ f.whole \in BOOLEAN /\ f.exec \in BOOLEAN
           /\ Exe!NoFile \in Exe!File /\ Exe!NoFile.v = 0 /\ ~Exe!Runs(Exe!NoFile)
           /\ Current \in Nat
           /\ \A p \in Updater : proc[p].ver \in Nat /\ proc[p].want \in Nat
  <1>1. MaxVersion \in Nat \ {0}
    BY ExeAssumption DEF Exe!UpdateAssumption
  <1>2. latest \in Nat /\ 1 <= latest /\ latest <= MaxVersion
    BY <1>1 DEF Exe!TypeOK, Exe!Version
  <1>3. exe \in Exe!File /\ new \in Exe!File /\ bak \in Exe!File
    BY DEF Exe!TypeOK
  <1>4. \A f \in Exe!File : f.v \in Nat /\ f.v <= MaxVersion /\ f.whole \in BOOLEAN /\ f.exec \in BOOLEAN
    BY <1>1 DEF Exe!File
  <1>5. Exe!NoFile \in Exe!File /\ Exe!NoFile.v = 0 /\ ~Exe!Runs(Exe!NoFile)
    BY <1>1 DEF Exe!NoFile, Exe!File, Exe!Runs
  <1>6. Current \in Nat
    BY <1>3, <1>4 DEF Current
  <1>7. \A p \in Updater : proc[p].ver \in Nat /\ proc[p].want \in Nat
    BY <1>1 DEF Exe!TypeOK
  <1> QED
    BY <1>1, <1>2, <1>3, <1>4, <1>5, <1>6, <1>7

\* What an update is doing, and the versions it works with.
LEMMA Stepping ==
    ASSUME Exe!TypeOK, NEW p \in Updater, NEW c \in {"menu"} \cup Exe!Busy, Exe!To(p, c)
    PROVE  /\ proc' \in [Updater -> [pc : {"off", "menu"} \cup Exe!Busy, ver : 0..MaxVersion,
                                     want : 0..MaxVersion, prompt : 0..MaxVersion]]
           /\ proc'[p].pc = c /\ proc'[p].ver = proc[p].ver /\ proc'[p].want = proc[p].want
           /\ \A q \in Updater : q # p => proc'[q] = proc[q]
  BY DEF Exe!TypeOK, Exe!To

\* It is enough to look at the one process that updates.
LEMMA InTurn ==
    ASSUME UpdatesInTurn, NEW p \in Updater, proc[p].pc \in Exe!Busy,
           \A q \in Updater : q # p => proc'[q] = proc[q],
           Prepared(p)', Exe!Runs(exe)' \/ RunsAside', NoneIsAhead', ~downgraded'
    PROVE  UpdatesInTurn'
  <1>1. \A q \in Updater : q # p => proc[q].pc \notin Exe!Busy
    BY DEF UpdatesInTurn, OneUpdates
  <1>2. OneUpdates'
    BY <1>1 DEF OneUpdates, Exe!Busy
  <1>3. ASSUME NEW q \in Updater PROVE Prepared(q)'
    BY <1>1 DEF Prepared, Fetching, Exe!Busy
  <1> QED
    BY <1>2, <1>3 DEF UpdatesInTurn

-----------------------------------------------------------------------------
LEMMA PublishKeeps ==
    ASSUME ExeInv, Exe!Publish
    PROVE  ExeInv'
  <1>1. Exe!TypeOK'
    BY ExeTyped DEF ExeInv, Exe!Publish, Exe!TypeOK, Exe!Version
  <1>2. ASSUME ~overlapped' PROVE UpdatesInTurn'
    <2>1. UNCHANGED <<platform, exe, new, bak, proc, overlapped, downgraded>> /\ latest' = latest + 1
      BY DEF Exe!Publish
    <2>2. Current' = Current /\ UpdatesInTurn
      BY <1>2, <2>1 DEF Current, Exe!Runs, ExeInv
    <2>3. OneUpdates' /\ (Exe!Runs(exe)' \/ RunsAside') /\ ~downgraded'
      BY <2>1, <2>2 DEF UpdatesInTurn, OneUpdates, RunsAside, Exe!Runs
    <2>4. ASSUME NEW p \in Updater PROVE Prepared(p)'
      <3>1. Prepared(p)
        BY <2>2 DEF UpdatesInTurn
      <3>2. proc[p].pc \in Fetching =>
              proc[p].want > 0 /\ Current <= proc[p].want /\ proc[p].want <= latest + 1
        BY <3>1, ExeTyped DEF Prepared, ExeInv
      <3> QED
        BY <2>1, <2>2, <3>1, <3>2 DEF Prepared, Exe!Runs
    <2>5. NoneIsAhead'
      <3> SUFFICES ASSUME NEW q \in Updater, Exe!Running(q)
                   PROVE  Current = proc[q].ver \/ Current <= latest + 1
        BY <2>1, <2>2 DEF NoneIsAhead, Exe!Running
      <3> QED
        BY <2>2, ExeTyped DEF UpdatesInTurn, NoneIsAhead, ExeInv
    <2> QED
      BY <2>3, <2>4, <2>5 DEF UpdatesInTurn
  <1> QED
    BY <1>1, <1>2 DEF ExeInv

\* A process that starts runs the executable; the copy aside is not needed.
LEMMA LaunchKeeps ==
    ASSUME ExeInv, NEW p \in Updater, Exe!Launch(p)
    PROVE  ExeInv'
  <1>1. /\ UNCHANGED <<platform, latest, overlapped, exe, new, downgraded>>
        /\ Exe!Runs(exe) /\ proc[p].pc = "off" /\ (bak' = Exe!NoFile \/ bak' = bak)
    BY DEF Exe!Launch, Exe!Same
  <1>2. /\ proc' \in [Updater -> [pc : {"off", "menu"} \cup Exe!Busy, ver : 0..MaxVersion,
                                  want : 0..MaxVersion, prompt : 0..MaxVersion]]
        /\ proc'[p].pc = "menu" /\ proc'[p].ver = exe.v
        /\ \A q \in Updater : q # p => proc'[q] = proc[q]
    BY ExeTyped DEF ExeInv, Exe!Launch, Exe!TypeOK
  <1>3. Exe!TypeOK'
    <2>1. bak' \in Exe!File
      BY <1>1, ExeTyped DEF ExeInv
    <2> QED
      BY <1>1, <1>2, <2>1 DEF ExeInv, Exe!TypeOK
  <1>4. ASSUME ~overlapped' PROVE UpdatesInTurn'
    <2>1. UpdatesInTurn /\ Current' = Current /\ Current = exe.v /\ Exe!Runs(exe)'
      BY <1>1, <1>4 DEF ExeInv, Current, Exe!Runs
    <2>2. OneUpdates'
      BY <1>2, <2>1 DEF UpdatesInTurn, OneUpdates, Exe!Busy
    <2>3. ASSUME NEW q \in Updater PROVE Prepared(q)'
      <3>1. CASE q = p
        BY <1>2, <3>1 DEF Prepared, Fetching
      <3>2. CASE q # p
        BY <1>1, <1>2, <2>1, <3>2 DEF UpdatesInTurn, Prepared, Exe!Runs
      <3> QED
        BY <3>1, <3>2
    <2>4. NoneIsAhead'
      BY <1>1, <1>2, <2>1 DEF UpdatesInTurn, NoneIsAhead, Exe!Running
    <2> QED
      BY <1>1, <2>1, <2>2, <2>3, <2>4 DEF UpdatesInTurn
  <1> QED
    BY <1>3, <1>4 DEF ExeInv

LEMMA ChooseKeeps ==
    ASSUME ExeInv, NEW p \in Updater, Exe!Choose(p)
    PROVE  ExeInv'
  <1>1. /\ UNCHANGED <<platform, exe, new, bak, latest, downgraded>>
        /\ proc[p].pc = "menu" /\ Exe!To(p, "look") /\ overlapped' = (overlapped \/ Exe!Updating # {})
    BY DEF Exe!Choose
  <1>2. /\ proc' \in [Updater -> [pc : {"off", "menu"} \cup Exe!Busy, ver : 0..MaxVersion,
                                  want : 0..MaxVersion, prompt : 0..MaxVersion]]
        /\ proc'[p].pc = "look" /\ proc'[p].ver = proc[p].ver
        /\ \A q \in Updater : q # p => proc'[q] = proc[q]
    BY <1>1, Stepping DEF ExeInv, Exe!Busy
  <1>3. Exe!TypeOK'
    BY <1>1, <1>2 DEF ExeInv, Exe!TypeOK
  <1>4. ASSUME ~overlapped' PROVE UpdatesInTurn'
    <2>1. UpdatesInTurn /\ Current' = Current /\ Exe!Updating = {}
      BY <1>1, <1>4 DEF ExeInv, Current, Exe!Runs
    <2>2. \A q \in Updater : proc[q].pc \notin Exe!Busy
      BY <2>1 DEF Exe!Updating
    <2>3. OneUpdates'
      BY <1>2, <2>2 DEF OneUpdates
    <2>4. ASSUME NEW q \in Updater PROVE Prepared(q)'
      BY <1>2, <2>2 DEF Prepared, Fetching, Exe!Busy
    <2>5. NoneIsAhead'
      BY <1>1, <1>2, <2>1 DEF UpdatesInTurn, NoneIsAhead, Exe!Running
    <2> QED
      BY <1>1, <2>1, <2>3, <2>4, <2>5 DEF UpdatesInTurn, RunsAside, Exe!Runs
  <1> QED
    BY <1>3, <1>4 DEF ExeInv

\* The steps that leave every file alone.
LEMMA QuietStepKeeps ==
    ASSUME ExeInv, NEW p \in Updater, proc[p].pc \in Exe!Busy,
           UNCHANGED <<platform, latest, overlapped, exe, new, bak, downgraded>>,
           proc' \in [Updater -> [pc : {"off", "menu"} \cup Exe!Busy, ver : 0..MaxVersion,
                                  want : 0..MaxVersion, prompt : 0..MaxVersion]],
           \A q \in Updater : q # p => proc'[q] = proc[q],
           proc'[p].pc # "off" => proc'[p].ver = proc[p].ver,
           ~overlapped => Prepared(p)'
    PROVE  ExeInv'
  <1>1. Exe!TypeOK'
    BY DEF ExeInv, Exe!TypeOK
  <1>2. ASSUME ~overlapped' PROVE UpdatesInTurn'
    <2>1. UpdatesInTurn /\ Current' = Current
      BY <1>2 DEF ExeInv, Current, Exe!Runs
    <2>2. NoneIsAhead'
      <3>1. Exe!Running(p)
        BY DEF Exe!Running, Exe!Busy
      <3> QED
        BY <2>1, <3>1 DEF UpdatesInTurn, NoneIsAhead, Exe!Running
    <2>3. (Exe!Runs(exe)' \/ RunsAside') /\ ~downgraded' /\ Prepared(p)'
      BY <1>2, <2>1 DEF UpdatesInTurn, RunsAside, Exe!Runs
    <2> QED
      BY <2>1, <2>2, <2>3, InTurn
  <1> QED
    BY <1>1, <1>2 DEF ExeInv

LEMMA LookKeeps ==
    ASSUME ExeInv, NEW p \in Updater, Exe!Look(p)
    PROVE  ExeInv'
  <1>1. /\ UNCHANGED <<platform, latest, overlapped, exe, new, bak, downgraded>>
        /\ proc[p].pc = "look" /\ proc[p].pc \in Exe!Busy
    BY DEF Exe!Look, Exe!Same, Exe!Busy
  <1>2. /\ proc' \in [Updater -> [pc : {"off", "menu"} \cup Exe!Busy, ver : 0..MaxVersion,
                                  want : 0..MaxVersion, prompt : 0..MaxVersion]]
        /\ proc'[p].ver = proc[p].ver
        /\ \A q \in Updater : q # p => proc'[q] = proc[q]
        /\ \/ proc'[p].pc = "menu"
           \/ proc'[p].pc = "fetch" /\ proc'[p].want = latest /\ latest > proc[p].ver
    <2>1. CASE Exe!Fails(p)
      BY <2>1, Stepping DEF ExeInv, Exe!Fails
    <2>2. CASE Exe!NotNeeded(p)
      <3>1. 0 \in 0..MaxVersion
        BY ExeTyped DEF ExeInv
      <3>2. proc' \in [Updater -> [pc : {"off", "menu"} \cup Exe!Busy, ver : 0..MaxVersion,
                                   want : 0..MaxVersion, prompt : 0..MaxVersion]]
        BY <2>2, <3>1 DEF ExeInv, Exe!NotNeeded, Exe!TypeOK
      <3>3. proc'[p].pc = "menu" /\ proc'[p].ver = proc[p].ver
            /\ \A q \in Updater : q # p => proc'[q] = proc[q]
        BY <2>2 DEF ExeInv, Exe!NotNeeded, Exe!TypeOK
      <3> QED
        BY <3>2, <3>3
    <2>3. CASE Exe!IsNewer(latest, proc[p].ver)
               /\ proc' = [proc EXCEPT ![p].pc = "fetch", ![p].want = latest]
      <3>1. latest \in 0..MaxVersion
        BY ExeTyped DEF ExeInv
      <3>2. proc' \in [Updater -> [pc : {"off", "menu"} \cup Exe!Busy, ver : 0..MaxVersion,
                                   want : 0..MaxVersion, prompt : 0..MaxVersion]]
        BY <2>3, <3>1 DEF ExeInv, Exe!TypeOK, Exe!Busy
      <3>3. /\ proc'[p].pc = "fetch" /\ proc'[p].ver = proc[p].ver /\ proc'[p].want = latest
            /\ \A q \in Updater : q # p => proc'[q] = proc[q]
        BY <2>3 DEF ExeInv, Exe!TypeOK
      <3> QED
        BY <2>3, <3>2, <3>3 DEF Exe!IsNewer
    <2> QED
      BY <2>1, <2>2, <2>3 DEF Exe!Look
  <1>3. ASSUME ~overlapped PROVE Prepared(p)'
    <2>1. CASE proc'[p].pc = "menu"
      BY <2>1 DEF Prepared, Fetching
    <2>2. CASE proc'[p].pc = "fetch" /\ proc'[p].want = latest /\ latest > proc[p].ver
      <3>1. Current = proc[p].ver \/ Current <= latest
        BY <1>1, <1>3 DEF ExeInv, UpdatesInTurn, NoneIsAhead, Exe!Running
      <3>2. Current <= latest /\ latest > 0 /\ latest <= latest
        BY <2>2, <3>1, ExeTyped DEF ExeInv
      <3>3. Current' = Current
        BY <1>1 DEF Current, Exe!Runs
      <3> QED
        BY <1>1, <2>2, <3>2, <3>3 DEF Prepared, Fetching
    <2> QED
      BY <1>2, <2>1, <2>2
  <1> QED
    BY <1>1, <1>2, <1>3, QuietStepKeeps

LEMMA FetchKeeps ==
    ASSUME ExeInv, NEW p \in Updater, Exe!Fetch(p)
    PROVE  ExeInv'
  <1>1. /\ UNCHANGED <<platform, latest, overlapped, exe, new, bak, downgraded>>
        /\ proc[p].pc = "fetch" /\ proc[p].pc \in Exe!Busy
        /\ Exe!To(p, "extract") \/ Exe!To(p, "menu")
    BY DEF Exe!Fetch, Exe!Same, Exe!Busy, Exe!Fails
  <1>2. /\ proc' \in [Updater -> [pc : {"off", "menu"} \cup Exe!Busy, ver : 0..MaxVersion,
                                  want : 0..MaxVersion, prompt : 0..MaxVersion]]
        /\ proc'[p].ver = proc[p].ver /\ proc'[p].want = proc[p].want
        /\ \A q \in Updater : q # p => proc'[q] = proc[q]
        /\ proc'[p].pc \in {"menu", "extract"}
    BY <1>1, Stepping DEF ExeInv, Exe!Busy
  <1>3. ASSUME ~overlapped PROVE Prepared(p)'
    <2>1. Prepared(p) /\ Current' = Current
      BY <1>1, <1>3 DEF ExeInv, UpdatesInTurn, Current, Exe!Runs
    <2> QED
      BY <1>1, <1>2, <2>1 DEF Prepared, Fetching
  <1> QED
    BY <1>1, <1>2, <1>3, QuietStepKeeps

LEMMA KilledKeeps ==
    ASSUME ExeInv, NEW p \in Updater, Exe!Killed(p)
    PROVE  ExeInv'
  <1>1. /\ UNCHANGED <<platform, latest, overlapped, exe, new, bak, downgraded>>
    BY DEF Exe!Killed, Exe!Same
  <1>2. /\ proc' \in [Updater -> [pc : {"off", "menu"} \cup Exe!Busy, ver : 0..MaxVersion,
                                  want : 0..MaxVersion, prompt : 0..MaxVersion]]
        /\ proc'[p].pc = "off"
        /\ \A q \in Updater : q # p => proc'[q] = proc[q]
    BY ExeTyped DEF ExeInv, Exe!Killed, Exe!Off, Exe!TypeOK
  <1>3. Exe!TypeOK'
    BY <1>1, <1>2 DEF ExeInv, Exe!TypeOK
  <1>4. ASSUME ~overlapped' PROVE UpdatesInTurn'
    <2>1. UpdatesInTurn /\ Current' = Current
      BY <1>1, <1>4 DEF ExeInv, Current, Exe!Runs
    <2>2. OneUpdates'
      BY <1>2, <2>1 DEF UpdatesInTurn, OneUpdates, Exe!Busy
    <2>3. ASSUME NEW q \in Updater PROVE Prepared(q)'
      <3>1. CASE q = p
        BY <1>2, <3>1 DEF Prepared, Fetching
      <3>2. CASE q # p
        BY <1>1, <1>2, <2>1, <3>2 DEF UpdatesInTurn, Prepared, Exe!Runs
      <3> QED
        BY <3>1, <3>2
    <2>4. NoneIsAhead'
      BY <1>1, <1>2, <2>1 DEF UpdatesInTurn, NoneIsAhead, Exe!Running
    <2> QED
      BY <1>1, <2>1, <2>2, <2>3, <2>4 DEF UpdatesInTurn, RunsAside, Exe!Runs
  <1> QED
    BY <1>3, <1>4 DEF ExeInv

-----------------------------------------------------------------------------
\* The steps that change a file leave the versions of the processes alone.
LEMMA UpdateStepKeeps ==
    ASSUME ExeInv, NEW p \in Updater, proc[p].pc \in Exe!Busy,
           UNCHANGED <<platform, latest, overlapped>>,
           exe' \in Exe!File, new' \in Exe!File, bak' \in Exe!File, downgraded' \in BOOLEAN,
           proc' \in [Updater -> [pc : {"off", "menu"} \cup Exe!Busy, ver : 0..MaxVersion,
                                  want : 0..MaxVersion, prompt : 0..MaxVersion]],
           \A q \in Updater : q # p => proc'[q] = proc[q],
           proc'[p].pc # "off" => proc'[p].ver = proc[p].ver,
           ~overlapped => /\ Prepared(p)' /\ (Exe!Runs(exe)' \/ RunsAside') /\ ~downgraded'
                          /\ Current' = Current \/ Current' <= latest
    PROVE  ExeInv'
  <1>1. Exe!TypeOK'
    BY DEF ExeInv, Exe!TypeOK
  <1>2. ASSUME ~overlapped' PROVE UpdatesInTurn'
    <2>1. UpdatesInTurn
      BY <1>2 DEF ExeInv
    <2>2. NoneIsAhead'
      <3>1. Exe!Running(p)
        BY DEF Exe!Running, Exe!Busy
      <3>2. Current' = Current \/ Current' <= latest
        BY <1>2
      <3> QED
        BY <2>1, <3>1, <3>2 DEF UpdatesInTurn, NoneIsAhead, Exe!Running
    <2>3. (Exe!Runs(exe)' \/ RunsAside') /\ ~downgraded' /\ Prepared(p)'
      BY <1>2
    <2> QED
      BY <2>1, <2>2, <2>3, InTurn
  <1> QED
    BY <1>1, <1>2 DEF ExeInv

LEMMA ExtractKeeps ==
    ASSUME ExeInv, NEW p \in Updater, Exe!Extract(p)
    PROVE  ExeInv'
  <1>1. /\ UNCHANGED <<platform, latest, overlapped, exe, bak, downgraded>>
        /\ proc[p].pc = "extract" /\ proc[p].pc \in Exe!Busy
        /\ \/ /\ platform = "unix" /\ new' = [v |-> proc[p].want, whole |-> FALSE, exec |-> new.exec]
              /\ Exe!To(p, "fill")
           \/ /\ platform # "unix" /\ new' = [v |-> proc[p].want, whole |-> TRUE, exec |-> TRUE]
              /\ Exe!To(p, "replace")
           \/ Exe!To(p, "menu") /\ new' = new
    BY DEF Exe!Extract, Exe!Same, Exe!Busy, Exe!Fails
  <1>2. /\ proc' \in [Updater -> [pc : {"off", "menu"} \cup Exe!Busy, ver : 0..MaxVersion,
                                  want : 0..MaxVersion, prompt : 0..MaxVersion]]
        /\ proc'[p].ver = proc[p].ver /\ proc'[p].want = proc[p].want
        /\ \A q \in Updater : q # p => proc'[q] = proc[q]
    BY <1>1, Stepping DEF ExeInv, Exe!Busy
  <1>3. \/ proc'[p].pc = "fill" /\ platform = "unix" /\ new'.v = proc[p].want
        \/ proc'[p].pc = "replace" /\ new'.v = proc[p].want /\ Exe!Runs(new)'
        \/ proc'[p].pc = "menu"
    BY <1>1, Stepping DEF ExeInv, Exe!Busy, Exe!Runs
  <1>4. new' \in Exe!File
    <2>1. new.exec \in BOOLEAN /\ new \in Exe!File /\ proc[p].want \in 0..MaxVersion
      BY ExeTyped DEF ExeInv, Exe!TypeOK
    <2>2. \A b, c \in BOOLEAN : [v |-> proc[p].want, whole |-> b, exec |-> c] \in Exe!File
      BY <2>1 DEF Exe!File
    <2> QED
      BY <1>1, <2>1, <2>2
  <1>5. Current' = Current /\ (RunsAside' = RunsAside) /\ (Exe!Runs(exe)' = Exe!Runs(exe))
    BY <1>1 DEF Current, RunsAside, Exe!Runs
  <1>6. ASSUME ~overlapped PROVE Prepared(p)'
    <2>1. Prepared(p)
      BY <1>6 DEF ExeInv, UpdatesInTurn
    <2> QED
      BY <1>1, <1>2, <1>3, <1>5, <2>1 DEF Prepared, Fetching
  <1>7. /\ exe' \in Exe!File /\ bak' \in Exe!File /\ downgraded' \in BOOLEAN
        /\ ~overlapped => (Exe!Runs(exe) \/ RunsAside) /\ ~downgraded'
    BY <1>1 DEF ExeInv, Exe!TypeOK, UpdatesInTurn
  <1> QED
    BY <1>1, <1>2, <1>4, <1>5, <1>6, <1>7, UpdateStepKeeps

LEMMA FillKeeps ==
    ASSUME ExeInv, NEW p \in Updater, Exe!Fill(p)
    PROVE  ExeInv'
  <1> DEFINE Filled(f) == [f EXCEPT !.whole = (f.v = proc[p].want) \/ @]
  <1>1. /\ UNCHANGED <<platform, latest, overlapped, bak, downgraded>>
        /\ proc[p].pc = "fill" /\ proc[p].pc \in Exe!Busy
        /\ \/ /\ exe' = Filled(exe) /\ new' = (IF new.v = 0 THEN new ELSE Filled(new))
              /\ Exe!To(p, "chmod")
           \/ Exe!To(p, "menu") /\ UNCHANGED <<exe, new>>
    BY DEF Exe!Fill, Exe!Same, Exe!Busy, Exe!Fails
  <1>2. /\ proc' \in [Updater -> [pc : {"off", "menu"} \cup Exe!Busy, ver : 0..MaxVersion,
                                  want : 0..MaxVersion, prompt : 0..MaxVersion]]
        /\ proc'[p].ver = proc[p].ver /\ proc'[p].want = proc[p].want
        /\ \A q \in Updater : q # p => proc'[q] = proc[q]
    BY <1>1, Stepping DEF ExeInv, Exe!Busy
  <1>3. \A f \in Exe!File : /\ Filled(f) \in Exe!File /\ Filled(f).v = f.v /\ Filled(f).exec = f.exec
                            /\ f.whole => Filled(f).whole
                            /\ f.v = proc[p].want => Filled(f).whole
    BY DEF Exe!File
  <1> HIDE DEF Filled
  <1>4. /\ exe' \in Exe!File /\ new' \in Exe!File /\ bak' \in Exe!File /\ downgraded' \in BOOLEAN
        /\ exe'.v = exe.v /\ (Exe!Runs(exe) => Exe!Runs(exe'))
    BY <1>1, <1>3 DEF ExeInv, Exe!TypeOK, Exe!Runs
  <1>5. \/ proc'[p].pc = "chmod" /\ (new.v # 0 => new' = Filled(new))
        \/ proc'[p].pc = "menu"
    BY <1>1, Stepping DEF ExeInv, Exe!Busy
  <1>6. ASSUME ~overlapped
        PROVE  /\ Prepared(p)' /\ (Exe!Runs(exe)' \/ RunsAside') /\ ~downgraded'
               /\ Current' = Current
    <2>1. Prepared(p) /\ platform = "unix" /\ new.v = proc[p].want /\ proc[p].want > 0
          /\ Current <= proc[p].want /\ proc[p].want <= latest
      BY <1>1, <1>6 DEF ExeInv, UpdatesInTurn, Prepared, Fetching
    <2>2. Exe!Runs(exe) /\ ~downgraded
      BY <1>6, <2>1 DEF ExeInv, UpdatesInTurn, RunsAside
    <2>3. Current' = Current /\ Exe!Runs(exe)'
      BY <1>4, <2>2 DEF Current, Exe!Runs
    <2>4. proc'[p].pc = "chmod" => new'.v = proc[p].want /\ new'.whole
      <3>1. new.v # 0 /\ new \in Exe!File
        BY <2>1 DEF ExeInv, Exe!TypeOK
      <3> QED
        BY <1>3, <1>5, <2>1, <3>1
    <2>5. Prepared(p)'
      BY <1>1, <1>2, <1>5, <2>1, <2>3, <2>4 DEF Prepared, Fetching
    <2> QED
      BY <1>1, <2>2, <2>3, <2>5
  <1> QED
    BY <1>1, <1>2, <1>4, <1>6, UpdateStepKeeps

LEMMA ReplaceKeeps ==
    ASSUME ExeInv, NEW p \in Updater, Exe!Replace(p)
    PROVE  ExeInv'
  <1>1. /\ UNCHANGED <<platform, latest, overlapped>>
        /\ proc[p].pc \in {"chmod", "replace"} /\ proc[p].pc \in Exe!Busy /\ platform = "unix"
    BY DEF Exe!Replace, Exe!Same, Exe!Busy
  <1>2. /\ exe \in Exe!File /\ new \in Exe!File /\ bak \in Exe!File /\ downgraded \in BOOLEAN
        /\ exe.v \in Nat /\ new.v \in Nat
    BY ExeTyped DEF ExeInv, Exe!TypeOK
  <1>3. ASSUME ~overlapped
        PROVE  /\ Exe!Runs(exe) /\ Current = exe.v /\ ~downgraded /\ Prepared(p)
               /\ new.v = proc[p].want /\ proc[p].want > 0 /\ Current <= new.v /\ new.v <= latest
               /\ new.whole /\ (proc[p].pc = "replace" => Exe!Runs(new))
    <2>1. Prepared(p) /\ Exe!Runs(exe) /\ ~downgraded
      BY <1>1, <1>3 DEF ExeInv, UpdatesInTurn, RunsAside
    <2> QED
      BY <1>1, <2>1 DEF Prepared, Fetching, Current, Exe!Runs
  <1>4. CASE /\ proc[p].pc = "chmod" /\ Exe!Files(exe, [new EXCEPT !.exec = TRUE], bak)
             /\ Exe!To(p, "replace") /\ UNCHANGED downgraded
    <2>1. /\ proc' \in [Updater -> [pc : {"off", "menu"} \cup Exe!Busy, ver : 0..MaxVersion,
                                    want : 0..MaxVersion, prompt : 0..MaxVersion]]
          /\ proc'[p].ver = proc[p].ver /\ proc'[p].want = proc[p].want /\ proc'[p].pc = "replace"
          /\ \A q \in Updater : q # p => proc'[q] = proc[q]
      BY <1>4, Stepping DEF ExeInv, Exe!Busy
    <2>2. /\ new' \in Exe!File /\ new'.v = new.v /\ new'.whole = new.whole /\ new'.exec
          /\ exe' = exe /\ bak' = bak /\ downgraded' = downgraded
      BY <1>2, <1>4 DEF Exe!Files, Exe!File
    <2>3. ASSUME ~overlapped PROVE Prepared(p)' /\ Current' = Current /\ Exe!Runs(exe)' /\ ~downgraded'
      <3>1. Current' = Current /\ Exe!Runs(exe)' /\ ~downgraded'
        BY <1>3, <2>2, <2>3 DEF Current, Exe!Runs
      <3> QED
        BY <1>1, <1>3, <2>1, <2>2, <2>3, <3>1 DEF Prepared, Exe!Runs
    <2> QED
      BY <1>1, <1>2, <2>1, <2>2, <2>3, UpdateStepKeeps
  <1>5. CASE /\ proc[p].pc = "replace" /\ Exe!Files(new, Exe!NoFile, bak) /\ Exe!Applied(p)
             /\ downgraded' = (downgraded \/ new.v < exe.v)
    <2>1. /\ proc' \in [Updater -> [pc : {"off", "menu"} \cup Exe!Busy, ver : 0..MaxVersion,
                                    want : 0..MaxVersion, prompt : 0..MaxVersion]]
          /\ proc'[p].pc = "off"
          /\ \A q \in Updater : q # p => proc'[q] = proc[q]
      BY <1>5, ExeTyped DEF ExeInv, Exe!Applied, Exe!Off, Exe!TypeOK
    <2>2. exe' = new /\ new' = Exe!NoFile /\ bak' = bak /\ new' \in Exe!File /\ downgraded' \in BOOLEAN
      BY <1>5, ExeTyped DEF ExeInv, Exe!Files
    <2>3. ASSUME ~overlapped
          PROVE  Prepared(p)' /\ Current' <= latest /\ Exe!Runs(exe)' /\ ~downgraded'
      <3>1. Prepared(p)'
        BY <2>1 DEF Prepared, Fetching
      <3>2. ~(new.v < exe.v)
        BY <1>2, <1>3, <2>3
      <3> QED
        BY <1>3, <1>5, <2>2, <2>3, <3>1, <3>2 DEF Current, Exe!Runs
    <2> QED
      BY <1>1, <1>2, <2>1, <2>2, <2>3, UpdateStepKeeps
  <1>6. CASE Exe!Fails(p) /\ UNCHANGED <<exe, new, bak, downgraded>>
    <2>1. /\ proc' \in [Updater -> [pc : {"off", "menu"} \cup Exe!Busy, ver : 0..MaxVersion,
                                    want : 0..MaxVersion, prompt : 0..MaxVersion]]
          /\ proc'[p].ver = proc[p].ver /\ proc'[p].pc = "menu"
          /\ \A q \in Updater : q # p => proc'[q] = proc[q]
      BY <1>6, Stepping DEF ExeInv, Exe!Fails
    <2>2. Prepared(p)'
      BY <2>1 DEF Prepared, Fetching
    <2> QED
      BY <1>1, <1>6, <2>1, <2>2, QuietStepKeeps
  <1> QED
    BY <1>4, <1>5, <1>6 DEF Exe!Replace

\* On Windows: the executable is moved aside, and back or replaced.
LEMMA MoveAsideKeeps ==
    ASSUME ExeInv, NEW p \in Updater, Exe!MoveAside(p)
    PROVE  ExeInv'
  <1>1. /\ UNCHANGED <<platform, latest, overlapped, downgraded>>
        /\ proc[p].pc = "replace" /\ proc[p].pc \in Exe!Busy /\ platform = "windows"
        /\ \/ exe.v # 0 /\ Exe!Files(Exe!NoFile, new, exe) /\ Exe!To(p, "install")
           \/ Exe!Fails(p) /\ UNCHANGED <<exe, new, bak>>
    BY DEF Exe!MoveAside, Exe!Same, Exe!Busy
  <1>2. exe \in Exe!File /\ new \in Exe!File /\ bak \in Exe!File /\ downgraded \in BOOLEAN
    BY DEF ExeInv, Exe!TypeOK
  <1>3. CASE exe.v # 0 /\ Exe!Files(Exe!NoFile, new, exe) /\ Exe!To(p, "install")
    <2>1. /\ proc' \in [Updater -> [pc : {"off", "menu"} \cup Exe!Busy, ver : 0..MaxVersion,
                                    want : 0..MaxVersion, prompt : 0..MaxVersion]]
          /\ proc'[p].ver = proc[p].ver /\ proc'[p].want = proc[p].want /\ proc'[p].pc = "install"
          /\ \A q \in Updater : q # p => proc'[q] = proc[q]
      BY <1>3, Stepping DEF ExeInv, Exe!Busy
    <2>2. exe' = Exe!NoFile /\ new' = new /\ bak' = exe /\ exe' \in Exe!File
      BY <1>3, ExeTyped DEF ExeInv, Exe!Files
    <2>3. ASSUME ~overlapped
          PROVE  Prepared(p)' /\ Current' = Current /\ RunsAside' /\ ~downgraded'
      <3>1. Prepared(p) /\ Exe!Runs(exe) /\ ~downgraded
        BY <1>3, <2>3, ExeTyped DEF ExeInv, UpdatesInTurn, RunsAside
      <3>2. Current' = Current /\ RunsAside' /\ ~downgraded'
        BY <1>1, <2>2, <3>1, ExeTyped DEF ExeInv, Current, RunsAside, Exe!Runs
      <3>3. Prepared(p)'
        BY <1>1, <2>1, <2>2, <3>1, <3>2 DEF Prepared, Fetching, Exe!Runs, Exe!NoFile
      <3> QED
        BY <3>2, <3>3
    <2> QED
      BY <1>1, <1>2, <2>1, <2>2, <2>3, UpdateStepKeeps
  <1>4. CASE Exe!Fails(p) /\ UNCHANGED <<exe, new, bak>>
    <2>1. /\ proc' \in [Updater -> [pc : {"off", "menu"} \cup Exe!Busy, ver : 0..MaxVersion,
                                    want : 0..MaxVersion, prompt : 0..MaxVersion]]
          /\ proc'[p].ver = proc[p].ver /\ proc'[p].pc = "menu"
          /\ \A q \in Updater : q # p => proc'[q] = proc[q]
      BY <1>4, Stepping DEF ExeInv, Exe!Fails
    <2>2. Prepared(p)'
      BY <2>1 DEF Prepared, Fetching
    <2> QED
      BY <1>1, <1>4, <2>1, <2>2, QuietStepKeeps
  <1> QED
    BY <1>1, <1>3, <1>4

LEMMA InstallKeeps ==
    ASSUME ExeInv, NEW p \in Updater, Exe!Install(p)
    PROVE  ExeInv'
  <1>1. /\ UNCHANGED <<platform, latest, overlapped>>
        /\ proc[p].pc = "install" /\ proc[p].pc \in Exe!Busy
    BY DEF Exe!Install, Exe!Same, Exe!Busy
  <1>2. /\ exe \in Exe!File /\ new \in Exe!File /\ bak \in Exe!File /\ downgraded \in BOOLEAN
        /\ bak.v \in Nat /\ new.v \in Nat /\ Exe!NoFile \in Exe!File
    BY ExeTyped DEF ExeInv, Exe!TypeOK
  <1>3. ASSUME ~overlapped
        PROVE  /\ RunsAside /\ Current = bak.v /\ ~downgraded /\ Exe!Runs(new)
               /\ Current <= new.v /\ new.v <= latest
    <2>1. Prepared(p) /\ (Exe!Runs(exe) \/ RunsAside) /\ ~downgraded
      BY <1>3 DEF ExeInv, UpdatesInTurn
    <2>2. exe = Exe!NoFile /\ RunsAside
      BY <1>1, <2>1, ExeTyped DEF ExeInv, Prepared
    <2> QED
      BY <1>1, <2>1, <2>2, ExeTyped DEF ExeInv, Prepared, Fetching, Current
  <1>4. CASE /\ Exe!Files(new, Exe!NoFile, bak) /\ Exe!Applied(p)
             /\ downgraded' = (downgraded \/ new.v < bak.v)
    <2>1. /\ proc' \in [Updater -> [pc : {"off", "menu"} \cup Exe!Busy, ver : 0..MaxVersion,
                                    want : 0..MaxVersion, prompt : 0..MaxVersion]]
          /\ proc'[p].pc = "off"
          /\ \A q \in Updater : q # p => proc'[q] = proc[q]
      BY <1>4, ExeTyped DEF ExeInv, Exe!Applied, Exe!Off, Exe!TypeOK
    <2>2. exe' = new /\ new' = Exe!NoFile /\ bak' = bak /\ downgraded' \in BOOLEAN
      BY <1>4 DEF Exe!Files
    <2>3. ASSUME ~overlapped
          PROVE  Prepared(p)' /\ Current' <= latest /\ Exe!Runs(exe)' /\ ~downgraded'
      <3>1. Prepared(p)'
        BY <2>1 DEF Prepared, Fetching
      <3>2. ~(new.v < bak.v)
        BY <1>2, <1>3, <2>3
      <3> QED
        BY <1>3, <1>4, <2>2, <2>3, <3>1, <3>2 DEF Current, Exe!Runs
    <2> QED
      BY <1>1, <1>2, <2>1, <2>2, <2>3, UpdateStepKeeps
  <1>5. CASE Exe!Files(bak, new, Exe!NoFile) /\ Exe!Fails(p) /\ UNCHANGED downgraded
    <2>1. /\ proc' \in [Updater -> [pc : {"off", "menu"} \cup Exe!Busy, ver : 0..MaxVersion,
                                    want : 0..MaxVersion, prompt : 0..MaxVersion]]
          /\ proc'[p].ver = proc[p].ver /\ proc'[p].pc = "menu"
          /\ \A q \in Updater : q # p => proc'[q] = proc[q]
      BY <1>5, Stepping DEF ExeInv, Exe!Fails
    <2>2. exe' = bak /\ new' = new /\ bak' = Exe!NoFile /\ downgraded' = downgraded
      BY <1>5 DEF Exe!Files
    <2>3. ASSUME ~overlapped
          PROVE  Prepared(p)' /\ Current' = Current /\ Exe!Runs(exe)' /\ ~downgraded'
      <3>1. Prepared(p)'
        BY <2>1 DEF Prepared, Fetching
      <3> QED
        BY <1>3, <2>2, <2>3, <3>1 DEF Current, RunsAside, Exe!Runs
    <2> QED
      BY <1>1, <1>2, <2>1, <2>2, <2>3, UpdateStepKeeps
  <1> QED
    BY <1>4, <1>5 DEF Exe!Install

-----------------------------------------------------------------------------
LEMMA ExeBegins == Exe!Init => ExeInv
  <1> SUFFICES ASSUME Exe!Init PROVE ExeInv
    OBVIOUS
  <1>1. MaxVersion \in Nat \ {0}
    BY ExeAssumption DEF Exe!UpdateAssumption
  <1>2. PICK v \in Exe!Version : v <= 2 /\ exe = [v |-> v, whole |-> TRUE, exec |-> TRUE]
    BY DEF Exe!Init
  <1>3. /\ platform \in {"unix", "windows"} /\ latest = 1 /\ new = Exe!NoFile /\ bak = Exe!NoFile
        /\ proc = [p \in Updater |-> Exe!Off] /\ overlapped = FALSE /\ downgraded = FALSE
    BY DEF Exe!Init
  <1>4. Exe!TypeOK
    <2>1. 0 \in 0..MaxVersion /\ latest \in Exe!Version /\ v \in 0..MaxVersion
      BY <1>1, <1>3 DEF Exe!Version
    <2>2. {exe, new, bak} \subseteq Exe!File
      BY <1>2, <1>3, <2>1 DEF Exe!File, Exe!NoFile
    <2>3. proc \in [Updater -> [pc : {"off", "menu"} \cup Exe!Busy, ver : 0..MaxVersion,
                                want : 0..MaxVersion, prompt : 0..MaxVersion]]
      BY <1>3, <2>1 DEF Exe!Off
    <2> QED
      BY <1>3, <2>1, <2>2, <2>3 DEF Exe!TypeOK
  <1>5. \A p \in Updater : proc[p].pc = "off"
    BY <1>3 DEF Exe!Off
  <1>6. UpdatesInTurn
    BY <1>2, <1>3, <1>5 DEF UpdatesInTurn, OneUpdates, Prepared, Fetching, NoneIsAhead, Exe!Running,
       Exe!Runs, Exe!Busy
  <1> QED
    BY <1>4, <1>6 DEF ExeInv

LEMMA ExeNext ==
    ASSUME ExeInv, Exe!Next
    PROVE  ExeInv'
  <1>1. CASE Exe!Publish
    BY <1>1, PublishKeeps
  <1>2. ASSUME NEW p \in Updater,
               \/ Exe!Launch(p) \/ Exe!Choose(p) \/ Exe!Look(p) \/ Exe!Fetch(p) \/ Exe!Extract(p)
               \/ Exe!Fill(p) \/ Exe!Replace(p) \/ Exe!MoveAside(p) \/ Exe!Install(p) \/ Exe!Killed(p)
        PROVE  ExeInv'
    BY <1>2, LaunchKeeps, ChooseKeeps, LookKeeps, FetchKeeps, ExtractKeeps, FillKeeps, ReplaceKeeps,
       MoveAsideKeeps, InstallKeeps, KilledKeeps
  <1> QED
    BY <1>1, <1>2 DEF Exe!Next

LEMMA ExeStutters ==
    ASSUME ExeInv, UNCHANGED exeAll
    PROVE  ExeInv'
  <1>1. UNCHANGED <<platform, exe, new, bak, latest, proc, overlapped, downgraded>>
    BY DEF exeAll
  <1>2. Exe!TypeOK'
    BY <1>1 DEF ExeInv, Exe!TypeOK
  <1>3. ASSUME ~overlapped' PROVE UpdatesInTurn'
    BY <1>1, <1>3 DEF ExeInv, UpdatesInTurn, OneUpdates, Prepared, NoneIsAhead, RunsAside, Current,
       Exe!Running, Exe!Runs
  <1> QED
    BY <1>2, <1>3 DEF ExeInv

LEMMA ExePromises == ExeInv => Exe!ABinaryRuns /\ Exe!NoDowngrade
  BY DEF ExeInv, UpdatesInTurn, RunsAside, Exe!ABinaryRuns, Exe!NoDowngrade

-----------------------------------------------------------------------------
(* The start at login.  A request that is alone is the only one under way,  *)
(* is not yet answered, and half of it is done: the file is there, or what  *)
(* is to be deleted is gone or has been left unheard.                       *)
HalfOn(t) ==
  toggles[t] = [want |-> TRUE, at |-> "second"] => os = "windows" \/ unit = "whole"
HalfOff(t) ==
  toggles[t] = [want |-> FALSE, at |-> "second"] =>
    /\ os = "linux" => ~link \/ "link" \in autoGhost.kept
    /\ os = "windows" => unit # "whole" \/ "file" \in autoGhost.kept
OnlyOne == \A t, u \in Toggle : toggles[t] # Login!Off /\ toggles[u] # Login!Off => t = u
Unanswered == answered.last # "none" => \A t \in Toggle : toggles[t] = Login!Off
AloneKept == OnlyOne /\ Unanswered /\ (\A t \in Toggle : HalfOn(t) /\ HalfOff(t))
Kept == /\ answered.last = "on" => Login!StartsAtLogin /\ Login!Detected
        /\ answered.last = "off" =>
             (~Login!StartsAtLogin /\ ~Login!Detected) \/ Login!IgnoredTooMuch
LoginInv == Login!TypeOK /\ (autoGhost.alone => AloneKept /\ Kept)

LoginReq == [want : BOOLEAN, at : Login!Steps \cup {"off"}]
LoginAnswer == [last : {"none", "on", "off", "failed"}, count : 0..MaxToggle]

\* To: the request goes on; Answer: it is over.
LEMMA GoesOn ==
    ASSUME Login!TypeOK, NEW t \in Toggle, NEW w \in BOOLEAN, toggles[t] = [want |-> w, at |-> "begin"],
           Login!To(t, "second")
    PROVE  /\ toggles' \in [Toggle -> LoginReq] /\ answered' = answered
           /\ toggles'[t] = [want |-> w, at |-> "second"]
           /\ \A u \in Toggle : u # t => toggles'[u] = toggles[u]
           /\ toggles[t] # Login!Off /\ toggles'[t] # Login!Off
  BY DEF Login!TypeOK, LoginReq, Login!To, Login!Steps, Login!Off

LEMMA IsOver ==
    ASSUME Login!TypeOK, NEW t \in Toggle, NEW how \in {"on", "off", "failed"}, Login!Answer(t, how)
    PROVE  /\ toggles' \in [Toggle -> LoginReq] /\ answered' \in LoginAnswer
           /\ toggles'[t] = Login!Off /\ answered'.last = how
           /\ \A u \in Toggle : u # t => toggles'[u] = toggles[u]
  BY DEF Login!TypeOK, LoginReq, LoginAnswer, Login!Answer, Login!Steps, Login!Off

LEMMA SomeUnheard ==
    ASSUME Login!TypeOK, NEW what \in SUBSET {"file", "link"}, Login!Unheard(what)
    PROVE  /\ autoGhost' \in [alone : BOOLEAN, kept : SUBSET {"file", "link"}]
           /\ autoGhost'.alone = autoGhost.alone /\ autoGhost'.kept = autoGhost.kept \cup what
  BY DEF Login!TypeOK, Login!Unheard

\* A request that goes on leaves the others off, if it is alone.
LEMMA GoesOnAlone ==
    ASSUME LoginInv, NEW t \in Toggle, NEW w \in BOOLEAN, toggles[t] = [want |-> w, at |-> "begin"],
           Login!To(t, "second"), Login!TypeOK', autoGhost'.alone = autoGhost.alone,
           autoGhost.alone => HalfOn(t)' /\ HalfOff(t)'
    PROVE  LoginInv'
  <1> SUFFICES ASSUME autoGhost'.alone PROVE AloneKept' /\ Kept'
    BY DEF LoginInv
  <1>1. AloneKept /\ Kept /\ Login!TypeOK
    BY DEF LoginInv
  <1>2. \A u \in Toggle : u # t => toggles'[u] = Login!Off
    BY <1>1, GoesOn DEF AloneKept, OnlyOne
  <1>3. answered'.last = "none" /\ answered.last = "none"
    <2>1. answered.last = "none"
      BY <1>1, GoesOn DEF AloneKept, Unanswered
    <2> QED
      BY <1>1, <2>1, GoesOn
  <1>4. OnlyOne' /\ Unanswered' /\ Kept'
    BY <1>2, <1>3 DEF OnlyOne, Unanswered, Kept
  <1>5. ASSUME NEW u \in Toggle PROVE HalfOn(u)' /\ HalfOff(u)'
    <2>1. CASE u = t
      BY <2>1
    <2>2. CASE u # t
      BY <1>2, <2>2 DEF HalfOn, HalfOff, Login!Off
    <2> QED
      BY <2>1, <2>2
  <1> QED
    BY <1>4, <1>5 DEF AloneKept

\* One that is answered was the only one, if it is alone.
LEMMA IsOverAlone ==
    ASSUME LoginInv, NEW t \in Toggle, toggles[t] # Login!Off, NEW how \in {"on", "off", "failed"},
           Login!Answer(t, how), Login!TypeOK', autoGhost'.alone = autoGhost.alone,
           autoGhost.alone => Kept'
    PROVE  LoginInv'
  <1> SUFFICES ASSUME autoGhost'.alone PROVE AloneKept' /\ Kept'
    BY DEF LoginInv
  <1>1. AloneKept /\ Login!TypeOK
    BY DEF LoginInv
  <1>2. \A u \in Toggle : toggles'[u] = Login!Off
    BY <1>1, IsOver DEF AloneKept, OnlyOne
  <1>3. OnlyOne' /\ Unanswered' /\ Kept'
    BY <1>2 DEF OnlyOne, Unanswered
  <1>4. ASSUME NEW u \in Toggle PROVE HalfOn(u)' /\ HalfOff(u)'
    BY <1>2 DEF HalfOn, HalfOff, Login!Off
  <1> QED
    BY <1>3, <1>4 DEF AloneKept

LEMMA ToggleBeginsKeeps ==
    ASSUME LoginInv, NEW t \in Toggle, Login!Begin(t)
    PROVE  LoginInv'
  <1>1. /\ toggles[t] = Login!Off /\ answered.count < MaxToggle
        /\ answered' = [last |-> "none", count |-> answered.count + 1]
        /\ UNCHANGED <<os, unit, link, live, agent>>
    BY DEF Login!Begin
  <1>2. PICK want \in BOOLEAN : toggles' = [toggles EXCEPT ![t] = [want |-> want, at |-> "begin"]]
    BY DEF Login!Begin
  <1>3. /\ toggles' \in [Toggle -> LoginReq] /\ toggles'[t] = [want |-> want, at |-> "begin"]
        /\ \A u \in Toggle : u # t => toggles'[u] = toggles[u]
    BY <1>2 DEF LoginInv, Login!TypeOK, LoginReq, Login!Steps
  <1>4. /\ autoGhost' \in [alone : BOOLEAN, kept : SUBSET {"file", "link"}]
        /\ autoGhost'.alone => \A u \in Toggle : toggles[u] = Login!Off
    BY DEF Login!Begin, LoginInv, Login!TypeOK
  <1>5. answered' \in LoginAnswer /\ answered'.last = "none"
    <2>1. MaxToggle \in Nat /\ answered.count \in 0..MaxToggle
      BY AutoAssumption DEF Login!AutostartAssumption, LoginInv, Login!TypeOK
    <2>2. answered.count + 1 \in 0..MaxToggle
      BY <1>1, <2>1
    <2> QED
      BY <1>1, <2>2 DEF LoginAnswer
  <1>6. Login!TypeOK'
    BY <1>1, <1>3, <1>4, <1>5 DEF LoginInv, Login!TypeOK, LoginReq, LoginAnswer
  <1>7. ASSUME autoGhost'.alone PROVE AloneKept' /\ Kept'
    <2>1. \A u \in Toggle : u # t => toggles'[u] = Login!Off
      BY <1>3, <1>4, <1>7
    <2>2. OnlyOne' /\ Unanswered' /\ Kept'
      BY <1>5, <2>1 DEF OnlyOne, Unanswered, Kept
    <2>3. ASSUME NEW u \in Toggle PROVE HalfOn(u)' /\ HalfOff(u)'
      BY <1>3, <2>1 DEF HalfOn, HalfOff, Login!Off
    <2> QED
      BY <2>2, <2>3 DEF AloneKept
  <1> QED
    BY <1>6, <1>7 DEF LoginInv

\* On: the file is written, or its writing fails.
LEMMA WriteKeeps ==
    ASSUME LoginInv, NEW t \in Toggle, Login!WritePlist(t) \/ Login!WriteUnit(t)
    PROVE  LoginInv'
  <1>1. /\ toggles[t] = [want |-> TRUE, at |-> "begin"] /\ UNCHANGED <<os, link, live, agent, autoGhost>>
        /\ \/ unit' = "whole" /\ Login!To(t, "second")
           \/ unit' \in {unit, "torn"} /\ Login!Answer(t, "failed")
    BY DEF Login!WritePlist, Login!WriteUnit, Login!Write, Login!At
  <1>2. unit' \in Login!File /\ Login!TypeOK
    BY <1>1 DEF LoginInv, Login!TypeOK, Login!File
  <1>3. CASE unit' = "whole" /\ Login!To(t, "second")
    <2>1. Login!TypeOK'
      BY <1>1, <1>2, <1>3, GoesOn DEF Login!TypeOK, LoginReq
    <2>2. HalfOn(t)' /\ HalfOff(t)'
      <3>1. toggles'[t] = [want |-> TRUE, at |-> "second"]
        BY <1>1, <1>2, <1>3, GoesOn
      <3>2. toggles'[t] # [want |-> FALSE, at |-> "second"]
        BY <3>1
      <3> QED
        BY <1>1, <1>3, <3>2 DEF HalfOn, HalfOff
    <2> QED
      BY <1>1, <1>3, <2>1, <2>2, GoesOnAlone
  <1>4. CASE Login!Answer(t, "failed")
    <2>1. Login!TypeOK'
      BY <1>1, <1>2, <1>4, IsOver DEF Login!TypeOK, LoginReq, LoginAnswer
    <2>2. toggles[t] # Login!Off /\ Kept'
      BY <1>1, <1>2, <1>4, IsOver DEF Kept, Login!Off
    <2> QED
      BY <1>1, <1>4, <2>1, <2>2, IsOverAlone
  <1> QED
    BY <1>1, <1>3, <1>4

\* ... and the manager told.
LEMMA EnableKeeps ==
    ASSUME LoginInv, NEW t \in Toggle, Login!Bootstrap(t) \/ Login!Enable(t)
    PROVE  LoginInv'
  <1>1. /\ toggles[t] = [want |-> TRUE, at |-> "second"] /\ UNCHANGED <<os, unit, agent, autoGhost>>
        /\ link' \in BOOLEAN /\ live' \in BOOLEAN
        /\ \/ Login!Answer(t, "on") /\ (os = "macos" \/ (os = "linux" /\ link'))
           \/ Login!Answer(t, "failed")
    BY DEF LoginInv, Login!TypeOK, Login!Bootstrap, Login!Enable, Login!At
  <1>2. Login!TypeOK /\ toggles[t] # Login!Off
    BY <1>1 DEF LoginInv, Login!Off
  <1>3. PICK how \in {"on", "failed"} : Login!Answer(t, how) /\ (how = "on" => os = "macos" \/ (os = "linux" /\ link'))
    BY <1>1
  <1>4. Login!TypeOK'
    BY <1>1, <1>2, <1>3, IsOver DEF Login!TypeOK, LoginReq, LoginAnswer
  <1>5. ASSUME autoGhost.alone PROVE Kept'
    <2>1. os # "windows" => unit = "whole"
      BY <1>1, <1>5 DEF LoginInv, AloneKept, HalfOn
    <2>2. answered'.last = how
      BY <1>2, <1>3, IsOver
    <2> QED
      BY <1>1, <1>3, <2>1, <2>2 DEF Kept, Login!StartsAtLogin, Login!Detected, Login!DetectMacos,
         Login!DetectLinux
  <1> QED
    BY <1>1, <1>2, <1>3, <1>4, <1>5, IsOverAlone

LEMMA CreateTaskKeeps ==
    ASSUME LoginInv, NEW t \in Toggle, Login!CreateTask(t)
    PROVE  LoginInv'
  <1>1. /\ toggles[t] = [want |-> TRUE, at |-> "begin"] /\ UNCHANGED <<os, link, live, agent, autoGhost>>
        /\ os = "windows" /\ unit' \in {"whole", unit}
    BY DEF Login!CreateTask, Login!At
  <1>2. unit' \in Login!File /\ Login!TypeOK
    BY <1>1 DEF LoginInv, Login!TypeOK, Login!File
  <1>3. CASE Login!To(t, "second")
    <2>1. Login!TypeOK'
      BY <1>1, <1>2, <1>3, GoesOn DEF Login!TypeOK, LoginReq
    <2>2. HalfOn(t)' /\ HalfOff(t)'
      <3>1. toggles'[t] = [want |-> TRUE, at |-> "second"]
        BY <1>1, <1>2, <1>3, GoesOn
      <3>2. toggles'[t] # [want |-> FALSE, at |-> "second"]
        BY <3>1
      <3> QED
        BY <1>1, <1>3, <3>2 DEF HalfOn, HalfOff
    <2> QED
      BY <1>1, <1>3, <2>1, <2>2, GoesOnAlone
  <1>4. ASSUME NEW how \in {"on", "failed"}, Login!Answer(t, how), how = "on" => unit' = "whole"
        PROVE  LoginInv'
    <2>1. Login!TypeOK'
      BY <1>1, <1>2, <1>4, IsOver DEF Login!TypeOK, LoginReq, LoginAnswer
    <2>2. toggles[t] # Login!Off /\ answered'.last = how
      BY <1>1, <1>2, <1>4, IsOver DEF Login!Off
    <2>3. Kept'
      BY <1>1, <1>4, <2>2 DEF Kept, Login!StartsAtLogin, Login!Detected, Login!DetectWindows
    <2> QED
      BY <1>1, <1>4, <2>1, <2>2, <2>3, IsOverAlone
  <1> QED
    BY <1>3, <1>4 DEF Login!CreateTask

LEMMA AddRunKeyKeeps ==
    ASSUME LoginInv, NEW t \in Toggle, Login!AddRunKey(t)
    PROVE  LoginInv'
  <1>1. /\ toggles[t] = [want |-> TRUE, at |-> "second"] /\ UNCHANGED <<os, unit, live, agent, autoGhost>>
        /\ os = "windows" /\ link' \in BOOLEAN
    BY DEF LoginInv, Login!TypeOK, Login!AddRunKey, Login!At
  <1>2. PICK how \in {"on", "failed"} : Login!Answer(t, how) /\ (how = "on" => link')
    BY DEF Login!AddRunKey
  <1>3. Login!TypeOK /\ toggles[t] # Login!Off
    BY <1>1 DEF LoginInv, Login!Off
  <1>4. Login!TypeOK'
    BY <1>1, <1>2, <1>3, IsOver DEF Login!TypeOK, LoginReq, LoginAnswer
  <1>5. Kept'
    <2>1. answered'.last = how
      BY <1>2, <1>3, IsOver
    <2> QED
      BY <1>1, <1>2, <2>1 DEF Kept, Login!StartsAtLogin, Login!Detected, Login!DetectWindows
  <1> QED
    BY <1>1, <1>2, <1>3, <1>4, <1>5, IsOverAlone

-----------------------------------------------------------------------------
\* Off: the first half, whose failure nobody hears of.
LEMMA OffBeginsKeeps ==
    ASSUME LoginInv, NEW t \in Toggle, Login!Unload(t) \/ Login!Disable(t) \/ Login!DeleteTask(t)
    PROVE  LoginInv'
  <1>1. toggles[t] = [want |-> FALSE, at |-> "begin"] /\ UNCHANGED os /\ Login!To(t, "second")
    BY DEF Login!Unload, Login!Disable, Login!DeleteTask, Login!At
  <1>2. Login!TypeOK
    BY DEF LoginInv
  <1>3. /\ unit' \in Login!File /\ link' \in BOOLEAN /\ live' \in BOOLEAN
        /\ agent' \in {"hand", "manager", "stopping", "down"}
    BY <1>2 DEF Login!TypeOK, Login!File, Login!Unload, Login!Disable, Login!DeleteTask
  <1>4. /\ autoGhost' \in [alone : BOOLEAN, kept : SUBSET {"file", "link"}]
        /\ autoGhost'.alone = autoGhost.alone
    <2>1. autoGhost' = autoGhost \/ Login!Unheard({"link"}) \/ Login!Unheard({"file"})
      BY DEF Login!Unload, Login!Disable, Login!DeleteTask
    <2> QED
      BY <1>2, <2>1, SomeUnheard DEF Login!TypeOK
  <1>5. Login!TypeOK'
    BY <1>1, <1>2, <1>3, <1>4, GoesOn DEF Login!TypeOK, LoginReq
  <1>6. HalfOn(t)'
    <2>1. toggles'[t] = [want |-> FALSE, at |-> "second"]
      BY <1>1, <1>2, GoesOn
    <2>2. toggles'[t] # [want |-> TRUE, at |-> "second"]
      BY <2>1
    <2> QED
      BY <2>2 DEF HalfOn
  <1>7. HalfOff(t)'
    <2>1. CASE Login!Unload(t)
      BY <1>1, <2>1 DEF HalfOff, Login!Unload, Login!At
    <2>2. CASE Login!Disable(t)
      <3>1. os' = "linux" /\ (~link' \/ Login!Unheard({"link"}))
        BY <1>1, <2>2 DEF Login!Disable, Login!At
      <3>2. ~link' \/ "link" \in autoGhost'.kept
        BY <1>2, <3>1, SomeUnheard
      <3> QED
        BY <3>1, <3>2 DEF HalfOff
    <2>3. CASE Login!DeleteTask(t)
      <3>1. os' = "windows" /\ (unit' = "absent" \/ Login!Unheard({"file"}))
        BY <1>1, <2>3 DEF Login!DeleteTask, Login!At
      <3>2. unit' # "whole" \/ "file" \in autoGhost'.kept
        BY <1>2, <3>1, SomeUnheard
      <3> QED
        BY <3>1, <3>2 DEF HalfOff
    <2> QED
      BY <2>1, <2>2, <2>3
  <1> QED
    BY <1>1, <1>4, <1>5, <1>6, <1>7, GoesOnAlone

LEMMA RemovePlistKeeps ==
    ASSUME LoginInv, NEW t \in Toggle, Login!RemovePlist(t)
    PROVE  LoginInv'
  <1>1. /\ toggles[t] = [want |-> FALSE, at |-> "second"] /\ UNCHANGED <<os, link, live, agent, autoGhost>>
        /\ os = "macos"
    BY DEF Login!RemovePlist, Login!At
  <1>2. PICK how \in {"off", "failed"} : Login!Answer(t, how) /\ (how = "off" => unit' = "absent")
    BY DEF Login!RemovePlist
  <1>3. Login!TypeOK /\ toggles[t] # Login!Off /\ unit' \in Login!File
    BY <1>1 DEF LoginInv, Login!Off, Login!TypeOK, Login!File, Login!RemovePlist
  <1>4. Login!TypeOK'
    BY <1>1, <1>2, <1>3, IsOver DEF Login!TypeOK, LoginReq, LoginAnswer
  <1>5. Kept'
    <2>1. answered'.last = how
      BY <1>2, <1>3, IsOver
    <2> QED
      BY <1>1, <1>2, <2>1 DEF Kept, Login!StartsAtLogin, Login!Detected, Login!DetectWindows,
         Login!DetectMacos, Login!DetectLinux
  <1> QED
    BY <1>1, <1>2, <1>3, <1>4, <1>5, IsOverAlone

\* The second half, which is answered whatever happens.
LEMMA OffEndsKeeps ==
    ASSUME LoginInv, NEW t \in Toggle, Login!RemoveUnit(t) \/ Login!DeleteRunKey(t)
    PROVE  LoginInv'
  <1>1. /\ toggles[t] = [want |-> FALSE, at |-> "second"] /\ UNCHANGED <<os, live, agent>>
        /\ Login!Answer(t, "off")
    BY DEF Login!RemoveUnit, Login!DeleteRunKey, Login!At
  <1>2. Login!TypeOK /\ toggles[t] # Login!Off
    BY <1>1 DEF LoginInv, Login!Off
  <1>3. /\ unit' \in Login!File /\ link' \in BOOLEAN
        /\ autoGhost' \in [alone : BOOLEAN, kept : SUBSET {"file", "link"}]
        /\ autoGhost'.alone = autoGhost.alone
    <2>1. autoGhost' = autoGhost \/ Login!Unheard({"link"}) \/ Login!Unheard({"file"})
      BY DEF Login!RemoveUnit, Login!DeleteRunKey
    <2>2. unit' \in Login!File /\ link' \in BOOLEAN
      BY <1>2 DEF Login!TypeOK, Login!File, Login!RemoveUnit, Login!DeleteRunKey
    <2> QED
      BY <1>2, <2>1, <2>2, SomeUnheard DEF Login!TypeOK
  <1>4. Login!TypeOK'
    BY <1>1, <1>2, <1>3, IsOver DEF Login!TypeOK, LoginReq, LoginAnswer
  <1>5. ASSUME autoGhost.alone PROVE Kept'
    <2>1. HalfOff(t) /\ answered'.last = "off"
      BY <1>1, <1>2, <1>5, IsOver DEF LoginInv, AloneKept
    <2>2. CASE Login!RemoveUnit(t)
      <3>1. /\ os = "linux" /\ UNCHANGED link /\ (~link \/ "link" \in autoGhost.kept)
            /\ \/ unit' = "absent" \/ Login!Unheard({"file"})
        BY <1>1, <2>1, <2>2 DEF Login!RemoveUnit, Login!At, HalfOff
      <3>2. CASE unit' = "absent" \/ ~link
        BY <1>1, <2>1, <3>1, <3>2 DEF Kept, Login!StartsAtLogin, Login!Detected, Login!DetectWindows,
           Login!DetectMacos, Login!DetectLinux
      <3>3. CASE "link" \in autoGhost.kept /\ Login!Unheard({"file"})
        <4>1. autoGhost.kept \subseteq {"file", "link"}
          BY <1>2 DEF Login!TypeOK
        <4>2. autoGhost'.kept = autoGhost.kept \cup {"file"}
          BY <1>2, <3>3, SomeUnheard
        <4>3. autoGhost'.kept = {"file", "link"}
          BY <3>3, <4>1, <4>2
        <4> QED
          BY <1>1, <2>1, <3>1, <4>3 DEF Kept, Login!IgnoredTooMuch
      <3> QED
        BY <3>1, <3>2, <3>3
    <2>3. CASE Login!DeleteRunKey(t)
      <3>1. /\ os = "windows" /\ UNCHANGED unit /\ (unit # "whole" \/ "file" \in autoGhost.kept)
            /\ \/ (~link' /\ UNCHANGED autoGhost) \/ Login!Unheard({"link"})
        BY <1>1, <2>1, <2>3 DEF Login!DeleteRunKey, Login!At, HalfOff
      <3>2. CASE unit # "whole" /\ ~link'
        BY <1>1, <2>1, <3>1, <3>2 DEF Kept, Login!StartsAtLogin, Login!Detected, Login!DetectWindows,
           Login!DetectMacos, Login!DetectLinux
      <3>3. CASE "file" \in autoGhost.kept \/ Login!Unheard({"link"})
        <4>1. autoGhost'.kept # {}
          BY <1>2, <3>1, <3>3, SomeUnheard
        <4> QED
          BY <1>1, <2>1, <3>1, <4>1 DEF Kept, Login!IgnoredTooMuch
      <3> QED
        BY <3>1, <3>2, <3>3
    <2> QED
      BY <2>2, <2>3 DEF Login!RemoveUnit, Login!DeleteRunKey
  <1> QED
    BY <1>1, <1>2, <1>3, <1>4, <1>5, IsOverAlone

\* The agent ends with its requests; what the last one was answered stays true.
LEMMA StopKeeps ==
    ASSUME LoginInv, Login!Stop
    PROVE  LoginInv'
  <1>1. /\ agent' = "down" /\ toggles' = [t \in Toggle |-> Login!Off]
        /\ UNCHANGED <<os, link, live, answered, autoGhost>>
        /\ unit' = unit \/ (Login!Writing /\ unit' = "torn")
    BY DEF Login!Stop
  <1>2. Login!TypeOK'
    <2>1. toggles' \in [Toggle -> LoginReq]
      BY <1>1 DEF LoginReq, Login!Off, Login!Steps
    <2>2. unit' \in Login!File
      BY <1>1 DEF LoginInv, Login!TypeOK, Login!File
    <2> QED
      BY <1>1, <2>1, <2>2 DEF LoginInv, Login!TypeOK, LoginReq
  <1>3. ASSUME autoGhost'.alone PROVE AloneKept' /\ Kept'
    <2>1. AloneKept /\ Kept
      BY <1>1, <1>3 DEF LoginInv
    <2>2. AloneKept'
      BY <1>1 DEF AloneKept, OnlyOne, Unanswered, HalfOn, HalfOff, Login!Off
    <2>3. CASE unit' = unit
      BY <1>1, <2>1, <2>2, <2>3 DEF Kept, Login!StartsAtLogin, Login!Detected, Login!DetectWindows,
         Login!DetectMacos, Login!DetectLinux, Login!IgnoredTooMuch
    <2>4. CASE Login!Writing
      <3>1. PICK t \in Toggle : toggles[t] = [want |-> TRUE, at |-> "begin"]
        BY <2>4 DEF Login!Writing
      <3>2. answered'.last = "none"
        BY <1>1, <2>1, <3>1 DEF AloneKept, Unanswered, Login!Off
      <3> QED
        BY <2>2, <3>2 DEF Kept
    <2> QED
      BY <1>1, <2>3, <2>4
  <1> QED
    BY <1>2, <1>3 DEF LoginInv

LEMMA StartKeeps ==
    ASSUME LoginInv, Login!Start
    PROVE  LoginInv'
  <1>1. UNCHANGED <<os, unit, link, toggles, answered, autoGhost>>
    BY DEF Login!Start
  <1>2. agent' \in {"hand", "manager"} /\ live' \in BOOLEAN
    BY DEF LoginInv, Login!TypeOK, Login!Start
  <1>3. Login!TypeOK'
    BY <1>1, <1>2 DEF LoginInv, Login!TypeOK
  <1>4. ASSUME autoGhost'.alone PROVE AloneKept' /\ Kept'
    <2>1. AloneKept /\ Kept
      BY <1>1, <1>4 DEF LoginInv
    <2>2. AloneKept'
      BY <1>1, <2>1 DEF AloneKept, OnlyOne, Unanswered, HalfOn, HalfOff
    <2>3. Kept'
      BY <1>1, <2>1 DEF Kept, Login!StartsAtLogin, Login!Detected, Login!DetectWindows,
         Login!DetectMacos, Login!DetectLinux, Login!IgnoredTooMuch
    <2> QED
      BY <2>2, <2>3
  <1> QED
    BY <1>3, <1>4 DEF LoginInv

-----------------------------------------------------------------------------
LEMMA LoginBegins == Login!Init => LoginInv
  <1> SUFFICES ASSUME Login!Init PROVE LoginInv
    OBVIOUS
  <1>1. /\ os \in {"macos", "linux", "windows"} /\ unit = "absent" /\ link = FALSE /\ live = FALSE
        /\ agent = "hand" /\ toggles = [t \in Toggle |-> Login!Off]
        /\ answered = [last |-> "none", count |-> 0] /\ autoGhost = [alone |-> TRUE, kept |-> {}]
    BY DEF Login!Init
  <1>2. Login!TypeOK
    <2>1. 0 \in 0..MaxToggle
      BY AutoAssumption DEF Login!AutostartAssumption
    <2>2. toggles \in [Toggle -> LoginReq]
      BY <1>1 DEF LoginReq, Login!Off, Login!Steps
    <2>3. answered \in LoginAnswer
      BY <1>1, <2>1 DEF LoginAnswer
    <2> QED
      BY <1>1, <2>2, <2>3 DEF Login!TypeOK, LoginReq, LoginAnswer, Login!File
  <1>3. AloneKept /\ Kept
    BY <1>1 DEF AloneKept, OnlyOne, Unanswered, HalfOn, HalfOff, Kept, Login!Off
  <1> QED
    BY <1>2, <1>3 DEF LoginInv

LEMMA LoginNext ==
    ASSUME LoginInv, Login!Next
    PROVE  LoginInv'
  <1>1. CASE Login!Stop \/ Login!Start
    BY <1>1, StopKeeps, StartKeeps
  <1>2. ASSUME NEW t \in Toggle,
               \/ Login!Begin(t) \/ Login!WritePlist(t) \/ Login!Bootstrap(t) \/ Login!WriteUnit(t)
               \/ Login!Enable(t) \/ Login!CreateTask(t) \/ Login!AddRunKey(t)
        PROVE  LoginInv'
    BY <1>2, ToggleBeginsKeeps, WriteKeeps, EnableKeeps, CreateTaskKeeps, AddRunKeyKeeps
  <1>3. ASSUME NEW t \in Toggle,
               \/ Login!Unload(t) \/ Login!RemovePlist(t) \/ Login!Disable(t) \/ Login!RemoveUnit(t)
               \/ Login!DeleteTask(t) \/ Login!DeleteRunKey(t)
        PROVE  LoginInv'
    BY <1>3, OffBeginsKeeps, RemovePlistKeeps, OffEndsKeeps
  <1> QED
    BY <1>1, <1>2, <1>3 DEF Login!Next

LEMMA LoginStutters ==
    ASSUME LoginInv, UNCHANGED autoAll
    PROVE  LoginInv'
  <1>1. UNCHANGED <<os, unit, link, live, agent, toggles, answered, autoGhost>>
    BY DEF autoAll
  <1>2. Login!TypeOK'
    BY <1>1 DEF LoginInv, Login!TypeOK
  <1>3. AloneKept => AloneKept'
    BY <1>1 DEF AloneKept, OnlyOne, Unanswered, HalfOn, HalfOff
  <1>4. Kept => Kept'
    BY <1>1 DEF Kept, Login!StartsAtLogin, Login!Detected, Login!DetectWindows, Login!DetectMacos,
       Login!DetectLinux, Login!IgnoredTooMuch
  <1> QED
    BY <1>1, <1>2, <1>3, <1>4 DEF LoginInv

LEMMA LoginPromises == LoginInv => Login!AnswerIsKept
  BY DEF LoginInv, Kept, Login!AnswerIsKept

-----------------------------------------------------------------------------
StartInv ==
  /\ part = "boot" => BootInv
  /\ part = "exe" => ExeInv
  /\ part = "auto" => LoginInv

LEMMA StartStep == StartInv /\ AgentSteps => StartInv'
  BY PartsApart, BootNext, BootStutters, ExeNext, ExeStutters, LoginNext, LoginStutters DEF StartInv

(* BootsUsable, for any number of boots, versions, updates and requests: a  *)
(* crash in a boot, an update or a toggle leaves binaries that run, an      *)
(* identity that stays and the first workspaces; a failed boot was told;    *)
(* and the next login does what was answered.                               *)
THEOREM BootsStayUsable == AgentSpec => []BootsUsable
  <1>1. AgentInit => StartInv
    BY BootBegins, ExeBegins, LoginBegins DEF AgentInit, StartInv
  <1>2. StartInv => BootsUsable
    BY BootPromises, ExePromises, LoginPromises DEF StartInv, BootsUsable
  <1> QED
    BY <1>1, <1>2, StartStep, PTL DEF AgentSpec, AgentSteps

-----------------------------------------------------------------------------
(* The lists that are kept twice.                                           *)
ListReq == [kind : {"none"} \cup Lists!Kind, step : {"new", "begun", "stored", "half", "tx", "done"},
            port : Port \cup {0}, on : BOOLEAN, of : 0..MaxListReq, origin : Origin \cup {0},
            seen : Seq(Origin)]
ListReqs ==
  /\ listReq \in [Lists!Call -> ListReq]
  /\ \A r \in Lists!Call : listReq[r].step = "new" => listReq[r].kind = "none"
  /\ \A r \in Lists!Call : listReq[r].kind \in {"capture", "remove"} => listReq[r].origin \in Origin

(* Previews.  What one copy has and the other has not is in the hands of a  *)
(* request; what is judged though it is gone is to be removed or leaked.    *)
Deleting(q, s) == \E r \in Lists!Call : Lists!At(r, "delete", s) /\ listReq[r].of = q
RowsMade == \A q \in previewRows : listReq[q].kind = "create" /\ listReq[q].step \in {"stored", "done"}
TargetsMade == \A q \in targets : Lists!At(q, "create", "done")
RowsFirst == \A q \in previewRows \ (targets \cup unloaded) : Lists!At(q, "create", "stored")
NeverLoaded == \A q \in unloaded : Lists!At(q, "create", "done") /\ q \notin targets
StoredHasRow == \A q \in Lists!Call : Lists!At(q, "create", "stored") => q \in previewRows
TargetsLast == \A q \in targets \ previewRows : Deleting(q, "stored")
JudgedOrGone == \A q \in (health \cup round) \ targets : q \in leaked \/ Deleting(q, "half")
DeletesMade == \A r \in Lists!Call : listReq[r].kind = "delete" =>
                 listReq[r].of \in Lists!Call /\ Lists!At(listReq[r].of, "create", "done")
DeletedRowGone == \A r \in Lists!Call :
  listReq[r].kind = "delete" /\ listReq[r].step \in {"stored", "half"} => listReq[r].of \notin previewRows
PreviewTypes == previewRows \cup targets \cup health \cup round \cup leaked \cup unloaded \subseteq Lists!Call
PreviewInv == /\ PreviewTypes /\ RowsMade /\ TargetsMade /\ RowsFirst /\ NeverLoaded /\ StoredHasRow /\ TargetsLast
              /\ JudgedOrGone /\ DeletesMade /\ DeletedRowGone

PortInv == portsDb \cup ports \subseteq Port /\ unsaved \in BOOLEAN /\ (unsaved \/ ports = portsDb)

(* Origins.  A transaction that has read the list has the lock, so that the *)
(* list is still what it read.                                              *)
ReadUnderLock == \A r \in Lists!Call :
  listReq[r].kind \in {"capture", "remove"} /\ listReq[r].step = "tx" =>
    lock = r /\ listReq[r].seen = originsDb
NamedOnce(list) == \A i, j \in 1..Len(list) : list[i] = list[j] => i = j
RemovedFromBoth == removed \cap Lists!ToSet(originsDb) \subseteq racedOrigins \cup EnvOrigin
CaptureClears == \A r \in Lists!Call :
  listReq[r].kind = "capture" /\ Lists!InHand(r) =>
    listReq[r].origin \notin removed \/ listReq[r].origin \in racedOrigins
OverlapsAreRaces == \A r, q \in Lists!Call :
  listReq[r].kind = "capture" /\ Lists!InHand(r) /\ listReq[q].kind = "remove" /\ Lists!InHand(q)
    /\ listReq[q].origin = listReq[r].origin => listReq[q].origin \in racedOrigins
HalfRemoved == \A r \in Lists!Call :
  Lists!At(r, "remove", "half") =>
    listReq[r].origin \notin Lists!ToSet(originsDb) \/ listReq[r].origin \in racedOrigins
OriginTypes == /\ originsDb \in Seq(Origin) /\ Len(originsDb) <= MaxOrigins /\ lock \in {0} \cup Lists!Call
               /\ origins \cup due \cup racedOrigins \cup removed \subseteq Origin
OriginInv == /\ OriginTypes /\ ReadUnderLock /\ NamedOnce(originsDb) /\ Lists!OriginsKept /\ Lists!RemovedStaysOut
             /\ RemovedFromBoth /\ CaptureClears /\ OverlapsAreRaces /\ HalfRemoved

ListsInv == ListReqs /\ PreviewInv /\ PortInv /\ OriginInv

-----------------------------------------------------------------------------
\* Lists: what is appended to one, dropped from its head, or taken out.
LEMMA ToSetFacts ==
    ASSUME NEW list \in Seq(Origin)
    PROVE  /\ Lists!ToSet(list) \subseteq Origin
           /\ \A o : o \in Lists!ToSet(list) <=> Lists!Contains(list, o)
  BY DEF Lists!ToSet, Lists!Contains

LEMMA AppendFacts ==
    ASSUME NEW list \in Seq(Origin), NEW o \in Origin
    PROVE  /\ Append(list, o) \in Seq(Origin) /\ Len(Append(list, o)) = Len(list) + 1
           /\ Lists!ToSet(Append(list, o)) = Lists!ToSet(list) \cup {o}
           /\ NamedOnce(list) /\ o \notin Lists!ToSet(list) => NamedOnce(Append(list, o))
  <1> DEFINE out == Append(list, o)
  <1>1. /\ out \in Seq(Origin) /\ Len(out) = Len(list) + 1 /\ Len(list) \in Nat
        /\ out[Len(list) + 1] = o /\ \A i \in 1..Len(list) : out[i] = list[i]
    OBVIOUS
  <1> HIDE DEF out
  <1>2. DOMAIN out = 1..(Len(list) + 1) /\ DOMAIN list = 1..Len(list)
    BY <1>1
  <1>3. \A i \in 1..(Len(list) + 1) : i \in 1..Len(list) \/ i = Len(list) + 1
    BY <1>1
  <1>4. Lists!ToSet(out) = Lists!ToSet(list) \cup {o}
    <2>1. Lists!ToSet(out) \subseteq Lists!ToSet(list) \cup {o}
      BY <1>1, <1>2, <1>3 DEF Lists!ToSet
    <2>2. ASSUME NEW x \in Lists!ToSet(list) PROVE x \in Lists!ToSet(out)
      <3>1. PICK i \in 1..Len(list) : x = list[i]
        BY <1>2, <2>2 DEF Lists!ToSet
      <3>2. i \in 1..(Len(list) + 1)
        BY <1>1
      <3> QED
        BY <1>1, <1>2, <3>1, <3>2 DEF Lists!ToSet
    <2>3. o \in Lists!ToSet(out)
      <3>1. Len(list) + 1 \in 1..(Len(list) + 1)
        BY <1>1
      <3> QED
        BY <1>1, <1>2, <3>1 DEF Lists!ToSet
    <2> QED
      BY <2>1, <2>2, <2>3
  <1>5. ASSUME NamedOnce(list), o \notin Lists!ToSet(list) PROVE NamedOnce(out)
    <2> SUFFICES ASSUME NEW i \in 1..(Len(list) + 1), NEW j \in 1..(Len(list) + 1), out[i] = out[j]
                 PROVE  i = j
      BY <1>1 DEF NamedOnce
    <2>1. \A k \in 1..Len(list) : out[k] # o
      BY <1>1, <1>2, <1>5 DEF Lists!ToSet
    <2> QED
      BY <1>1, <1>3, <1>5, <2>1 DEF NamedOnce
  <1> QED
    BY <1>1, <1>4, <1>5 DEF out

LEMMA TailFacts ==
    ASSUME NEW list \in Seq(Origin), Len(list) > 0
    PROVE  /\ Tail(list) \in Seq(Origin) /\ Len(Tail(list)) = Len(list) - 1
           /\ Lists!ToSet(Tail(list)) \subseteq Lists!ToSet(list)
           /\ Lists!ToSet(list) \subseteq Lists!ToSet(Tail(list)) \cup {Head(list)}
           /\ NamedOnce(list) => NamedOnce(Tail(list))
  <1> DEFINE out == Tail(list)
  <1>1. /\ out \in Seq(Origin) /\ Len(out) = Len(list) - 1 /\ Len(list) \in Nat
        /\ \A i \in 1..(Len(list) - 1) : out[i] = list[i + 1]
        /\ list[1] = Head(list)
    OBVIOUS
  <1> HIDE DEF out
  <1>2. DOMAIN out = 1..(Len(list) - 1) /\ DOMAIN list = 1..Len(list)
    BY <1>1
  <1>3. \A i \in 1..(Len(list) - 1) : i + 1 \in 1..Len(list)
    BY <1>1
  <1>4. \A i \in 1..Len(list) : i = 1 \/ (i - 1 \in 1..(Len(list) - 1) /\ out[i - 1] = list[i])
    BY <1>1
  <1>5. Lists!ToSet(out) \subseteq Lists!ToSet(list)
    BY <1>1, <1>2, <1>3 DEF Lists!ToSet
  <1>6. Lists!ToSet(list) \subseteq Lists!ToSet(out) \cup {Head(list)}
    <2> SUFFICES ASSUME NEW i \in 1..Len(list)
                 PROVE  list[i] = Head(list) \/ list[i] \in Lists!ToSet(out)
      BY <1>2 DEF Lists!ToSet
    <2> QED
      BY <1>1, <1>2, <1>4 DEF Lists!ToSet
  <1>7. ASSUME NamedOnce(list) PROVE NamedOnce(out)
    BY <1>1, <1>3, <1>7 DEF NamedOnce
  <1> QED
    BY <1>1, <1>5, <1>6, <1>7 DEF out

LEMMA WithoutFacts ==
    ASSUME NEW list \in Seq(Origin), NEW o
    PROVE  /\ Lists!Without(list, o) \in Seq(Origin) /\ Len(Lists!Without(list, o)) <= Len(list)
           /\ Lists!ToSet(Lists!Without(list, o)) \subseteq Lists!ToSet(list)
           /\ Lists!ToSet(list) \subseteq Lists!ToSet(Lists!Without(list, o)) \cup {o}
           /\ NamedOnce(list) => /\ NamedOnce(Lists!Without(list, o))
                                 /\ o \notin Lists!ToSet(Lists!Without(list, o))
  <1>1. CASE ~Lists!Contains(list, o)
    BY <1>1, ToSetFacts DEF Lists!Without
  <1>2. CASE Lists!Contains(list, o)
    <2> DEFINE at == CHOOSE i \in 1..Len(list) : list[i] = o
    <2>1. PICK k \in 1..Len(list) : k = at /\ list[k] = o
      BY <1>2 DEF Lists!Contains
    <2>2. Lists!Without(list, o) = SubSeq(list, 1, k - 1) \o SubSeq(list, k + 1, Len(list))
      BY <1>2, <2>1 DEF Lists!Without, Lists!RemoveAt
    <2> HIDE DEF at
    <2> DEFINE out == SubSeq(list, 1, k - 1) \o SubSeq(list, k + 1, Len(list))
    <2>3. /\ out \in Seq(Origin) /\ Len(out) = Len(list) - 1
          /\ \A i \in 1..Len(out) : out[i] = IF i < k THEN list[i] ELSE list[i + 1]
      <3> DEFINE low == SubSeq(list, 1, k - 1)
                 high == SubSeq(list, k + 1, Len(list))
      <3>1. Len(list) \in Nat /\ k \in Nat /\ 1 <= k /\ k <= Len(list)
        OBVIOUS
      <3>2. low \in Seq(Origin) /\ Len(low) = k - 1 /\ \A i \in 1..(k - 1) : low[i] = list[i]
        BY <3>1
      <3>3. /\ high \in Seq(Origin) /\ Len(high) = Len(list) - k
            /\ \A i \in 1..(Len(list) - k) : high[i] = list[k + i]
        BY <3>1
      <3> HIDE DEF low, high
      <3>4. /\ low \o high \in Seq(Origin) /\ Len(low \o high) = Len(list) - 1
            /\ \A i \in 1..(k - 1) : (low \o high)[i] = low[i]
            /\ \A i \in k..(Len(list) - 1) : (low \o high)[i] = high[i - (k - 1)]
        <4>1. low \o high \in Seq(Origin) /\ Len(low \o high) = Len(list) - 1
          BY <3>1, <3>2, <3>3
        <4>2. \A i \in 1..(Len(low) + Len(high)) :
                (low \o high)[i] = IF i <= Len(low) THEN low[i] ELSE high[i - Len(low)]
          BY <3>2, <3>3
        <4>3. ASSUME NEW i \in 1..(k - 1) PROVE (low \o high)[i] = low[i]
          BY <3>1, <3>2, <3>3, <4>2
        <4>4. ASSUME NEW i \in k..(Len(list) - 1) PROVE (low \o high)[i] = high[i - (k - 1)]
          BY <3>1, <3>2, <3>3, <4>2
        <4> QED
          BY <4>1, <4>3, <4>4
      <3>5. \A i \in k..(Len(list) - 1) : high[i - (k - 1)] = list[i + 1]
        BY <3>1, <3>3
      <3>6. out = low \o high
        BY DEF low, high
      <3> HIDE DEF out
      <3>7. ASSUME NEW i \in 1..(Len(list) - 1)
            PROVE  out[i] = IF i < k THEN list[i] ELSE list[i + 1]
        <4>1. i \in 1..(k - 1) \/ (i \in k..(Len(list) - 1) /\ ~(i < k))
          BY <3>1
        <4> QED
          BY <3>1, <3>2, <3>4, <3>5, <3>6, <4>1
      <3> QED
        BY <3>1, <3>4, <3>6, <3>7
    <2>4. Lists!Without(list, o) = out
      BY <2>2
    <2> HIDE DEF out
    <2>5. Lists!ToSet(out) \subseteq Lists!ToSet(list)
      BY <2>3 DEF Lists!ToSet
    <2>6. ASSUME NEW i \in 1..Len(list), i # k PROVE list[i] \in Lists!ToSet(out)
      <3>1. CASE i < k
        BY <2>3, <3>1 DEF Lists!ToSet
      <3>2. CASE i > k
        <4>1. i - 1 \in 1..Len(out) /\ out[i - 1] = list[i]
          BY <2>3, <3>2
        <4> QED
          BY <2>3, <4>1 DEF Lists!ToSet
      <3> QED
        BY <2>6, <3>1, <3>2
    <2>7. Lists!ToSet(list) \subseteq Lists!ToSet(out) \cup {o}
      BY <2>1, <2>6 DEF Lists!ToSet
    <2>8. ASSUME NamedOnce(list) PROVE NamedOnce(out) /\ o \notin Lists!ToSet(out)
      <3>1. NamedOnce(out)
        BY <2>3, <2>8 DEF NamedOnce
      <3>2. \A i \in 1..Len(out) : out[i] # o
        BY <2>1, <2>3, <2>8 DEF NamedOnce
      <3> QED
        BY <2>3, <3>1, <3>2 DEF Lists!ToSet
    <2>9. Len(out) <= Len(list)
      BY <2>3
    <2> QED
      BY <2>3, <2>4, <2>5, <2>7, <2>8, <2>9
  <1> QED
    BY <1>1, <1>2

-----------------------------------------------------------------------------
\* What a request is, and what its steps leave alone.
LEMMA NewListReq ==
    /\ Lists!New \in ListReq /\ Lists!New.kind = "none" /\ Lists!New.step = "new"
    /\ MaxListReq \in Nat /\ MaxOrigins \in Nat \ {0} /\ EnvOrigin \subseteq Origin
  <1>1. MaxListReq \in Nat /\ MaxOrigins \in Nat \ {0} /\ EnvOrigin \subseteq Origin
    BY ListsAssumption DEF Lists!ListsAssumption
  <1>2. 0 \in 0..MaxListReq /\ <<>> \in Seq(Origin)
    BY <1>1
  <1> QED
    BY <1>1, <1>2 DEF Lists!New, ListReq, Lists!NoReq

Others(r) == \A q \in Lists!Call : q # r => listReq'[q] = listReq[q]

LEMMA ListReqBegins ==
    ASSUME ListReqs, NEW r \in Lists!Call, NEW rec \in ListReq, rec.step # "new",
           rec.kind \in {"capture", "remove"} => rec.origin \in Origin,
           Lists!Free(r), Lists!Begin(r, rec)
    PROVE  ListReqs' /\ listReq'[r] = rec /\ Others(r) /\ listReq[r].kind = "none" /\ listReq[r].step = "new"
  BY DEF ListReqs, Lists!Free, Lists!Begin, Others, Lists!Call

LEMMA ListReqSteps ==
    ASSUME ListReqs, NEW r \in Lists!Call, NEW s \in {"begun", "stored", "half", "tx", "done"}, Lists!Step(r, s)
    PROVE  /\ ListReqs' /\ Others(r)
           /\ listReq'[r].step = s /\ listReq'[r].kind = listReq[r].kind /\ listReq'[r].of = listReq[r].of
           /\ listReq'[r].origin = listReq[r].origin /\ listReq'[r].seen = listReq[r].seen
           /\ listReq'[r].port = listReq[r].port
  <1> DEFINE rec == [listReq[r] EXCEPT !.step = s]
  <1>1. /\ rec \in ListReq /\ rec.step = s /\ rec.kind = listReq[r].kind /\ rec.of = listReq[r].of
        /\ rec.origin = listReq[r].origin /\ rec.seen = listReq[r].seen /\ rec.port = listReq[r].port
    BY DEF ListReqs, ListReq
  <1>2. listReq' = [listReq EXCEPT ![r] = rec]
    BY DEF Lists!Step
  <1> HIDE DEF rec
  <1>3. listReq' \in [Lists!Call -> ListReq] /\ listReq'[r] = rec /\ Others(r)
    BY <1>1, <1>2 DEF ListReqs, Others, Lists!Call
  <1> QED
    BY <1>1, <1>3 DEF ListReqs, Others, Lists!Call

OfPreviews == {"create", "delete"}
OfOrigins == {"capture", "remove"}
Unchanged(kinds) == \A q \in Lists!Call :
  listReq[q].kind \in kinds \/ listReq'[q].kind \in kinds => listReq'[q] = listReq[q]

LEMMA PreviewsStay ==
    ASSUME PreviewInv, UNCHANGED <<previewRows, targets, health, round, leaked, unloaded>>, Unchanged(OfPreviews)
    PROVE  PreviewInv'
  <1>1. \A q \in Lists!Call : \A s :
          (Lists!At(q, "create", s) <=> Lists!At(q, "create", s)') /\ (Lists!At(q, "delete", s) <=> Lists!At(q, "delete", s)')
    BY DEF Unchanged, OfPreviews, Lists!At
  <1>2. PreviewTypes' /\ RowsMade' /\ TargetsMade' /\ RowsFirst' /\ NeverLoaded' /\ StoredHasRow'
    BY <1>1 DEF PreviewInv, PreviewTypes, RowsMade, TargetsMade, RowsFirst, NeverLoaded, StoredHasRow, Unchanged,
       OfPreviews
  <1>3. \A q, s : Deleting(q, s) => Deleting(q, s)'
    BY <1>1 DEF Deleting, Unchanged, OfPreviews, Lists!At
  <1>4. TargetsLast' /\ JudgedOrGone'
    BY <1>3 DEF PreviewInv, TargetsLast, JudgedOrGone
  <1>5. DeletesMade' /\ DeletedRowGone'
    BY <1>1 DEF PreviewInv, DeletesMade, DeletedRowGone, Unchanged, OfPreviews
  <1> QED
    BY <1>2, <1>4, <1>5 DEF PreviewInv

LEMMA OriginsStay ==
    ASSUME OriginInv, UNCHANGED <<originsDb, origins, lock, due, racedOrigins, removed>>, Unchanged(OfOrigins)
    PROVE  OriginInv'
  <1>1. OriginTypes' /\ ReadUnderLock' /\ NamedOnce(originsDb)' /\ Lists!OriginsKept' /\ Lists!RemovedStaysOut'
        /\ RemovedFromBoth'
    BY DEF OriginInv, OriginTypes, ReadUnderLock, NamedOnce, Lists!OriginsKept, Lists!RemovedStaysOut,
       RemovedFromBoth, Unchanged, OfOrigins, Lists!ToSet, Lists!Call
  <1>2. CaptureClears' /\ OverlapsAreRaces' /\ HalfRemoved'
    BY DEF OriginInv, CaptureClears, OverlapsAreRaces, HalfRemoved, Unchanged, OfOrigins, Lists!InHand,
       Lists!At, Lists!ToSet
  <1> QED
    BY <1>1, <1>2 DEF OriginInv

-----------------------------------------------------------------------------
\* A step for a preview leaves ports and origins alone, and the other way round.
LEMMA PreviewStep ==
    ASSUME ListsInv, NEW r \in Lists!Call, ListReqs', Others(r),
           listReq[r].kind \in OfPreviews \cup {"none"}, listReq'[r].kind \in OfPreviews,
           UNCHANGED <<portsDb, ports, unsaved>>,
           UNCHANGED <<originsDb, origins, lock, due, racedOrigins, removed>>, PreviewInv'
    PROVE  ListsInv'
  <1>1. Unchanged(OfOrigins)
    BY DEF Unchanged, OfOrigins, OfPreviews, Others
  <1>2. OriginInv'
    BY <1>1, OriginsStay DEF ListsInv
  <1> QED
    BY <1>2 DEF ListsInv, PortInv

LEMMA OriginStep ==
    ASSUME ListsInv, NEW r \in Lists!Call, ListReqs', Others(r),
           listReq[r].kind \in OfOrigins \cup {"none"}, listReq'[r].kind \in OfOrigins,
           UNCHANGED <<portsDb, ports, unsaved>>,
           UNCHANGED <<previewRows, targets, health, round, leaked, unloaded>>, OriginInv'
    PROVE  ListsInv'
  <1>1. Unchanged(OfPreviews)
    BY DEF Unchanged, OfOrigins, OfPreviews, Others
  <1>2. PreviewInv'
    BY <1>1, PreviewsStay DEF ListsInv
  <1> QED
    BY <1>2 DEF ListsInv, PortInv

LEMMA CreateBeginsKeeps ==
    ASSUME ListsInv, NEW r \in Lists!Call, Lists!CreateBegins(r)
    PROVE  ListsInv'
  <1>1. PICK p \in Port : Lists!Free(r) /\ Lists!Begin(r, [Lists!New EXCEPT !.kind = "create", !.step = "begun", !.port = p])
    BY DEF Lists!CreateBegins
  <1> DEFINE rec == [Lists!New EXCEPT !.kind = "create", !.step = "begun", !.port = p]
  <1>2. rec \in ListReq /\ rec.kind = "create" /\ rec.step = "begun"
    BY NewListReq DEF ListReq, Lists!Kind
  <1>3. Lists!Begin(r, rec)
    BY <1>1
  <1> HIDE DEF rec
  <1>4. ListReqs' /\ listReq'[r] = rec /\ Others(r) /\ listReq[r].kind = "none" /\ listReq[r].step = "new"
    BY <1>1, <1>2, <1>3, ListReqBegins DEF ListsInv
  <1>5. UNCHANGED <<previewRows, targets, health, round, leaked, unloaded>> /\ UNCHANGED <<portsDb, ports, unsaved>>
        /\ UNCHANGED <<originsDb, origins, lock, due, racedOrigins, removed>>
    BY DEF Lists!CreateBegins, Lists!previewVars, Lists!portVars, Lists!originVars
  <1>7. PreviewInv'
    <2>1. PreviewTypes' /\ RowsMade' /\ TargetsMade' /\ RowsFirst' /\ NeverLoaded' /\ StoredHasRow'
      BY <1>2, <1>4, <1>5 DEF ListsInv, PreviewInv, PreviewTypes, RowsMade, TargetsMade, RowsFirst, NeverLoaded, StoredHasRow, Others,
         Lists!At
    <2>2. \A q, s : Deleting(q, s) => Deleting(q, s)'
      BY <1>2, <1>4 DEF Deleting, Lists!At, Others
    <2>3. TargetsLast' /\ JudgedOrGone'
      BY <1>5, <2>2 DEF ListsInv, PreviewInv, TargetsLast, JudgedOrGone
    <2>4. DeletesMade' /\ DeletedRowGone'
      BY <1>2, <1>4, <1>5 DEF ListsInv, PreviewInv, DeletesMade, DeletedRowGone, Others, Lists!At
    <2> QED
      BY <2>1, <2>3, <2>4 DEF PreviewInv
  <1> QED
    BY <1>2, <1>4, <1>5, <1>7, PreviewStep DEF OfPreviews

LEMMA InsertPreviewKeeps ==
    ASSUME ListsInv, NEW r \in Lists!Call, Lists!InsertPreview(r)
    PROVE  ListsInv'
  <1>1. /\ Lists!At(r, "create", "begun")
        /\ \/ previewRows' = previewRows \cup {r} /\ Lists!Step(r, "stored")
           \/ Lists!Step(r, "done") /\ UNCHANGED previewRows
        /\ UNCHANGED <<targets, health, round, leaked, unloaded>> /\ UNCHANGED <<portsDb, ports, unsaved>>
        /\ UNCHANGED <<originsDb, origins, lock, due, racedOrigins, removed>>
    BY DEF Lists!InsertPreview, Lists!portVars, Lists!originVars
  <1>2. PICK s \in {"stored", "done"} :
          /\ Lists!Step(r, s)
          /\ previewRows' = IF s = "stored" THEN previewRows \cup {r} ELSE previewRows
    BY <1>1
  <1>3. /\ ListReqs' /\ Others(r) /\ listReq'[r].step = s /\ listReq'[r].kind = "create"
        /\ listReq[r].kind = "create" /\ listReq[r].step = "begun"
    BY <1>1, <1>2, ListReqSteps DEF ListsInv, Lists!At
  <1>4. r \notin previewRows /\ r \notin targets /\ \A q \in Lists!Call : listReq[q].kind = "delete" => listReq[q].of # r
    BY <1>3 DEF ListsInv, PreviewInv, RowsMade, TargetsMade, DeletesMade, Lists!At
  <1>5. PreviewInv'
    <2>1. PreviewTypes' /\ RowsMade' /\ TargetsMade' /\ RowsFirst' /\ NeverLoaded' /\ StoredHasRow'
      BY <1>1, <1>2, <1>3, <1>4 DEF ListsInv, PreviewInv, PreviewTypes, RowsMade, TargetsMade, RowsFirst, NeverLoaded,
         StoredHasRow, Others, Lists!At
    <2>2. \A q, t : Deleting(q, t) => Deleting(q, t)'
      BY <1>3 DEF Deleting, Lists!At, Others
    <2>3. TargetsLast' /\ JudgedOrGone'
      BY <1>1, <1>2, <2>2 DEF ListsInv, PreviewInv, TargetsLast, JudgedOrGone
    <2>4. DeletesMade' /\ DeletedRowGone'
      BY <1>1, <1>2, <1>3, <1>4 DEF ListsInv, PreviewInv, DeletesMade, DeletedRowGone, Others, Lists!At
    <2> QED
      BY <2>1, <2>3, <2>4 DEF PreviewInv
  <1> QED
    BY <1>1, <1>3, <1>5, PreviewStep DEF OfPreviews

LEMMA InsertTargetKeeps ==
    ASSUME ListsInv, NEW r \in Lists!Call, Lists!InsertTarget(r)
    PROVE  ListsInv'
  <1>1. /\ Lists!At(r, "create", "stored") /\ targets' = targets \cup {r} /\ Lists!Step(r, "done")
        /\ UNCHANGED <<previewRows, health, round, leaked, unloaded>> /\ UNCHANGED <<portsDb, ports, unsaved>>
        /\ UNCHANGED <<originsDb, origins, lock, due, racedOrigins, removed>>
    BY DEF Lists!InsertTarget, Lists!portVars, Lists!originVars
  <1>2. /\ ListReqs' /\ Others(r) /\ listReq'[r].step = "done" /\ listReq'[r].kind = "create"
        /\ listReq[r].kind = "create" /\ listReq[r].step = "stored"
    BY <1>1, ListReqSteps DEF ListsInv, Lists!At
  <1>3. r \in previewRows
    BY <1>1 DEF ListsInv, PreviewInv, StoredHasRow
  <1>4. PreviewInv'
    <2>1. PreviewTypes' /\ RowsMade' /\ TargetsMade' /\ RowsFirst' /\ NeverLoaded' /\ StoredHasRow'
      BY <1>1, <1>2 DEF ListsInv, PreviewInv, PreviewTypes, RowsMade, TargetsMade, RowsFirst, NeverLoaded,
         StoredHasRow, Others, Lists!At
    <2>2. \A q, t : Deleting(q, t) => Deleting(q, t)'
      BY <1>2 DEF Deleting, Lists!At, Others
    <2>3. TargetsLast' /\ JudgedOrGone'
      BY <1>1, <1>3, <2>2 DEF ListsInv, PreviewInv, TargetsLast, JudgedOrGone
    <2>4. DeletesMade' /\ DeletedRowGone'
      BY <1>1, <1>2 DEF ListsInv, PreviewInv, DeletesMade, DeletedRowGone, Others, Lists!At
    <2> QED
      BY <2>1, <2>3, <2>4 DEF PreviewInv
  <1> QED
    BY <1>1, <1>2, <1>4, PreviewStep DEF OfPreviews

LEMMA DeleteBeginsKeeps ==
    ASSUME ListsInv, NEW r \in Lists!Call, Lists!DeleteBegins(r)
    PROVE  ListsInv'
  <1>1. PICK q \in 1..(r - 1) : /\ Lists!Free(r) /\ Lists!At(q, "create", "done")
                                /\ Lists!Begin(r, [Lists!New EXCEPT !.kind = "delete", !.step = "begun", !.of = q])
    BY DEF Lists!DeleteBegins
  <1> DEFINE rec == [Lists!New EXCEPT !.kind = "delete", !.step = "begun", !.of = q]
  <1>2. q \in Lists!Call /\ q \in 0..MaxListReq
    BY NewListReq DEF Lists!Call
  <1>3. rec \in ListReq /\ rec.kind = "delete" /\ rec.step = "begun" /\ rec.of = q
    BY <1>2, NewListReq DEF ListReq, Lists!Kind
  <1>4. Lists!Begin(r, rec)
    BY <1>1
  <1> HIDE DEF rec
  <1>5. ListReqs' /\ listReq'[r] = rec /\ Others(r) /\ listReq[r].kind = "none" /\ listReq[r].step = "new"
    BY <1>1, <1>3, <1>4, ListReqBegins DEF ListsInv
  <1>6. UNCHANGED <<previewRows, targets, health, round, leaked, unloaded>> /\ UNCHANGED <<portsDb, ports, unsaved>>
        /\ UNCHANGED <<originsDb, origins, lock, due, racedOrigins, removed>>
    BY DEF Lists!DeleteBegins, Lists!previewVars, Lists!portVars, Lists!originVars
  <1>7. PreviewInv'
    <2>1. PreviewTypes' /\ RowsMade' /\ TargetsMade' /\ RowsFirst' /\ NeverLoaded' /\ StoredHasRow'
      BY <1>3, <1>5, <1>6 DEF ListsInv, PreviewInv, PreviewTypes, RowsMade, TargetsMade, RowsFirst, NeverLoaded, StoredHasRow, Others,
         Lists!At
    <2>2. \A c, s : Deleting(c, s) => Deleting(c, s)'
      BY <1>3, <1>5 DEF Deleting, Lists!At, Others
    <2>3. TargetsLast' /\ JudgedOrGone'
      BY <1>6, <2>2 DEF ListsInv, PreviewInv, TargetsLast, JudgedOrGone
    <2>4. DeletesMade' /\ DeletedRowGone'
      BY <1>1, <1>2, <1>3, <1>5, <1>6 DEF ListsInv, PreviewInv, DeletesMade, DeletedRowGone, Others, Lists!At
    <2> QED
      BY <2>1, <2>3, <2>4 DEF PreviewInv
  <1> QED
    BY <1>3, <1>5, <1>6, <1>7, PreviewStep DEF OfPreviews

LEMMA DeletePreviewKeeps ==
    ASSUME ListsInv, NEW r \in Lists!Call, Lists!DeletePreview(r)
    PROVE  ListsInv'
  <1>1. /\ Lists!At(r, "delete", "begun")
        /\ \/ previewRows' = previewRows \ {listReq[r].of} /\ Lists!Step(r, "stored")
           \/ Lists!Step(r, "done") /\ UNCHANGED previewRows
        /\ UNCHANGED <<targets, health, round, leaked, unloaded>> /\ UNCHANGED <<portsDb, ports, unsaved>>
        /\ UNCHANGED <<originsDb, origins, lock, due, racedOrigins, removed>>
    BY DEF Lists!DeletePreview, Lists!portVars, Lists!originVars
  <1>2. PICK s \in {"stored", "done"} :
          /\ Lists!Step(r, s)
          /\ previewRows' = IF s = "stored" THEN previewRows \ {listReq[r].of} ELSE previewRows
    BY <1>1
  <1>3. /\ ListReqs' /\ Others(r) /\ listReq'[r].step = s /\ listReq'[r].kind = "delete"
        /\ listReq[r].kind = "delete" /\ listReq[r].step = "begun" /\ listReq'[r].of = listReq[r].of
    BY <1>1, <1>2, ListReqSteps DEF ListsInv, Lists!At
  <1>4. Lists!At(listReq[r].of, "create", "done")
    BY <1>3 DEF ListsInv, PreviewInv, DeletesMade
  <1>5. PreviewInv'
    <2>1. PreviewTypes' /\ RowsMade' /\ TargetsMade' /\ RowsFirst' /\ NeverLoaded' /\ StoredHasRow'
      BY <1>1, <1>2, <1>3, <1>4 DEF ListsInv, PreviewInv, PreviewTypes, RowsMade, TargetsMade, RowsFirst, NeverLoaded,
         StoredHasRow, Others, Lists!At
    <2>2. \A q, t : Deleting(q, t) /\ t # "begun" => Deleting(q, t)'
      BY <1>3 DEF Deleting, Lists!At, Others
    <2>3. \A q : s = "stored" /\ q = listReq[r].of => Deleting(q, "stored")'
      BY <1>3 DEF Deleting, Lists!At
    <2>4. TargetsLast' /\ JudgedOrGone'
      <3>1. \A q \in targets' \ previewRows' :
              q \in targets \ previewRows \/ (s = "stored" /\ q = listReq[r].of)
        BY <1>1, <1>2
      <3>2. TargetsLast'
        BY <2>2, <2>3, <3>1 DEF ListsInv, PreviewInv, TargetsLast
      <3> QED
        BY <1>1, <2>2, <3>2 DEF ListsInv, PreviewInv, JudgedOrGone
    <2>5. DeletesMade' /\ DeletedRowGone'
      BY <1>1, <1>2, <1>3, <1>4 DEF ListsInv, PreviewInv, DeletesMade, DeletedRowGone, Others, Lists!At
    <2> QED
      BY <2>1, <2>4, <2>5 DEF PreviewInv
  <1> QED
    BY <1>1, <1>3, <1>5, PreviewStep DEF OfPreviews

LEMMA RemoveTargetKeeps ==
    ASSUME ListsInv, NEW r \in Lists!Call, Lists!RemoveTarget(r)
    PROVE  ListsInv'
  <1>1. /\ Lists!At(r, "delete", "stored") /\ targets' = targets \ {listReq[r].of} /\ Lists!Step(r, "half")
        /\ UNCHANGED <<previewRows, health, round, leaked, unloaded>> /\ UNCHANGED <<portsDb, ports, unsaved>>
        /\ UNCHANGED <<originsDb, origins, lock, due, racedOrigins, removed>>
    BY DEF Lists!RemoveTarget, Lists!portVars, Lists!originVars
  <1>2. /\ ListReqs' /\ Others(r) /\ listReq'[r].step = "half" /\ listReq'[r].kind = "delete"
        /\ listReq[r].kind = "delete" /\ listReq[r].step = "stored" /\ listReq'[r].of = listReq[r].of
    BY <1>1, ListReqSteps DEF ListsInv, Lists!At
  <1>3. listReq[r].of \notin previewRows /\ Lists!At(listReq[r].of, "create", "done")
    BY <1>2 DEF ListsInv, PreviewInv, DeletedRowGone, DeletesMade
  <1>4. PreviewInv'
    <2>1. PreviewTypes' /\ RowsMade' /\ TargetsMade' /\ RowsFirst' /\ NeverLoaded' /\ StoredHasRow'
      BY <1>1, <1>2, <1>3 DEF ListsInv, PreviewInv, PreviewTypes, RowsMade, TargetsMade, RowsFirst, NeverLoaded,
         StoredHasRow, Others, Lists!At
    <2>2. \A q, t : Deleting(q, t) /\ (q # listReq[r].of \/ t # "stored") => Deleting(q, t)'
      BY <1>2 DEF Deleting, Lists!At, Others
    <2>3. \A q : q = listReq[r].of => Deleting(q, "half")'
      BY <1>2 DEF Deleting, Lists!At
    <2>4. TargetsLast' /\ JudgedOrGone'
      <3>1. \A q \in targets' \ previewRows' : q \in targets \ previewRows /\ q # listReq[r].of
        BY <1>1
      <3>2. TargetsLast'
        BY <2>2, <3>1 DEF ListsInv, PreviewInv, TargetsLast
      <3>3. \A q \in (health \cup round)' \ targets' : q \in (health \cup round) \ targets \/ q = listReq[r].of
        BY <1>1
      <3>4. JudgedOrGone'
        BY <1>1, <2>2, <2>3, <3>3 DEF ListsInv, PreviewInv, JudgedOrGone
      <3> QED
        BY <3>2, <3>4
    <2>5. DeletesMade' /\ DeletedRowGone'
      BY <1>1, <1>2, <1>3 DEF ListsInv, PreviewInv, DeletesMade, DeletedRowGone, Others, Lists!At
    <2> QED
      BY <2>1, <2>4, <2>5 DEF PreviewInv
  <1> QED
    BY <1>1, <1>2, <1>4, PreviewStep DEF OfPreviews

LEMMA RemoveHealthKeeps ==
    ASSUME ListsInv, NEW r \in Lists!Call, Lists!RemoveHealth(r)
    PROVE  ListsInv'
  <1>1. /\ Lists!At(r, "delete", "half") /\ health' = health \ {listReq[r].of} /\ Lists!Step(r, "done")
        /\ leaked' = leaked \cup ({listReq[r].of} \cap round)
        /\ UNCHANGED <<previewRows, targets, round, unloaded>> /\ UNCHANGED <<portsDb, ports, unsaved>>
        /\ UNCHANGED <<originsDb, origins, lock, due, racedOrigins, removed>>
    BY DEF Lists!RemoveHealth, Lists!portVars, Lists!originVars
  <1>2. /\ ListReqs' /\ Others(r) /\ listReq'[r].step = "done" /\ listReq'[r].kind = "delete"
        /\ listReq[r].kind = "delete" /\ listReq[r].step = "half" /\ listReq'[r].of = listReq[r].of
    BY <1>1, ListReqSteps DEF ListsInv, Lists!At
  <1>3. Lists!At(listReq[r].of, "create", "done")
    BY <1>2 DEF ListsInv, PreviewInv, DeletesMade
  <1>4. PreviewInv'
    <2>1. PreviewTypes'
      BY <1>1, <1>3 DEF ListsInv, PreviewInv, PreviewTypes
    <2>5. RowsMade' /\ TargetsMade' /\ StoredHasRow'
      BY <1>1, <1>2 DEF ListsInv, PreviewInv, PreviewTypes, RowsMade, TargetsMade, StoredHasRow, Others, Lists!At
    <2>6. RowsFirst' /\ NeverLoaded'
      BY <1>1, <1>2 DEF ListsInv, PreviewInv, PreviewTypes, RowsFirst, NeverLoaded, Others, Lists!At
    <2>2. \A q, t : Deleting(q, t) /\ (q # listReq[r].of \/ t # "half") => Deleting(q, t)'
      BY <1>2 DEF Deleting, Lists!At, Others
    <2>3. TargetsLast' /\ JudgedOrGone'
      BY <1>1, <2>2 DEF ListsInv, PreviewInv, TargetsLast, JudgedOrGone
    <2>4. DeletesMade' /\ DeletedRowGone'
      BY <1>1, <1>2, <1>3 DEF ListsInv, PreviewInv, DeletesMade, DeletedRowGone, Others, Lists!At
    <2> QED
      BY <2>1, <2>3, <2>4, <2>5, <2>6 DEF PreviewInv
  <1> QED
    BY <1>1, <1>2, <1>4, PreviewStep DEF OfPreviews

\* The health loop makes no request.
LEMMA HealthLoopKeeps ==
    ASSUME ListsInv, Lists!RoundBegins \/ \E q \in Lists!Call : Lists!Judge(q)
    PROVE  ListsInv'
  <1>1. /\ UNCHANGED <<previewRows, targets, leaked, unloaded, listReq>> /\ UNCHANGED <<portsDb, ports, unsaved>>
        /\ UNCHANGED <<originsDb, origins, lock, due, racedOrigins, removed>>
        /\ health' \cup round' \subseteq health \cup round \cup targets
    BY DEF Lists!RoundBegins, Lists!Judge, Lists!portVars, Lists!originVars
  <1>2. PreviewInv'
    <2>1. PreviewTypes' /\ RowsMade' /\ TargetsMade' /\ StoredHasRow'
      BY <1>1 DEF ListsInv, PreviewInv, PreviewTypes, RowsMade, TargetsMade, StoredHasRow, Lists!At
    <2>4. RowsFirst' /\ NeverLoaded' /\ DeletesMade' /\ DeletedRowGone'
      BY <1>1 DEF ListsInv, PreviewInv, RowsFirst, NeverLoaded, DeletesMade, DeletedRowGone, Lists!At
    <2>2. \A q, t : Deleting(q, t)' <=> Deleting(q, t)
      BY <1>1 DEF Deleting, Lists!At
    <2>3. TargetsLast' /\ JudgedOrGone'
      BY <1>1, <2>2 DEF ListsInv, PreviewInv, TargetsLast, JudgedOrGone
    <2> QED
      BY <2>1, <2>3, <2>4 DEF PreviewInv
  <1>3. OriginInv'
    <2>1. Unchanged(OfOrigins)
      BY <1>1 DEF Unchanged
    <2> QED
      BY <1>1, <2>1, OriginsStay DEF ListsInv
  <1> QED
    BY <1>1, <1>2, <1>3 DEF ListsInv, PortInv, ListReqs

LEMMA SetAllowedKeeps ==
    ASSUME ListsInv, NEW r \in Lists!Call, Lists!SetAllowed(r)
    PROVE  ListsInv'
  <1>1. PICK p \in Port, on \in BOOLEAN :
          /\ ports' = IF on THEN ports \cup {p} ELSE ports \ {p}
          /\ (portsDb' = ports' /\ unsaved' = FALSE) \/ (unsaved' = TRUE /\ UNCHANGED portsDb)
          /\ Lists!Free(r)
          /\ Lists!Begin(r, [Lists!New EXCEPT !.kind = "port", !.step = "done", !.port = p, !.on = on])
    BY DEF Lists!SetAllowed
  <1> DEFINE rec == [Lists!New EXCEPT !.kind = "port", !.step = "done", !.port = p, !.on = on]
  <1>2. rec \in ListReq /\ rec.kind = "port" /\ rec.step = "done"
    BY NewListReq DEF ListReq, Lists!Kind
  <1>3. Lists!Begin(r, rec)
    BY <1>1
  <1> HIDE DEF rec
  <1>4. ListReqs' /\ listReq'[r] = rec /\ Others(r) /\ listReq[r].kind = "none"
    BY <1>1, <1>2, <1>3, ListReqBegins DEF ListsInv
  <1>5. /\ UNCHANGED <<previewRows, targets, health, round, leaked, unloaded>>
        /\ UNCHANGED <<originsDb, origins, lock, due, racedOrigins, removed>>
    BY DEF Lists!SetAllowed, Lists!previewVars, Lists!originVars
  <1>6. Unchanged(OfPreviews) /\ Unchanged(OfOrigins)
    BY <1>2, <1>4 DEF Unchanged, OfPreviews, OfOrigins, Others
  <1>7. PreviewInv' /\ OriginInv'
    BY <1>5, <1>6, PreviewsStay, OriginsStay DEF ListsInv
  <1>8. PortInv'
    BY <1>1 DEF ListsInv, PortInv
  <1> QED
    BY <1>4, <1>7, <1>8 DEF ListsInv

-----------------------------------------------------------------------------
\* Origins: where a request stands with respect to the others.
LEMMA CaptureKeeps ==
    ASSUME ListsInv, NEW r \in Lists!Call, Lists!Capture(r)
    PROVE  ListsInv'
  <1>1. PICK o \in Origin :
          /\ Lists!Free(r) /\ origins' = origins \cup {o} /\ removed' = removed \ {o}
          /\ racedOrigins' = IF Lists!Busy("remove", o) THEN racedOrigins \cup {o} ELSE racedOrigins
          /\ Lists!Begin(r, [Lists!New EXCEPT !.kind = "capture", !.step = "begun", !.origin = o])
    BY DEF Lists!Capture
  <1> DEFINE rec == [Lists!New EXCEPT !.kind = "capture", !.step = "begun", !.origin = o]
  <1>2. rec \in ListReq /\ rec.kind = "capture" /\ rec.step = "begun" /\ rec.origin = o
    BY NewListReq DEF ListReq, Lists!Kind
  <1>3. Lists!Begin(r, rec)
    BY <1>1
  <1> HIDE DEF rec
  <1>4. ListReqs' /\ listReq'[r] = rec /\ Others(r) /\ listReq[r].kind = "none" /\ listReq[r].step = "new"
    BY <1>1, <1>2, <1>3, ListReqBegins DEF ListsInv
  <1>5. UNCHANGED <<previewRows, targets, health, round, leaked, unloaded>> /\ UNCHANGED <<portsDb, ports, unsaved>>
        /\ UNCHANGED <<originsDb, lock, due>>
    BY DEF Lists!Capture, Lists!previewVars, Lists!portVars
  <1>6. \A q \in Lists!Call :
          listReq[q].kind = "remove" /\ Lists!InHand(q) /\ listReq[q].origin = o => o \in racedOrigins'
    BY <1>1 DEF Lists!Busy
  <1>7. OriginInv'
    <2>1. OriginTypes' /\ Lists!OriginsKept' /\ Lists!RemovedStaysOut' /\ NamedOnce(originsDb)' /\ RemovedFromBoth'
      BY <1>1, <1>5 DEF ListsInv, OriginInv, OriginTypes, Lists!OriginsKept, Lists!RemovedStaysOut, NamedOnce,
         RemovedFromBoth, Lists!ToSet, Lists!Call
    <2>2. ReadUnderLock'
      BY <1>2, <1>4, <1>5 DEF ListsInv, OriginInv, ReadUnderLock, Others
    <2>3. CaptureClears' /\ HalfRemoved'
      BY <1>1, <1>2, <1>4, <1>5 DEF ListsInv, OriginInv, CaptureClears, HalfRemoved, Others, Lists!InHand, Lists!At,
         Lists!ToSet
    <2>4. OverlapsAreRaces'
      BY <1>1, <1>2, <1>4, <1>6 DEF ListsInv, OriginInv, OverlapsAreRaces, Others, Lists!InHand
    <2> QED
      BY <2>1, <2>2, <2>3, <2>4 DEF OriginInv
  <1> QED
    BY <1>2, <1>4, <1>5, <1>7, OriginStep DEF OfOrigins

LEMMA RemoveBeginsKeeps ==
    ASSUME ListsInv, NEW r \in Lists!Call, Lists!RemoveBegins(r)
    PROVE  ListsInv'
  <1>1. PICK o \in Origin :
          /\ Lists!Free(r)
          /\ racedOrigins' = IF Lists!Busy("capture", o) THEN racedOrigins \cup {o} ELSE racedOrigins
          /\ Lists!Begin(r, [Lists!New EXCEPT !.kind = "remove", !.step = "begun", !.origin = o])
    BY DEF Lists!RemoveBegins
  <1> DEFINE rec == [Lists!New EXCEPT !.kind = "remove", !.step = "begun", !.origin = o]
  <1>2. rec \in ListReq /\ rec.kind = "remove" /\ rec.step = "begun" /\ rec.origin = o
    BY NewListReq DEF ListReq, Lists!Kind
  <1>3. Lists!Begin(r, rec)
    BY <1>1
  <1> HIDE DEF rec
  <1>4. ListReqs' /\ listReq'[r] = rec /\ Others(r) /\ listReq[r].kind = "none" /\ listReq[r].step = "new"
    BY <1>1, <1>2, <1>3, ListReqBegins DEF ListsInv
  <1>5. UNCHANGED <<previewRows, targets, health, round, leaked, unloaded>> /\ UNCHANGED <<portsDb, ports, unsaved>>
        /\ UNCHANGED <<originsDb, origins, lock, due, removed>>
    BY DEF Lists!RemoveBegins, Lists!previewVars, Lists!portVars
  <1>6. \A q \in Lists!Call :
          listReq[q].kind = "capture" /\ Lists!InHand(q) /\ listReq[q].origin = o => o \in racedOrigins'
    BY <1>1 DEF Lists!Busy
  <1>7. OriginInv'
    <2>1. OriginTypes' /\ Lists!OriginsKept' /\ Lists!RemovedStaysOut' /\ NamedOnce(originsDb)' /\ RemovedFromBoth'
      BY <1>1, <1>5 DEF ListsInv, OriginInv, OriginTypes, Lists!OriginsKept, Lists!RemovedStaysOut, NamedOnce,
         RemovedFromBoth, Lists!ToSet, Lists!Call
    <2>2. ReadUnderLock'
      BY <1>2, <1>4, <1>5 DEF ListsInv, OriginInv, ReadUnderLock, Others
    <2>3. CaptureClears' /\ HalfRemoved'
      BY <1>1, <1>2, <1>4, <1>5 DEF ListsInv, OriginInv, CaptureClears, HalfRemoved, Others, Lists!InHand, Lists!At,
         Lists!ToSet
    <2>4. OverlapsAreRaces'
      BY <1>1, <1>2, <1>4, <1>6 DEF ListsInv, OriginInv, OverlapsAreRaces, Others, Lists!InHand
    <2> QED
      BY <2>1, <2>2, <2>3, <2>4 DEF OriginInv
  <1> QED
    BY <1>2, <1>4, <1>5, <1>7, OriginStep DEF OfOrigins

LEMMA BeginTxKeeps ==
    ASSUME ListsInv, NEW r \in Lists!Call, Lists!BeginTx(r)
    PROVE  ListsInv'
  <1>1. /\ listReq[r].kind \in OfOrigins /\ listReq[r].step = "begun" /\ lock = 0 /\ lock' = r
        /\ listReq' = [listReq EXCEPT ![r].step = "tx", ![r].seen = originsDb]
        /\ UNCHANGED <<previewRows, targets, health, round, leaked, unloaded>> /\ UNCHANGED <<portsDb, ports, unsaved>>
        /\ UNCHANGED <<originsDb, origins, due, racedOrigins, removed>>
    BY DEF Lists!BeginTx, Lists!At, OfOrigins, Lists!NoReq, Lists!previewVars, Lists!portVars
  <1> DEFINE rec == [listReq[r] EXCEPT !.step = "tx", !.seen = originsDb]
  <1>2. /\ rec \in ListReq /\ rec.step = "tx" /\ rec.seen = originsDb /\ rec.kind = listReq[r].kind
        /\ rec.origin = listReq[r].origin
    BY DEF ListsInv, ListReqs, ListReq, OriginInv, OriginTypes
  <1>3. listReq' = [listReq EXCEPT ![r] = rec]
    BY <1>1 DEF ListsInv, ListReqs
  <1> HIDE DEF rec
  <1>4. listReq'[r] = rec /\ Others(r) /\ listReq' \in [Lists!Call -> ListReq]
    BY <1>2, <1>3 DEF ListsInv, ListReqs, Others, Lists!Call
  <1>5. ListReqs'
    BY <1>1, <1>2, <1>4 DEF ListsInv, ListReqs, Others, Lists!Call
  <1>6. OriginInv'
    <2>1. \A q \in Lists!Call : listReq[q].kind \in {"capture", "remove"} => listReq[q].step # "tx"
      BY <1>1 DEF ListsInv, OriginInv, ReadUnderLock, Lists!Call
    <2>2. OriginTypes' /\ Lists!OriginsKept' /\ Lists!RemovedStaysOut' /\ NamedOnce(originsDb)' /\ RemovedFromBoth'
      BY <1>1 DEF ListsInv, OriginInv, OriginTypes, Lists!OriginsKept, Lists!RemovedStaysOut, NamedOnce,
         RemovedFromBoth, Lists!ToSet, Lists!Call
    <2>3. ReadUnderLock'
      BY <1>1, <1>2, <1>4, <2>1 DEF ReadUnderLock, Others
    <2>4. CaptureClears' /\ HalfRemoved' /\ OverlapsAreRaces'
      BY <1>1, <1>2, <1>4 DEF ListsInv, OriginInv, CaptureClears, HalfRemoved, OverlapsAreRaces, Others, Lists!InHand,
         Lists!At, Lists!ToSet
    <2> QED
      BY <2>2, <2>3, <2>4 DEF OriginInv
  <1> QED
    BY <1>1, <1>2, <1>4, <1>5, <1>6, OriginStep DEF OfOrigins

\* The transaction of one request is the only one.
LEMMA TxAlone ==
    ASSUME ListsInv, NEW r \in Lists!Call, listReq[r].kind \in OfOrigins, listReq[r].step = "tx"
    PROVE  /\ listReq[r].seen = originsDb /\ originsDb \in Seq(Origin) /\ listReq[r].origin \in Origin
           /\ \A q \in Lists!Call : listReq[q].kind \in OfOrigins /\ listReq[q].step = "tx" => q = r
  BY DEF ListsInv, OriginInv, OriginTypes, ReadUnderLock, ListReqs, OfOrigins

LEMMA UpsertKeeps ==
    ASSUME ListsInv, NEW r \in Lists!Call, Lists!Upsert(r)
    PROVE  ListsInv'
  <1>1. /\ listReq[r].kind = "capture" /\ listReq[r].step = "tx" /\ Lists!Step(r, "done") /\ lock' = 0
        /\ UNCHANGED <<previewRows, targets, health, round, leaked, unloaded>> /\ UNCHANGED <<portsDb, ports, unsaved>>
        /\ UNCHANGED <<origins, racedOrigins, removed>>
    BY DEF Lists!Upsert, Lists!At, Lists!NoReq, Lists!previewVars, Lists!portVars
  <1>2. PICK o \in Origin : o = listReq[r].origin
    BY <1>1, TxAlone DEF OfOrigins
  <1>3. /\ listReq[r].seen = originsDb /\ originsDb \in Seq(Origin)
        /\ \A q \in Lists!Call : listReq[q].kind \in OfOrigins /\ listReq[q].step = "tx" => q = r
    BY <1>1, TxAlone DEF OfOrigins
  <1>4. /\ ListReqs' /\ Others(r) /\ listReq'[r].step = "done" /\ listReq'[r].kind = "capture"
    BY <1>1, ListReqSteps DEF ListsInv
  <1>5. PICK out : /\ out = IF Len(originsDb) >= MaxOrigins /\ ~Lists!Contains(originsDb, o) THEN {Head(originsDb)} ELSE {}
                   /\ originsDb' = Lists!Upserted(originsDb, o) /\ due' = (due \ out) \cup {o}
    BY <1>2, <1>3 DEF Lists!Upsert
  <1>6. Len(originsDb) \in Nat /\ Len(originsDb) <= MaxOrigins /\ NamedOnce(originsDb) /\ MaxOrigins \in Nat \ {0}
        /\ due \subseteq Lists!ToSet(originsDb)
    BY <1>3, NewListReq DEF ListsInv, OriginInv, OriginTypes, Lists!OriginsKept
  <1>7. /\ originsDb' \in Seq(Origin) /\ Len(originsDb') <= MaxOrigins /\ NamedOnce(originsDb')
        /\ Lists!ToSet(originsDb') \subseteq Lists!ToSet(originsDb) \cup {o}
        /\ (Lists!ToSet(originsDb) \ out) \cup {o} \subseteq Lists!ToSet(originsDb')
    <2>1. CASE Lists!Contains(originsDb, o)
      BY <1>3, <1>5, <1>6, <2>1, ToSetFacts DEF Lists!Upserted
    <2>2. CASE ~Lists!Contains(originsDb, o) /\ Len(originsDb) >= MaxOrigins
      <3>1. Len(originsDb) > 0
        BY <1>6, <2>2
      <3>2. PICK rest \in Seq(Origin) :
              /\ rest = Tail(originsDb) /\ Len(rest) = Len(originsDb) - 1 /\ NamedOnce(rest)
              /\ Lists!ToSet(rest) \subseteq Lists!ToSet(originsDb)
              /\ Lists!ToSet(originsDb) \subseteq Lists!ToSet(rest) \cup {Head(originsDb)}
        BY <1>3, <1>6, <3>1, TailFacts
      <3>3. o \notin Lists!ToSet(rest)
        BY <1>3, <2>2, <3>2, ToSetFacts
      <3>4. originsDb' = Append(rest, o) /\ out = {Head(originsDb)}
        BY <1>5, <2>2, <3>2 DEF Lists!Upserted
      <3>5. /\ Append(rest, o) \in Seq(Origin) /\ Len(Append(rest, o)) = Len(rest) + 1
            /\ Lists!ToSet(Append(rest, o)) = Lists!ToSet(rest) \cup {o} /\ NamedOnce(Append(rest, o))
        BY <3>2, <3>3, AppendFacts
      <3>6. Len(rest) + 1 <= MaxOrigins
        BY <1>6, <3>2
      <3> QED
        BY <3>2, <3>4, <3>5, <3>6
    <2>3. CASE ~Lists!Contains(originsDb, o) /\ ~(Len(originsDb) >= MaxOrigins)
      <3>1. originsDb' = Append(originsDb, o) /\ out = {} /\ o \notin Lists!ToSet(originsDb)
        BY <1>3, <1>5, <2>3, ToSetFacts DEF Lists!Upserted
      <3>2. /\ Append(originsDb, o) \in Seq(Origin) /\ Len(Append(originsDb, o)) = Len(originsDb) + 1
            /\ Lists!ToSet(Append(originsDb, o)) = Lists!ToSet(originsDb) \cup {o} /\ NamedOnce(Append(originsDb, o))
        BY <1>3, <1>6, <3>1, AppendFacts
      <3>3. Len(originsDb) + 1 <= MaxOrigins
        BY <1>6, <2>3
      <3> QED
        BY <3>1, <3>2, <3>3
    <2> QED
      BY <2>1, <2>2, <2>3
  <1>8. o \notin removed \/ o \in racedOrigins
    BY <1>1, <1>2 DEF ListsInv, OriginInv, CaptureClears, Lists!InHand
  <1>9. \A q \in Lists!Call : Lists!At(q, "remove", "half") /\ listReq[q].origin = o => o \in racedOrigins
    BY <1>1, <1>2 DEF ListsInv, OriginInv, OverlapsAreRaces, Lists!InHand, Lists!At
  <1>10. OriginInv'
    <2>1. OriginTypes' /\ NamedOnce(originsDb)'
      BY <1>1, <1>5, <1>7 DEF ListsInv, OriginInv, OriginTypes, Lists!Call
    <2>2. Lists!OriginsKept'
      BY <1>5, <1>6, <1>7 DEF Lists!OriginsKept
    <2>3. Lists!RemovedStaysOut' /\ RemovedFromBoth'
      BY <1>1, <1>7, <1>8 DEF ListsInv, OriginInv, Lists!RemovedStaysOut, RemovedFromBoth
    <2>4. ReadUnderLock'
      BY <1>1, <1>3, <1>4 DEF ReadUnderLock, Others, OfOrigins
    <2>5. CaptureClears' /\ OverlapsAreRaces'
      BY <1>1, <1>4 DEF ListsInv, OriginInv, CaptureClears, OverlapsAreRaces, Others, Lists!InHand
    <2>6. HalfRemoved'
      <3> SUFFICES ASSUME NEW q \in Lists!Call, Lists!At(q, "remove", "half")'
                   PROVE  listReq'[q].origin \notin Lists!ToSet(originsDb') \/ listReq'[q].origin \in racedOrigins
        BY <1>1 DEF HalfRemoved
      <3>1. Lists!At(q, "remove", "half") /\ listReq'[q] = listReq[q]
        BY <1>4 DEF Lists!At, Others
      <3> QED
        BY <1>7, <1>9, <3>1 DEF ListsInv, OriginInv, HalfRemoved
    <2> QED
      BY <2>1, <2>2, <2>3, <2>4, <2>5, <2>6 DEF OriginInv
  <1> QED
    BY <1>1, <1>4, <1>10, OriginStep DEF OfOrigins

LEMMA DbRemoveKeeps ==
    ASSUME ListsInv, NEW r \in Lists!Call, Lists!DbRemove(r)
    PROVE  ListsInv'
  <1>1. /\ listReq[r].kind = "remove" /\ listReq[r].step = "tx" /\ Lists!Step(r, "half") /\ lock' = 0
        /\ UNCHANGED <<previewRows, targets, health, round, leaked, unloaded>> /\ UNCHANGED <<portsDb, ports, unsaved>>
        /\ UNCHANGED <<origins, racedOrigins, removed>>
    BY DEF Lists!DbRemove, Lists!At, Lists!NoReq, Lists!previewVars, Lists!portVars
  <1>2. PICK o \in Origin : o = listReq[r].origin
    BY <1>1, TxAlone DEF OfOrigins
  <1>3. /\ listReq[r].seen = originsDb /\ originsDb \in Seq(Origin)
        /\ \A q \in Lists!Call : listReq[q].kind \in OfOrigins /\ listReq[q].step = "tx" => q = r
    BY <1>1, TxAlone DEF OfOrigins
  <1>4. /\ ListReqs' /\ Others(r) /\ listReq'[r].step = "half" /\ listReq'[r].kind = "remove"
        /\ listReq'[r].origin = o
    BY <1>1, <1>2, ListReqSteps DEF ListsInv
  <1>5. originsDb' = Lists!Without(originsDb, o) /\ due' = due \ {o}
    BY <1>2, <1>3 DEF Lists!DbRemove
  <1>6. /\ originsDb' \in Seq(Origin) /\ Len(originsDb') <= Len(originsDb) /\ NamedOnce(originsDb')
        /\ Lists!ToSet(originsDb') \subseteq Lists!ToSet(originsDb) /\ o \notin Lists!ToSet(originsDb')
        /\ Lists!ToSet(originsDb) \subseteq Lists!ToSet(originsDb') \cup {o}
    BY <1>3, <1>5, WithoutFacts DEF ListsInv, OriginInv
  <1>7. OriginInv'
    <2>1. OriginTypes' /\ NamedOnce(originsDb)'
      <3>1. Len(originsDb') <= MaxOrigins
        BY <1>3, <1>6, NewListReq DEF ListsInv, OriginInv, OriginTypes
      <3> QED
        BY <1>1, <1>5, <1>6, <3>1 DEF ListsInv, OriginInv, OriginTypes, Lists!Call
    <2>2. Lists!OriginsKept'
      BY <1>5, <1>6 DEF ListsInv, OriginInv, Lists!OriginsKept
    <2>3. Lists!RemovedStaysOut' /\ RemovedFromBoth'
      BY <1>1, <1>6 DEF ListsInv, OriginInv, Lists!RemovedStaysOut, RemovedFromBoth
    <2>4. ReadUnderLock'
      BY <1>1, <1>3, <1>4 DEF ReadUnderLock, Others, OfOrigins
    <2>5. CaptureClears'
      BY <1>1, <1>4 DEF ListsInv, OriginInv, CaptureClears, Others, Lists!InHand
    <2>6. OverlapsAreRaces'
      <3>1. \A q \in Lists!Call : /\ listReq'[q].kind = listReq[q].kind /\ (Lists!InHand(q)' => Lists!InHand(q))
                                  /\ listReq'[q].origin = listReq[q].origin
        BY <1>1, <1>2, <1>4 DEF Others, Lists!InHand
      <3> QED
        BY <1>1, <3>1 DEF ListsInv, OriginInv, OverlapsAreRaces
    <2>7. HalfRemoved'
      <3> SUFFICES ASSUME NEW q \in Lists!Call, Lists!At(q, "remove", "half")'
                   PROVE  listReq'[q].origin \notin Lists!ToSet(originsDb') \/ listReq'[q].origin \in racedOrigins
        BY <1>1 DEF HalfRemoved
      <3>1. CASE q = r
        BY <1>4, <1>6, <3>1
      <3>2. CASE q # r
        BY <1>4, <1>6, <3>2 DEF ListsInv, OriginInv, HalfRemoved, Lists!At, Others
      <3> QED
        BY <3>1, <3>2
    <2> QED
      BY <2>1, <2>2, <2>3, <2>4, <2>5, <2>6, <2>7 DEF OriginInv
  <1> QED
    BY <1>1, <1>4, <1>7, OriginStep DEF OfOrigins

LEMMA TxFailsKeeps ==
    ASSUME ListsInv, NEW r \in Lists!Call, Lists!TxFails(r)
    PROVE  ListsInv'
  <1>1. /\ listReq[r].kind \in OfOrigins /\ listReq[r].step \in {"begun", "tx"}
        /\ lock' = IF lock = r THEN 0 ELSE lock
        /\ \/ Lists!Step(r, "done") /\ listReq[r].kind = "capture" /\ racedOrigins' = racedOrigins
           \/ Lists!Step(r, "half") /\ racedOrigins' = racedOrigins \cup {listReq[r].origin}
        /\ UNCHANGED <<previewRows, targets, health, round, leaked, unloaded>> /\ UNCHANGED <<portsDb, ports, unsaved>>
        /\ UNCHANGED <<originsDb, origins, due, removed>>
    BY DEF Lists!TxFails, Lists!At, Lists!NoReq, Lists!previewVars, Lists!portVars, OfOrigins
  <1>2. PICK s \in {"done", "half"} :
          /\ Lists!Step(r, s) /\ (s = "half" => listReq[r].origin \in racedOrigins')
          /\ racedOrigins' \subseteq racedOrigins \cup {listReq[r].origin} /\ racedOrigins \subseteq racedOrigins'
    BY <1>1
  <1>3. /\ ListReqs' /\ Others(r) /\ listReq'[r].step = s /\ listReq'[r].kind = listReq[r].kind
        /\ listReq'[r].origin = listReq[r].origin
    BY <1>2, ListReqSteps DEF ListsInv
  <1>4. /\ listReq[r].origin \in Origin
        /\ \A q \in Lists!Call : listReq[q].kind \in OfOrigins /\ listReq[q].step = "tx" =>
             lock = q /\ listReq[q].seen = originsDb
    BY <1>1 DEF ListsInv, ListReqs, OriginInv, ReadUnderLock, OfOrigins
  <1>5. OriginInv'
    <2>1. OriginTypes' /\ Lists!OriginsKept' /\ Lists!RemovedStaysOut' /\ NamedOnce(originsDb)' /\ RemovedFromBoth'
      BY <1>1, <1>2, <1>4 DEF ListsInv, OriginInv, OriginTypes, Lists!OriginsKept, Lists!RemovedStaysOut, NamedOnce,
         RemovedFromBoth, Lists!ToSet, Lists!Call
    <2>2. ReadUnderLock'
      BY <1>1, <1>3, <1>4 DEF ReadUnderLock, Others, OfOrigins
    <2>3. \A q \in Lists!Call : /\ listReq'[q].kind = listReq[q].kind /\ (Lists!InHand(q)' => Lists!InHand(q))
                                /\ listReq'[q].origin = listReq[q].origin
      BY <1>1, <1>3 DEF Others, Lists!InHand
    <2>4. CaptureClears' /\ OverlapsAreRaces'
      BY <1>1, <1>2, <2>3 DEF ListsInv, OriginInv, CaptureClears, OverlapsAreRaces
    <2>5. HalfRemoved'
      <3> SUFFICES ASSUME NEW q \in Lists!Call, Lists!At(q, "remove", "half")'
                   PROVE  listReq'[q].origin \notin Lists!ToSet(originsDb) \/ listReq'[q].origin \in racedOrigins'
        BY <1>1 DEF HalfRemoved, Lists!ToSet
      <3>1. CASE q = r
        BY <1>2, <1>3, <3>1 DEF Lists!At
      <3>2. CASE q # r
        BY <1>2, <1>3, <3>2 DEF ListsInv, OriginInv, HalfRemoved, Lists!At, Others
      <3> QED
        BY <3>1, <3>2
    <2> QED
      BY <2>1, <2>2, <2>4, <2>5 DEF OriginInv
  <1> QED
    BY <1>1, <1>3, <1>5, OriginStep DEF OfOrigins

LEMMA ForgetKeeps ==
    ASSUME ListsInv, NEW r \in Lists!Call, Lists!Forget(r)
    PROVE  ListsInv'
  <1>1. /\ listReq[r].kind = "remove" /\ listReq[r].step = "half" /\ Lists!Step(r, "done")
        /\ UNCHANGED <<previewRows, targets, health, round, leaked, unloaded>> /\ UNCHANGED <<portsDb, ports, unsaved>>
        /\ UNCHANGED <<originsDb, lock, due, racedOrigins>>
    BY DEF Lists!Forget, Lists!At, Lists!previewVars, Lists!portVars
  <1>2. PICK o \in Origin : /\ o = listReq[r].origin /\ origins' = origins \ {o} /\ removed' = removed \cup {o}
    BY <1>1 DEF ListsInv, ListReqs, Lists!Forget
  <1>3. /\ ListReqs' /\ Others(r) /\ listReq'[r].step = "done" /\ listReq'[r].kind = "remove"
    BY <1>1, ListReqSteps DEF ListsInv
  <1>4. o \notin Lists!ToSet(originsDb) \/ o \in racedOrigins
    BY <1>1, <1>2 DEF ListsInv, OriginInv, HalfRemoved, Lists!At
  <1>5. \A q \in Lists!Call : listReq[q].kind = "capture" /\ Lists!InHand(q) /\ listReq[q].origin = o => o \in racedOrigins
    BY <1>1, <1>2 DEF ListsInv, OriginInv, OverlapsAreRaces, Lists!InHand
  <1>6. OriginInv'
    <2>1. OriginTypes' /\ Lists!OriginsKept' /\ Lists!RemovedStaysOut' /\ NamedOnce(originsDb)' /\ RemovedFromBoth'
      BY <1>1, <1>2, <1>4 DEF ListsInv, OriginInv, OriginTypes, Lists!OriginsKept, Lists!RemovedStaysOut, NamedOnce,
         RemovedFromBoth, Lists!ToSet, Lists!Call
    <2>2. ReadUnderLock'
      BY <1>1, <1>3 DEF ListsInv, OriginInv, ReadUnderLock, Others
    <2>3. CaptureClears'
      BY <1>1, <1>2, <1>3, <1>5 DEF ListsInv, OriginInv, CaptureClears, Others, Lists!InHand
    <2>4. OverlapsAreRaces' /\ HalfRemoved'
      BY <1>1, <1>3 DEF ListsInv, OriginInv, OverlapsAreRaces, HalfRemoved, Others, Lists!InHand, Lists!At, Lists!ToSet
    <2> QED
      BY <2>1, <2>2, <2>3, <2>4 DEF OriginInv
  <1> QED
    BY <1>1, <1>3, <1>6, OriginStep DEF OfOrigins

LEMMA RestartKeeps ==
    ASSUME ListsInv, Lists!Restart
    PROVE  ListsInv'
  <1>1. /\ targets' \subseteq previewRows /\ unloaded' = previewRows \ targets' /\ health' = {} /\ round' = {}
        /\ \/ ports' = portsDb /\ unsaved' = FALSE
           \/ ports' = {} /\ unsaved' = (ports' # portsDb)
        /\ origins' \subseteq EnvOrigin \cup Lists!ToSet(originsDb) /\ lock' = 0
        /\ UNCHANGED <<previewRows, leaked, portsDb, originsDb, due, removed>>
        /\ racedOrigins' = racedOrigins
              \cup {listReq[r].origin : r \in {q \in Lists!Call : Lists!InHand(q) /\ listReq[q].kind = "remove"}}
    BY DEF Lists!Restart, Lists!NoReq
  <1>2. racedOrigins \subseteq racedOrigins' /\ racedOrigins' \subseteq Origin
    BY <1>1 DEF ListsInv, ListReqs, OriginInv, OriginTypes
  <1>3. listReq' = [r \in Lists!Call |->
                     IF Lists!InHand(r) THEN [listReq[r] EXCEPT !.step = "done"] ELSE listReq[r]]
    BY DEF Lists!Restart
  <1>4. ASSUME NEW r \in Lists!Call
        PROVE  /\ listReq'[r] \in ListReq /\ listReq'[r].step \in {"new", "done"}
               /\ listReq'[r].step = "new" => listReq[r].step = "new"
               /\ listReq[r].step = "done" => listReq'[r].step = "done"
               /\ Lists!InHand(r) => listReq'[r].step = "done"
               /\ listReq'[r].kind = listReq[r].kind /\ listReq'[r].of = listReq[r].of
               /\ listReq'[r].origin = listReq[r].origin
    BY <1>3 DEF ListsInv, ListReqs, ListReq, Lists!InHand
  <1>5. ListReqs'
    <2>1. Lists!Call' = Lists!Call /\ listReq' \in [Lists!Call -> ListReq]
      BY <1>3, <1>4 DEF Lists!Call
    <2> QED
      BY <1>4, <2>1 DEF ListsInv, ListReqs
  <1>6. PreviewInv'
    <2>1. \A r \in Lists!Call : Lists!At(r, "create", "done") => Lists!At(r, "create", "done")'
      BY <1>4 DEF Lists!At
    <2>2. RowsMade' /\ TargetsMade' /\ NeverLoaded'
      <3>1. ASSUME NEW q \in previewRows PROVE Lists!At(q, "create", "done")'
        <4>1. q \in Lists!Call /\ listReq[q].kind = "create" /\ listReq[q].step \in {"stored", "done"}
          BY DEF ListsInv, PreviewInv, PreviewTypes, RowsMade
        <4> QED
          BY <1>4, <4>1 DEF Lists!At, Lists!InHand
      <3> QED
        BY <1>1, <3>1 DEF RowsMade, TargetsMade, NeverLoaded, Lists!At
    <2>3. PreviewTypes' /\ RowsFirst' /\ TargetsLast' /\ JudgedOrGone'
      BY <1>1 DEF ListsInv, PreviewInv, PreviewTypes, RowsFirst, TargetsLast, JudgedOrGone, Lists!Call
    <2>4. StoredHasRow' /\ DeletedRowGone'
      BY <1>4 DEF StoredHasRow, DeletedRowGone, Lists!At, Lists!Call
    <2>5. DeletesMade'
      BY <1>4, <2>1 DEF ListsInv, PreviewInv, DeletesMade, Lists!Call
    <2> QED
      BY <2>2, <2>3, <2>4, <2>5 DEF PreviewInv
  <1>7. OriginInv'
    <2>1. Lists!ToSet(originsDb) \subseteq Origin /\ EnvOrigin \subseteq Origin
      BY ToSetFacts, NewListReq DEF ListsInv, OriginInv, OriginTypes
    <2>2. OriginTypes' /\ Lists!OriginsKept' /\ NamedOnce(originsDb)'
      BY <1>1, <1>2, <2>1 DEF ListsInv, OriginInv, OriginTypes, Lists!OriginsKept, NamedOnce, Lists!ToSet, Lists!Call
    <2>3. Lists!RemovedStaysOut' /\ RemovedFromBoth'
      BY <1>1, <1>2 DEF ListsInv, OriginInv, Lists!RemovedStaysOut, RemovedFromBoth, Lists!ToSet
    <2>4. ReadUnderLock' /\ CaptureClears' /\ OverlapsAreRaces' /\ HalfRemoved'
      BY <1>4 DEF ReadUnderLock, CaptureClears, OverlapsAreRaces, HalfRemoved, Lists!InHand, Lists!At, Lists!Call
    <2> QED
      BY <2>2, <2>3, <2>4 DEF OriginInv
  <1>8. PortInv'
    BY <1>1 DEF ListsInv, PortInv
  <1> QED
    BY <1>5, <1>6, <1>7, <1>8 DEF ListsInv

-----------------------------------------------------------------------------
LEMMA ListsBegin == Lists!Init => ListsInv
  <1> SUFFICES ASSUME Lists!Init PROVE ListsInv
    OBVIOUS
  <1>1. /\ previewRows = {} /\ targets = {} /\ health = {} /\ round = {} /\ leaked = {} /\ unloaded = {}
        /\ portsDb = {} /\ ports = {} /\ unsaved = FALSE
        /\ originsDb = <<>> /\ origins = EnvOrigin /\ lock = 0
        /\ due = {} /\ racedOrigins = {} /\ removed = {} /\ listReq = [r \in Lists!Call |-> Lists!New]
    BY DEF Lists!Init, Lists!NoReq
  <1>2. ListReqs
    BY <1>1, NewListReq DEF ListReqs
  <1>3. \A r \in Lists!Call : listReq[r].kind = "none" /\ listReq[r].step = "new"
    BY <1>1, NewListReq
  <1>4. PreviewInv
    BY <1>1, <1>3 DEF PreviewInv, PreviewTypes, RowsMade, TargetsMade, RowsFirst, NeverLoaded, StoredHasRow, TargetsLast,
       JudgedOrGone, DeletesMade, DeletedRowGone, Lists!At
  <1>5. OriginTypes /\ NamedOnce(originsDb)
    <2>1. originsDb \in Seq(Origin) /\ Len(originsDb) = 0 /\ 0 <= MaxOrigins
      BY <1>1, NewListReq
    <2> QED
      BY <1>1, <2>1, NewListReq DEF OriginTypes, NamedOnce
  <1>6. OriginInv
    BY <1>1, <1>3, <1>5 DEF OriginInv, ReadUnderLock, Lists!OriginsKept, Lists!RemovedStaysOut, RemovedFromBoth,
       CaptureClears, OverlapsAreRaces, HalfRemoved, Lists!At
  <1> QED
    BY <1>1, <1>2, <1>4, <1>6 DEF ListsInv, PortInv

LEMMA ListsNext ==
    ASSUME ListsInv, Lists!Next
    PROVE  ListsInv'
  <1>1. CASE Lists!Restart \/ Lists!RoundBegins \/ \E r \in Lists!Call : Lists!Judge(r)
    BY <1>1, RestartKeeps, HealthLoopKeeps
  <1>2. ASSUME NEW r \in Lists!Call,
               \/ Lists!CreateBegins(r) \/ Lists!InsertPreview(r) \/ Lists!InsertTarget(r) \/ Lists!DeleteBegins(r)
               \/ Lists!DeletePreview(r) \/ Lists!RemoveTarget(r) \/ Lists!RemoveHealth(r) \/ Lists!SetAllowed(r)
        PROVE  ListsInv'
    BY <1>2, CreateBeginsKeeps, InsertPreviewKeeps, InsertTargetKeeps, DeleteBeginsKeeps, DeletePreviewKeeps,
       RemoveTargetKeeps, RemoveHealthKeeps, SetAllowedKeeps
  <1>3. ASSUME NEW r \in Lists!Call,
               \/ Lists!Capture(r) \/ Lists!RemoveBegins(r) \/ Lists!BeginTx(r) \/ Lists!Upsert(r)
               \/ Lists!DbRemove(r) \/ Lists!TxFails(r) \/ Lists!Forget(r)
        PROVE  ListsInv'
    BY <1>3, CaptureKeeps, RemoveBeginsKeeps, BeginTxKeeps, UpsertKeeps, DbRemoveKeeps, TxFailsKeeps, ForgetKeeps
  <1> QED
    BY <1>1, <1>2, <1>3 DEF Lists!Next

LEMMA ListsStutter ==
    ASSUME ListsInv, UNCHANGED listsAll
    PROVE  ListsInv'
  <1>1. UNCHANGED <<previewRows, targets, health, round, leaked, unloaded>> /\ UNCHANGED <<portsDb, ports, unsaved>>
        /\ UNCHANGED <<originsDb, origins, lock, due, racedOrigins, removed>> /\ UNCHANGED listReq
    BY DEF listsAll
  <1>2. Unchanged(OfPreviews) /\ Unchanged(OfOrigins)
    BY <1>1 DEF Unchanged
  <1>3. PreviewInv' /\ OriginInv'
    BY <1>1, <1>2, PreviewsStay, OriginsStay DEF ListsInv
  <1> QED
    BY <1>1, <1>3 DEF ListsInv, PortInv, ListReqs, Lists!Call

LEMMA ListsPromises ==
    ASSUME ListsInv
    PROVE  Lists!TypeOK /\ Lists!ListsInStep /\ Lists!OriginsKept /\ Lists!RemovedStaysOut
  <1>1. Lists!TypeOK
    <2>1. \A r \in Lists!Call : /\ listReq[r].kind \in {"none"} \cup Lists!Kind
                                /\ listReq[r].step \in {"new", "begun", "stored", "half", "tx", "done"}
      BY DEF ListsInv, ListReqs, ListReq
    <2> QED
      BY <2>1 DEF ListsInv, PreviewInv, PreviewTypes, PortInv, OriginInv, OriginTypes, Lists!TypeOK, Lists!NoReq
  <1>2. Lists!ListsInStep
    <2>1. ASSUME \A r \in Lists!Call : listReq[r].kind \in {"create", "delete"} => ~Lists!InHand(r)
          PROVE  targets = previewRows \ unloaded /\ health \subseteq targets \cup leaked
      <3>1. \A q, s : s \in {"stored", "half"} => ~Deleting(q, s)
        BY <2>1 DEF Deleting, Lists!At, Lists!InHand
      <3>2. previewRows \ unloaded \subseteq targets /\ targets \cap unloaded = {}
        BY <2>1 DEF ListsInv, PreviewInv, PreviewTypes, RowsFirst, NeverLoaded, Lists!At, Lists!InHand
      <3>3. targets \subseteq previewRows /\ health \subseteq targets \cup leaked
        BY <3>1 DEF ListsInv, PreviewInv, TargetsLast, JudgedOrGone
      <3> QED
        BY <3>2, <3>3
    <2> QED
      BY <2>1 DEF ListsInv, PortInv, Lists!ListsInStep
  <1> QED
    BY <1>1, <1>2 DEF ListsInv, OriginInv

-----------------------------------------------------------------------------
(* The dashboard's tunnel.  Once a URL is announced it is the last one on   *)
(* its way to the dashboard, or the one shown, or it was overwritten; and   *)
(* while the tunnel serves the last of its events on their way is that it   *)
(* is ready, or none is and ready is shown, or was overwritten.             *)
TunEvent == [type : {"step", "url", "probe_ok", "probe_failed", "down", "other"},
             step : 0..7, url : 0..MaxLaunch]
TunState == [rows : [Tui!Rows -> {"pending", "active", "done"}], url : 0..MaxLaunch, down : BOOLEAN]
TunView == [url : 0..MaxLaunch, step : TunEvent, down : BOOLEAN]

NamesUrl(s) == \E i \in 1..Len(s) : s[i].type = "url"
LastNames(s, u) == \E i \in 1..Len(s) :
  s[i].type = "url" /\ s[i].url = u /\ \A j \in (i + 1)..Len(s) : s[j].type # "url"

OnlyChatter(s) == \A i \in 1..Len(s) : s[i].type = "other"
LastTells(s, e) == \E i \in 1..Len(s) :
  s[i] = e /\ \A j \in (i + 1)..Len(s) : s[j].type = "other"

TunTypes ==
  /\ Tui!TypeOK /\ evs \in Seq(TunEvent) /\ tunSnap \in TunView /\ tunSnap.step.type = "step"
  /\ tun.phase # "idle" => tun.url > 0
Announced ==
  tun.phase \in {"up", "rotated"} =>
    /\ tunSnap.url = tun.url
    /\ open => \/ ~NamesUrl(evs) /\ ("url" \in missed \/ shown.url = tun.url)
               \/ LastNames(evs, tun.url)
ReadyComes ==
  open /\ Tui!Serving =>
    \/ OnlyChatter(evs) /\ ("ready" \in missed \/ shown.down \/ shown.rows[5] = "done")
    \/ LastTells(evs, tunSnap.step)
TuiInv == TunTypes /\ Announced /\ ReadyComes

LEMMA TunNumbers ==
    /\ MaxLaunch \in Nat \ {0} /\ MaxProbes \in Nat /\ 0 \in 0..MaxLaunch
    /\ Tui!Preparing = 1 /\ Tui!Connecting = 2 /\ Tui!Tunneling = 3 /\ Tui!Verifying = 4 /\ Tui!Ready = 5
    /\ Tui!Failed = 6 /\ Tui!Degraded = 7 /\ Tui!NoStep = 0 /\ Tui!Rows = 1..5
  BY TuiAssumption DEF Tui!DashboardAssumption, Tui!Preparing, Tui!Connecting, Tui!Tunneling, Tui!Verifying,
     Tui!Ready, Tui!Failed, Tui!Degraded, Tui!NoStep, Tui!Rows

LEMMA TunEvents ==
    /\ \A n \in 0..7 : \A u \in 0..MaxLaunch :
         /\ Tui!StepWithUrl(n, u) \in TunEvent /\ Tui!StepWithUrl(n, u).type = "step"
         /\ Tui!StepWithUrl(n, u).step = n /\ Tui!StepWithUrl(n, u).url = u
    /\ \A n \in 0..7 : /\ Tui!StepEv(n) \in TunEvent /\ Tui!StepEv(n).type = "step" /\ Tui!StepEv(n).step = n
    /\ \A u \in 0..MaxLaunch : /\ Tui!UrlEv(u) \in TunEvent /\ Tui!UrlEv(u).type = "url" /\ Tui!UrlEv(u).url = u
    /\ \A b \in BOOLEAN : Tui!ProbeEv(b) \in TunEvent /\ Tui!ProbeEv(b).type \in {"probe_ok", "probe_failed"}
    /\ Tui!DownEv \in TunEvent /\ Tui!DownEv.type = "down"
    /\ Tui!OtherEv \in TunEvent /\ Tui!OtherEv.type = "other"
  BY TunNumbers DEF TunEvent, Tui!StepWithUrl, Tui!StepEv, Tui!UrlEv, Tui!ProbeEv, Tui!DownEv,
     Tui!OtherEv

-----------------------------------------------------------------------------
\* Events on their way.
LEMMA EventSent ==
    ASSUME NEW s \in Seq(TunEvent), NEW e \in TunEvent
    PROVE  /\ Append(s, e) \in Seq(TunEvent) /\ LastTells(Append(s, e), e)
           /\ e.type = "other" /\ OnlyChatter(s) => OnlyChatter(Append(s, e))
           /\ \A x : e.type = "other" /\ LastTells(s, x) => LastTells(Append(s, e), x)
           /\ e.type # "url" /\ ~NamesUrl(s) => ~NamesUrl(Append(s, e))
           /\ \A u : e.type # "url" /\ LastNames(s, u) => LastNames(Append(s, e), u)
           /\ e.type = "url" => LastNames(Append(s, e), e.url)
  <1> DEFINE out == Append(s, e)
  <1>1. /\ out \in Seq(TunEvent) /\ Len(out) = Len(s) + 1 /\ Len(s) \in Nat
        /\ out[Len(s) + 1] = e /\ \A i \in 1..Len(s) : out[i] = s[i]
    OBVIOUS
  <1> HIDE DEF out
  <1>2. out[Len(out)] = e /\ LastTells(out, e)
    <2>1. Len(out) \in 1..Len(out) /\ \A j \in (Len(out) + 1)..Len(out) : FALSE
      BY <1>1
    <2> QED
      BY <1>1, <2>1 DEF LastTells
  <1>3. \A i \in 1..Len(out) : i \in 1..Len(s) \/ i = Len(s) + 1
    BY <1>1
  <1>7. e.type = "other" /\ OnlyChatter(s) => OnlyChatter(out)
    BY <1>1, <1>3 DEF OnlyChatter
  <1>8. ASSUME NEW x, e.type = "other", LastTells(s, x) PROVE LastTells(out, x)
    <2>1. PICK i \in 1..Len(s) : s[i] = x /\ \A j \in (i + 1)..Len(s) : s[j].type = "other"
      BY <1>8 DEF LastTells
    <2>2. ASSUME NEW j \in (i + 1)..Len(out) PROVE out[j].type = "other"
      <3>1. j \in (i + 1)..Len(s) \/ j = Len(s) + 1
        BY <1>1
      <3> QED
        BY <1>1, <1>8, <2>1, <3>1
    <2>3. i \in 1..Len(out) /\ out[i] = s[i]
      BY <1>1
    <2> QED
      BY <2>1, <2>2, <2>3 DEF LastTells
  <1>4. e.type # "url" /\ ~NamesUrl(s) => ~NamesUrl(out)
    BY <1>1, <1>3 DEF NamesUrl
  <1>5. ASSUME NEW u, e.type # "url", LastNames(s, u) PROVE LastNames(out, u)
    <2>1. PICK i \in 1..Len(s) : s[i].type = "url" /\ s[i].url = u /\ \A j \in (i + 1)..Len(s) : s[j].type # "url"
      BY <1>5 DEF LastNames
    <2>2. ASSUME NEW j \in (i + 1)..Len(out) PROVE out[j].type # "url"
      <3>1. j \in (i + 1)..Len(s) \/ j = Len(s) + 1
        BY <1>1
      <3> QED
        BY <1>1, <1>5, <2>1, <3>1
    <2>3. i \in 1..Len(out) /\ out[i] = s[i]
      BY <1>1
    <2> QED
      BY <2>1, <2>2, <2>3 DEF LastNames
  <1>6. ASSUME e.type = "url" PROVE LastNames(out, e.url)
    <2>1. Len(out) \in 1..Len(out) /\ \A j \in (Len(out) + 1)..Len(out) : FALSE
      BY <1>1
    <2> QED
      BY <1>2, <1>6, <2>1 DEF LastNames
  <1> QED
    BY <1>1, <1>2, <1>4, <1>5, <1>6, <1>7, <1>8 DEF out

LEMMA EventTaken ==
    ASSUME NEW s \in Seq(TunEvent), s # <<>>
    PROVE  /\ Head(s) \in TunEvent /\ Tail(s) \in Seq(TunEvent)
           /\ OnlyChatter(s) => Head(s).type = "other" /\ OnlyChatter(Tail(s))
           /\ \A x : LastTells(s, x) =>
                LastTells(Tail(s), x) \/ (Head(s) = x /\ OnlyChatter(Tail(s)))
           /\ ~NamesUrl(s) => Head(s).type # "url" /\ ~NamesUrl(Tail(s))
           /\ \A u : LastNames(s, u) =>
                LastNames(Tail(s), u) \/ (Head(s).type = "url" /\ Head(s).url = u /\ ~NamesUrl(Tail(s)))
  <1> DEFINE out == Tail(s)
  <1>1. /\ out \in Seq(TunEvent) /\ Len(out) = Len(s) - 1 /\ Len(s) \in Nat /\ Len(s) > 0
        /\ \A i \in 1..(Len(s) - 1) : out[i] = s[i + 1]
        /\ s[1] = Head(s) /\ s[1] \in TunEvent
    OBVIOUS
  <1> HIDE DEF out
  <1>2. OnlyChatter(s) => Head(s).type = "other" /\ OnlyChatter(out)
    <2>1. 1 \in 1..Len(s) /\ \A i \in 1..Len(out) : i + 1 \in 1..Len(s) /\ out[i] = s[i + 1]
      BY <1>1
    <2> QED
      BY <1>1, <2>1 DEF OnlyChatter
  <1>3. ASSUME NEW x, LastTells(s, x)
        PROVE  LastTells(out, x) \/ (Head(s) = x /\ OnlyChatter(out))
    <2>1. PICK i \in 1..Len(s) : s[i] = x /\ \A j \in (i + 1)..Len(s) : s[j].type = "other"
      BY <1>3 DEF LastTells
    <2>2. \A j \in 1..Len(out) : j >= i => out[j].type = "other"
      <3> SUFFICES ASSUME NEW j \in 1..Len(out), j >= i PROVE out[j].type = "other"
        OBVIOUS
      <3>1. j + 1 \in (i + 1)..Len(s) /\ out[j] = s[j + 1]
        BY <1>1
      <3> QED
        BY <2>1, <3>1
    <2>3. CASE i = 1
      BY <1>1, <2>1, <2>2, <2>3 DEF OnlyChatter
    <2>4. CASE i > 1
      <3>1. i - 1 \in 1..Len(out) /\ out[i - 1] = s[i]
        BY <1>1, <2>4
      <3>2. \A j \in ((i - 1) + 1)..Len(out) : j \in 1..Len(out) /\ j >= i
        BY <1>1
      <3> QED
        BY <2>1, <2>2, <3>1, <3>2 DEF LastTells
    <2> QED
      BY <2>3, <2>4
  <1>4. ~NamesUrl(s) => Head(s).type # "url" /\ ~NamesUrl(out)
    <2>1. 1 \in 1..Len(s) /\ \A i \in 1..Len(out) : i + 1 \in 1..Len(s) /\ out[i] = s[i + 1]
      BY <1>1
    <2> QED
      BY <1>1, <2>1 DEF NamesUrl
  <1>5. ASSUME NEW u, LastNames(s, u)
        PROVE  LastNames(out, u) \/ (Head(s).type = "url" /\ Head(s).url = u /\ ~NamesUrl(out))
    <2>1. PICK i \in 1..Len(s) : s[i].type = "url" /\ s[i].url = u /\ \A j \in (i + 1)..Len(s) : s[j].type # "url"
      BY <1>5 DEF LastNames
    <2>2. \A j \in 1..Len(out) : j >= i => out[j].type # "url"
      <3> SUFFICES ASSUME NEW j \in 1..Len(out), j >= i PROVE out[j].type # "url"
        OBVIOUS
      <3>1. j + 1 \in (i + 1)..Len(s) /\ out[j] = s[j + 1]
        BY <1>1
      <3> QED
        BY <2>1, <3>1
    <2>3. CASE i = 1
      BY <1>1, <2>1, <2>2, <2>3 DEF NamesUrl
    <2>4. CASE i > 1
      <3>1. i - 1 \in 1..Len(out) /\ out[i - 1] = s[i]
        BY <1>1, <2>4
      <3>2. \A j \in ((i - 1) + 1)..Len(out) : j \in 1..Len(out) /\ j >= i
        BY <1>1
      <3> QED
        BY <2>1, <2>2, <3>1, <3>2 DEF LastNames
    <2> QED
      BY <2>3, <2>4
  <1> QED
    BY <1>1, <1>2, <1>3, <1>4, <1>5 DEF out

\* What an event makes of the dashboard.
LEMMA Cascades ==
    ASSUME NEW s \in TunState, NEW n \in 0..7
    PROVE  /\ Tui!CascadeDone(s, n) \in TunState /\ Tui!CascadeDone(s, n).url = s.url
           /\ Tui!CascadeDone(s, n).down = s.down
           /\ \A i \in Tui!Rows : i <= n => Tui!CascadeDone(s, n).rows[i] = "done"
  <1> DEFINE cells == [i \in Tui!Rows |-> IF i <= n THEN "done" ELSE s.rows[i]]
  <1>1. cells \in [Tui!Rows -> {"pending", "active", "done"}]
    BY DEF TunState
  <1>2. Tui!CascadeDone(s, n) = [s EXCEPT !.rows = cells]
    BY DEF Tui!CascadeDone
  <1>3. \A i \in Tui!Rows : i <= n => cells[i] = "done"
    OBVIOUS
  <1> HIDE DEF cells
  <1> QED
    BY <1>1, <1>2, <1>3 DEF TunState

LEMMA StepApplied ==
    ASSUME NEW s \in TunState, NEW e \in TunEvent
    PROVE  /\ Tui!ApplyStep(s, e) \in TunState /\ Tui!ApplyStep(s, e).down = s.down
           /\ s.url # 0 => Tui!ApplyStep(s, e).url = s.url
           /\ e.step = 5 => Tui!ApplyStep(s, e).rows[5] = "done"
  <1> DEFINE named == IF s.url = 0 THEN [s EXCEPT !.url = e.url] ELSE s
             cells == [i \in Tui!Rows |->
                       CASE i < e.step -> "done"
                         [] i = e.step -> IF i = Tui!Ready THEN "done" ELSE "active"
                         [] i > e.step -> "pending"]
  <1>1. named \in TunState /\ named.down = s.down /\ (s.url # 0 => named.url = s.url)
    BY DEF TunState, TunEvent
  <1>2. cells \in [Tui!Rows -> {"pending", "active", "done"}] /\ (e.step = 5 => cells[5] = "done")
    <2>1. e.step \in Int /\ \A i \in Tui!Rows : i \in Int
      BY TunNumbers DEF TunEvent
    <2> QED
      BY <2>1, TunNumbers
  <1>3. Tui!ApplyStep(s, e) = IF e.step \in {Tui!Failed, Tui!Degraded} THEN named
                              ELSE [named EXCEPT !.rows = cells]
    BY DEF Tui!ApplyStep
  <1> HIDE DEF named, cells
  <1> QED
    BY <1>1, <1>2, <1>3, TunNumbers DEF TunState

WithRow(c, i, x) == [c EXCEPT !.rows[i] = x]
WithUrl(c, u) == [c EXCEPT !.url = u]
WithDown(c) == [c EXCEPT !.down = TRUE]

LEMMA CellsSet ==
    ASSUME NEW c \in TunState
    PROVE  /\ \A i \in Tui!Rows : \A x \in {"pending", "active", "done"} :
                /\ WithRow(c, i, x) \in TunState
                /\ WithRow(c, i, x).url = c.url /\ WithRow(c, i, x).down = c.down
           /\ \A u \in 0..MaxLaunch : WithUrl(c, u) \in TunState /\ WithUrl(c, u).url = u
           /\ WithDown(c) \in TunState /\ WithDown(c).url = c.url /\ WithDown(c).down
  <1>1. /\ c = [rows |-> c.rows, url |-> c.url, down |-> c.down]
        /\ c.rows \in [Tui!Rows -> {"pending", "active", "done"}] /\ c.url \in 0..MaxLaunch /\ c.down \in BOOLEAN
    BY DEF TunState
  <1>2. ASSUME NEW i \in Tui!Rows, NEW x \in {"pending", "active", "done"}
        PROVE  /\ WithRow(c, i, x) \in TunState
               /\ WithRow(c, i, x).url = c.url /\ WithRow(c, i, x).down = c.down
    <2> DEFINE cells == [c.rows EXCEPT ![i] = x]
    <2>1. cells \in [Tui!Rows -> {"pending", "active", "done"}]
      BY <1>1
    <2>2. WithRow(c, i, x) = [c EXCEPT !.rows = cells]
      BY DEF WithRow
    <2> HIDE DEF cells
    <2>3. WithRow(c, i, x) = [rows |-> cells, url |-> c.url, down |-> c.down]
      BY <1>1, <2>2
    <2> QED
      BY <1>1, <2>1, <2>3 DEF TunState
  <1>3. ASSUME NEW u \in 0..MaxLaunch
        PROVE  WithUrl(c, u) \in TunState /\ WithUrl(c, u).url = u
    BY <1>1 DEF TunState, WithUrl
  <1>4. WithDown(c) \in TunState /\ WithDown(c).url = c.url /\ WithDown(c).down
    BY <1>1 DEF TunState, WithDown
  <1> QED
    BY <1>2, <1>3, <1>4

LEMMA OthersApplied ==
    ASSUME NEW s \in TunState, NEW e \in TunEvent
    PROVE  /\ Tui!ApplyUrl(s, e) \in TunState /\ Tui!ApplyUrl(s, e).url = e.url
           /\ \A b \in BOOLEAN : Tui!ApplyProbe(s, b) \in TunState /\ Tui!ApplyProbe(s, b).url = s.url
           /\ Tui!ApplyDown(s) \in TunState /\ Tui!ApplyDown(s).url = s.url /\ Tui!ApplyDown(s).down
  <1>1. {3, 4, 5} \subseteq Tui!Rows /\ 3 \in 0..7 /\ 5 \in 0..7 /\ e.url \in 0..MaxLaunch
    BY TunNumbers DEF TunEvent
  <1> DEFINE c == Tui!CascadeDone(s, 3)
  <1>3. c \in TunState /\ c.url = s.url
    BY <1>1, Cascades
  <1>4. Tui!ApplyUrl(s, e) \in TunState /\ Tui!ApplyUrl(s, e).url = e.url
    <2>1. Tui!ApplyUrl(s, e) = [c EXCEPT !.url = e.url, !.rows[4] = "active"]
      BY TunNumbers DEF Tui!ApplyUrl
    <2> HIDE DEF c
    <2> DEFINE d == WithUrl(c, e.url)
    <2>2. d \in TunState /\ d.url = e.url
      BY <1>1, <1>3, CellsSet
    <2>3. Tui!ApplyUrl(s, e) = WithRow(d, 4, "active")
      BY <2>1, <1>3 DEF TunState, WithUrl, WithRow
    <2> HIDE DEF d
    <2>4. WithRow(d, 4, "active") \in TunState /\ WithRow(d, 4, "active").url = d.url
      BY <1>1, <2>2, CellsSet
    <2> QED
      BY <2>2, <2>3, <2>4
  <1>5. ASSUME NEW b \in BOOLEAN PROVE Tui!ApplyProbe(s, b) \in TunState /\ Tui!ApplyProbe(s, b).url = s.url
    <2>1. CASE b
      BY <1>1, <2>1, Cascades, TunNumbers DEF Tui!ApplyProbe
    <2>2. CASE ~b
      <3>1. Tui!ApplyProbe(s, b) = WithRow(c, 4, "active")
        BY <2>2, TunNumbers DEF Tui!ApplyProbe, WithRow
      <3> HIDE DEF c
      <3>2. WithRow(c, 4, "active") \in TunState /\ WithRow(c, 4, "active").url = c.url
        BY <1>1, <1>3, CellsSet
      <3> QED
        BY <1>3, <3>1, <3>2
    <2> QED
      BY <2>1, <2>2
  <1>6. Tui!ApplyDown(s) \in TunState /\ Tui!ApplyDown(s).url = s.url /\ Tui!ApplyDown(s).down
    <2> DEFINE d == WithDown(s)
               f == WithRow(d, 3, "active")
               g == WithRow(f, 4, "pending")
    <2>1. Tui!ApplyDown(s) = WithRow(g, 5, "pending")
      BY TunNumbers DEF Tui!ApplyDown, TunState, WithDown, WithRow
    <2>2. d \in TunState /\ d.url = s.url /\ d.down
      BY CellsSet
    <2> HIDE DEF d
    <2>3. f \in TunState /\ f.url = s.url /\ f.down
      BY <1>1, <2>2, CellsSet
    <2> HIDE DEF f
    <2>4. g \in TunState /\ g.url = s.url /\ g.down
      BY <1>1, <2>3, CellsSet
    <2> HIDE DEF g
    <2>5. /\ WithRow(g, 5, "pending") \in TunState /\ WithRow(g, 5, "pending").url = g.url
          /\ WithRow(g, 5, "pending").down = g.down
      BY <1>1, <2>4, CellsSet
    <2> QED
      BY <2>1, <2>4, <2>5
  <1> QED
    BY <1>4, <1>5, <1>6

LEMMA Applied ==
    ASSUME NEW s \in TunState, NEW e \in TunEvent
    PROVE  /\ Tui!Apply(s, e) \in TunState
           /\ e.type = "url" => Tui!Apply(s, e).url = e.url
           /\ e.type # "url" /\ s.url # 0 => Tui!Apply(s, e).url = s.url
           /\ e.type = "step" /\ e.step = 5 => Tui!Apply(s, e).rows[5] = "done"
           /\ e.type = "other" => Tui!Apply(s, e) = s
  <1>1. e.type \in {"step", "url", "probe_ok", "probe_failed", "down", "other"}
    BY DEF TunEvent
  <1>2. CASE e.type = "step"
    BY <1>2, StepApplied DEF Tui!Apply
  <1>3. CASE e.type = "url"
    BY <1>3, OthersApplied DEF Tui!Apply
  <1>4. CASE e.type = "probe_ok"
    BY <1>4, OthersApplied DEF Tui!Apply
  <1>5. CASE e.type = "probe_failed"
    BY <1>5, OthersApplied DEF Tui!Apply
  <1>6. CASE e.type = "down"
    BY <1>6, OthersApplied DEF Tui!Apply
  <1>7. CASE e.type = "other"
    BY <1>7 DEF Tui!Apply
  <1> QED
    BY <1>1, <1>2, <1>3, <1>4, <1>5, <1>6, <1>7

LEMMA FreshTyped == Tui!Fresh \in TunState /\ Tui!Fresh.url = 0 /\ ~Tui!Fresh.down
  BY TunNumbers DEF Tui!Fresh, TunState

\* What a late operator sees: the URL of the snapshot, and its last step.
LEMMA Hydrates ==
    ASSUME NEW snap \in TunView, snap.step.type = "step"
    PROVE  /\ Tui!Hydrated(snap) \in TunState
           /\ snap.url # 0 => Tui!Hydrated(snap).url = snap.url
           /\ snap.step.step = 5 /\ ~Tui!Hydrated(snap).down => Tui!Hydrated(snap).rows[5] = "done"
  <1>1. snap.url \in 0..MaxLaunch /\ snap.step \in TunEvent /\ snap.down \in BOOLEAN /\ 3 \in 0..7 /\ 0 \in 0..7
    BY DEF TunView
  <1> DEFINE d == WithUrl(Tui!Fresh, snap.url)
             s1 == IF snap.url = 0 THEN Tui!Fresh ELSE Tui!CascadeDone(d, Tui!Tunneling)
             s2 == IF snap.step = Tui!StepEv(Tui!NoStep) THEN s1 ELSE Tui!ApplyStep(s1, snap.step)
  <1>2. Tui!Hydrated(snap) = IF snap.down THEN Tui!ApplyDown(s2) ELSE s2
    BY DEF Tui!Hydrated, WithUrl
  <1>3. d \in TunState /\ d.url = snap.url
    BY <1>1, FreshTyped, CellsSet
  <1> HIDE DEF d
  <1>4. s1 \in TunState /\ (snap.url # 0 => s1.url = snap.url)
    BY <1>1, <1>3, FreshTyped, Cascades, TunNumbers
  <1> HIDE DEF s1
  <1>5. Tui!StepEv(Tui!NoStep).step = 0
    BY <1>1, TunNumbers, TunEvents
  <1>6. s2 \in TunState /\ (snap.url # 0 => s2.url = snap.url) /\ (snap.step.step = 5 => s2.rows[5] = "done")
    <2>1. snap.step.step = 5 => snap.step # Tui!StepEv(Tui!NoStep)
      BY <1>5
    <2> QED
      BY <1>1, <1>4, <2>1, StepApplied
  <1> HIDE DEF s2
  <1> QED
    BY <1>1, <1>2, <1>6, OthersApplied

TunnelTyped(t, p) ==
  /\ t \in [phase : {"idle", "preparing", "connecting", "issued", "tunneling", "up", "rotated"},
            url : 0..MaxLaunch, dead : BOOLEAN]
  /\ p \in [url : 0..MaxLaunch, probes : 0..MaxProbes, at : {"idle", "probing", "verdict"}, todo : Seq(1..MaxLaunch)]
  /\ t.phase # "idle" => t.url > 0
Up == {"up", "rotated"}

LEMMA TunFields ==
    ASSUME TuiInv
    PROVE  /\ TunnelTyped(tun, prober) /\ tun.url \in 0..MaxLaunch /\ prober.url \in 0..MaxLaunch
           /\ tun.dead \in BOOLEAN /\ prober.probes \in 0..MaxProbes /\ prober.todo \in Seq(1..MaxLaunch)
           /\ tun.phase # "idle" => tun.url \in 1..MaxLaunch
           /\ tun.phase \in {"idle", "preparing", "connecting", "issued", "tunneling", "up", "rotated"}
           /\ prober.at \in {"idle", "probing", "verdict"} /\ open \in BOOLEAN /\ shown \in TunState
           /\ tunSnap \in TunView /\ tunSnap.step.type = "step" /\ evs \in Seq(TunEvent)
           /\ missed \subseteq {"url", "ready"} /\ (~open => evs = <<>>)
  BY TunNumbers DEF TuiInv, TunTypes, Tui!TypeOK, TunnelTyped, TunState

\* EventBus::send: what the snapshot and the receiver hold afterwards.
LEMMA Sent ==
    ASSUME TuiInv, NEW e \in TunEvent, Tui!Send(e)
    PROVE  /\ tunSnap' \in TunView /\ tunSnap'.step.type = "step"
           /\ e.type = "step" => tunSnap'.step = e
           /\ e.type = "other" => tunSnap' = tunSnap
           /\ tunSnap'.url = IF e.type = "url" THEN e.url ELSE tunSnap.url
           /\ evs' \in Seq(TunEvent) /\ (~open => evs' = <<>>)
           /\ missed \subseteq missed' /\ missed' \subseteq {"url", "ready"}
           /\ open => LastTells(evs', e)
           /\ open /\ e.type # "url" /\ ~NamesUrl(evs) => ~NamesUrl(evs')
           /\ \A u : open /\ e.type # "url" /\ LastNames(evs, u) =>
                LastNames(evs', u) \/ (~NamesUrl(evs') /\ "url" \in missed')
           /\ open /\ e.type = "url" => LastNames(evs', e.url)
           /\ open /\ e.type = "other" /\ OnlyChatter(evs) => OnlyChatter(evs')
           /\ \A x : open /\ e.type = "other" /\ LastTells(evs, x) /\ x.type = "step" /\ x.step = 5 =>
                LastTells(evs', x) \/ (OnlyChatter(evs') /\ "ready" \in missed')
  <1>1. /\ tunSnap \in TunView /\ tunSnap.step.type = "step" /\ evs \in Seq(TunEvent) /\ (~open => evs = <<>>)
        /\ missed \subseteq {"url", "ready"} /\ MaxBacklog \in Nat \ {0}
    BY TuiAssumption DEF TuiInv, TunTypes, Tui!TypeOK, Tui!DashboardAssumption
  <1> DEFINE lags == Len(evs) >= MaxBacklog
             stays == IF lags THEN Tail(evs) ELSE evs
             tells == Tui!Told(Head(evs))
  <1>2. /\ tunSnap' = Tui!Mirrored(tunSnap, e) /\ evs' = IF ~open THEN evs ELSE Append(stays, e)
        /\ missed' = IF open /\ lags THEN missed \cup tells ELSE missed
    BY DEF Tui!Send
  <1>3. e.type \in {"step", "url", "probe_ok", "probe_failed", "down", "other"} /\ e.url \in 0..MaxLaunch
    BY DEF TunEvent
  <1>4. /\ Tui!Mirrored(tunSnap, e) \in TunView /\ Tui!Mirrored(tunSnap, e).step.type = "step"
        /\ e.type = "step" => Tui!Mirrored(tunSnap, e).step = e
        /\ e.type = "other" => Tui!Mirrored(tunSnap, e) = tunSnap
        /\ Tui!Mirrored(tunSnap, e).url = IF e.type = "url" THEN e.url ELSE tunSnap.url
    BY <1>1, <1>3 DEF Tui!Mirrored, TunView
  <1>5. lags => evs # <<>>
    BY <1>1
  <1>6. tells \subseteq {"url", "ready"} /\ (Head(evs).type = "url" => "url" \in tells)
        /\ (Head(evs).type = "step" /\ Head(evs).step = 5 => "ready" \in tells)
    BY TunNumbers DEF Tui!Told
  <1> HIDE DEF tells, lags
  <1>7. /\ stays \in Seq(TunEvent)
        /\ ~NamesUrl(evs) => ~NamesUrl(stays)
        /\ OnlyChatter(evs) => OnlyChatter(stays)
        /\ \A u : LastNames(evs, u) => LastNames(stays, u) \/ (lags /\ Head(evs).type = "url" /\ ~NamesUrl(stays))
        /\ \A x : LastTells(evs, x) => LastTells(stays, x) \/ (lags /\ Head(evs) = x /\ OnlyChatter(stays))
    <2>1. CASE lags
      BY <1>1, <1>5, <2>1, EventTaken
    <2>2. CASE ~lags
      BY <1>1, <2>2
    <2> QED
      BY <2>1, <2>2
  <1> HIDE DEF stays
  <1>8. /\ Append(stays, e) \in Seq(TunEvent) /\ LastTells(Append(stays, e), e)
        /\ e.type # "url" /\ ~NamesUrl(stays) => ~NamesUrl(Append(stays, e))
        /\ \A u : e.type # "url" /\ LastNames(stays, u) => LastNames(Append(stays, e), u)
        /\ e.type = "url" => LastNames(Append(stays, e), e.url)
        /\ e.type = "other" /\ OnlyChatter(stays) => OnlyChatter(Append(stays, e))
        /\ \A x : e.type = "other" /\ LastTells(stays, x) => LastTells(Append(stays, e), x)
    BY <1>7, EventSent
  <1>9. /\ missed \subseteq missed' /\ missed' \subseteq {"url", "ready"}
        /\ open /\ lags /\ Head(evs).type = "url" => "url" \in missed'
        /\ open /\ lags /\ Head(evs).type = "step" /\ Head(evs).step = 5 => "ready" \in missed'
    BY <1>1, <1>2, <1>6
  <1>10. /\ evs' \in Seq(TunEvent) /\ (~open => evs' = <<>>) /\ (open => evs' = Append(stays, e))
    BY <1>1, <1>2, <1>8
  <1>11. ASSUME NEW u, open, e.type # "url", LastNames(evs, u)
         PROVE  LastNames(evs', u) \/ (~NamesUrl(evs') /\ "url" \in missed')
    BY <1>7, <1>8, <1>9, <1>10, <1>11
  <1>12. ASSUME NEW x, open, e.type = "other", LastTells(evs, x), x.type = "step", x.step = 5
         PROVE  LastTells(evs', x) \/ (OnlyChatter(evs') /\ "ready" \in missed')
    BY <1>7, <1>8, <1>9, <1>10, <1>12
  <1> QED
    BY <1>2, <1>4, <1>7, <1>8, <1>9, <1>10, <1>11, <1>12

\* A step that sends: the tunnel keeps its URL, or the event names the new
\* one; and a tunnel that serves has just said so, or did before.
LEMMA SendKeeps ==
    ASSUME TuiInv, NEW e \in TunEvent, Tui!Send(e), UNCHANGED <<open, shown>>, TunnelTyped(tun', prober'),
           Tui!Serving' => e.type = "step" \/ (e.type = "other" /\ Tui!Serving),
           \/ e.type # "url" /\ (tun'.phase \in Up => tun.phase \in Up /\ tun'.url = tun.url)
           \/ e.type = "url" /\ e.url = tun'.url
    PROVE  TuiInv'
  <1>1. TunTypes'
    BY Sent DEF TuiInv, TunTypes, Tui!TypeOK, TunnelTyped
  <1>2. Announced'
    <2> SUFFICES ASSUME tun'.phase \in Up
                 PROVE  /\ tunSnap'.url = tun'.url
                        /\ open => \/ ~NamesUrl(evs') /\ ("url" \in missed' \/ shown.url = tun'.url)
                                   \/ LastNames(evs', tun'.url)
      BY DEF Announced, NamesUrl, LastNames, Up
    <2>1. CASE e.type = "url" /\ e.url = tun'.url
      BY <2>1, Sent
    <2>2. CASE e.type # "url" /\ tun.phase \in Up /\ tun'.url = tun.url
      <3>1. /\ tunSnap.url = tun.url
            /\ open => \/ ~NamesUrl(evs) /\ ("url" \in missed \/ shown.url = tun.url)
                       \/ LastNames(evs, tun.url)
        BY <2>2 DEF TuiInv, Announced, Up
      <3> QED
        BY <2>2, <3>1, Sent
    <2> QED
      BY <2>1, <2>2
  <1>3. ReadyComes'
    <2> SUFFICES ASSUME open, Tui!Serving'
                 PROVE  \/ OnlyChatter(evs') /\ ("ready" \in missed' \/ shown.down \/ shown.rows[5] = "done")
                        \/ LastTells(evs', tunSnap'.step)
      BY DEF ReadyComes, OnlyChatter, LastTells
    <2>1. CASE e.type = "step"
      BY <2>1, Sent
    <2>2. CASE e.type = "other" /\ Tui!Serving
      <3>1. tunSnap' = tunSnap /\ tunSnap.step.type = "step" /\ tunSnap.step.step = 5
        BY <2>2, Sent, TunFields, TunNumbers, TunEvents DEF Tui!Serving
      <3>2. \/ OnlyChatter(evs) /\ ("ready" \in missed \/ shown.down \/ shown.rows[5] = "done")
            \/ LastTells(evs, tunSnap.step)
        BY <2>2 DEF TuiInv, ReadyComes
      <3> QED
        BY <2>2, <3>1, <3>2, Sent
    <2> QED
      BY <2>1, <2>2
  <1> QED
    BY <1>1, <1>2, <1>3 DEF TuiInv

LEMMA LaunchingKeeps == ASSUME TuiInv, Tui!Launching \/ Tui!Tunnels \/ Tui!LaunchFails \/ Tui!Rotated PROVE TuiInv'
  <1>1. /\ UNCHANGED <<prober, open, shown>>
        /\ \/ /\ tun.phase = "idle" /\ tun.url < MaxLaunch /\ Tui!Send(Tui!StepEv(Tui!Preparing))
              /\ tun' = [phase |-> "preparing", url |-> tun.url + 1, dead |-> FALSE]
           \/ /\ tun.phase = "preparing" /\ tun' = [tun EXCEPT !.phase = "connecting"]
              /\ Tui!Send(Tui!StepEv(Tui!Connecting))
           \/ /\ tun.phase = "connecting" /\ tun' = [tun EXCEPT !.phase = "issued"]
              /\ Tui!Send(Tui!StepWithUrl(Tui!Connecting, tun.url))
           \/ /\ tun.phase = "issued" /\ tun' = [tun EXCEPT !.phase = "tunneling"]
              /\ Tui!Send(Tui!StepWithUrl(Tui!Tunneling, tun.url))
           \/ /\ tun.phase \in {"connecting", "issued"} /\ tun' = [tun EXCEPT !.phase = "idle"]
              /\ Tui!Send(Tui!StepEv(Tui!Failed))
           \/ /\ tun.phase = "rotated" /\ tun' = [tun EXCEPT !.phase = "up"]
              /\ Tui!Send(Tui!StepWithUrl(Tui!Tunneling, tun.url))
    BY DEF Tui!Launching, Tui!Tunnels, Tui!LaunchFails, Tui!Rotated
  <1>2. PICK e \in TunEvent : e.type = "step" /\ Tui!Send(e)
    <2>1. {1, 2, 3, 6} \subseteq 0..7
      OBVIOUS
    <2> QED
      BY <1>1, <2>1, TunFields, TunNumbers, TunEvents
  <1>3. TunnelTyped(tun', prober') /\ (tun'.phase \in Up => tun.phase \in Up /\ tun'.url = tun.url)
    <2>1. CASE tun' = [phase |-> "preparing", url |-> tun.url + 1, dead |-> FALSE] /\ tun.url < MaxLaunch
      <3>1. tun.url + 1 \in 0..MaxLaunch /\ tun.url + 1 > 0
        BY <2>1, TunFields, TunNumbers
      <3> QED
        BY <1>1, <2>1, <3>1, TunFields DEF TunnelTyped, Up
    <2>2. ASSUME NEW ph \in {"connecting", "issued", "tunneling", "idle", "up"}, tun' = [tun EXCEPT !.phase = ph],
                 tun.phase # "idle", ph = "up" => tun.phase = "rotated"
          PROVE  TunnelTyped(tun', prober') /\ (tun'.phase \in Up => tun.phase \in Up /\ tun'.url = tun.url)
      <3>1. prober' = prober
        BY <1>1
      <3> QED
        BY <2>2, <3>1, TunFields DEF TunnelTyped, Up
    <2> QED
      BY <1>1, <2>1, <2>2
  <1> QED
    BY <1>1, <1>2, <1>3, SendKeeps

LEMMA NamingKeeps == ASSUME TuiInv, Tui!Announce \/ Tui!Rotate PROVE TuiInv'
  <1>1. PICK u \in 1..MaxLaunch :
          /\ UNCHANGED <<open, shown>> /\ Tui!Send(Tui!UrlEv(u))
          /\ prober' = [prober EXCEPT !.todo = Append(prober.todo, u)]
          /\ \/ tun.phase = "tunneling" /\ tun' = [tun EXCEPT !.phase = "up"] /\ u = tun.url
             \/ tun.phase = "up" /\ tun' = [tun EXCEPT !.phase = "rotated", !.url = u]
    <2>1. CASE Tui!Announce
      BY <2>1, TunFields DEF Tui!Announce
    <2>2. CASE Tui!Rotate
      <3>1. tun.url + 1 \in 1..MaxLaunch
        <4>1. tun.url < MaxLaunch /\ tun.url \in 0..MaxLaunch
          BY <2>2, TunFields DEF Tui!Rotate
        <4> QED
          BY <4>1, TunNumbers
      <3>2. tun' = [tun EXCEPT !.phase = "rotated", !.url = tun.url + 1]
        BY <2>2 DEF Tui!Rotate
      <3> QED
        BY <2>2, <3>1, <3>2 DEF Tui!Rotate
    <2> QED
      BY <2>1, <2>2
  <1>2. u \in 0..MaxLaunch /\ u > 0
    BY TunNumbers
  <1>3. Append(prober.todo, u) \in Seq(1..MaxLaunch) /\ Append(prober.todo, u) # <<>>
    <2>1. prober.todo \in Seq(1..MaxLaunch)
      BY TunFields
    <2> QED
      BY <2>1
  <1>4. TunnelTyped(tun', prober') /\ tun'.url = u /\ prober'.todo # <<>>
    BY <1>1, <1>2, <1>3, TunFields DEF TunnelTyped
  <1>5. ~Tui!Serving'
    BY <1>4 DEF Tui!Serving
  <1>6. Tui!UrlEv(u) \in TunEvent /\ Tui!UrlEv(u).type = "url" /\ Tui!UrlEv(u).url = u
    BY <1>2, TunEvents
  <1> QED
    BY <1>1, <1>4, <1>5, <1>6, SendKeeps

LEMMA DyingKeeps == ASSUME TuiInv, Tui!Dies \/ Tui!ProbeAgain \/ Tui!ProbeAnswered PROVE TuiInv'
  <1>1. PICK e \in TunEvent : e.type # "url" /\ Tui!Send(e)
    BY TunEvents DEF Tui!Dies, Tui!ProbeAgain, Tui!ProbeAnswered
  <1>2. /\ UNCHANGED <<open, shown>>
        /\ \/ tun' = [tun EXCEPT !.dead = TRUE] /\ prober' = prober
           \/ /\ prober.at = "probing" /\ prober.probes < MaxProbes /\ tun' = tun
              /\ prober' = [prober EXCEPT !.probes = prober.probes + 1]
           \/ prober' = [prober EXCEPT !.at = "verdict"] /\ tun' = tun
    BY DEF Tui!Dies, Tui!ProbeAgain, Tui!ProbeAnswered
  <1>3. /\ TunnelTyped(tun', prober') /\ tun'.phase = tun.phase /\ tun'.url = tun.url
        /\ tun'.dead \/ prober'.at \in {"probing", "verdict"}
    <2>1. CASE tun' = [tun EXCEPT !.dead = TRUE] /\ prober' = prober
      BY <2>1, TunFields DEF TunnelTyped
    <2>2. CASE /\ prober.at = "probing" /\ prober.probes < MaxProbes /\ tun' = tun
               /\ prober' = [prober EXCEPT !.probes = prober.probes + 1]
      <3>1. prober.probes + 1 \in 0..MaxProbes
        BY <2>2, TunFields, TunNumbers
      <3> QED
        BY <2>2, <3>1, TunFields DEF TunnelTyped
    <2>3. CASE prober' = [prober EXCEPT !.at = "verdict"] /\ tun' = tun
      BY <2>3, TunFields DEF TunnelTyped
    <2> QED
      BY <1>2, <2>1, <2>2, <2>3
  <1>4. ~Tui!Serving'
    BY <1>3 DEF Tui!Serving
  <1> QED
    BY <1>1, <1>2, <1>3, <1>4, SendKeeps

LEMMA ProbingKeeps == ASSUME TuiInv, Tui!BeginProbe \/ Tui!ReportReady \/ Tui!ReportDegraded PROVE TuiInv'
  <1>1. PICK e \in TunEvent : e.type = "step" /\ Tui!Send(e)
    <2>1. {4, 5, 7} \subseteq 0..7
      OBVIOUS
    <2> QED
      <3>1. /\ Tui!StepEv(4) \in TunEvent /\ Tui!StepEv(4).type = "step"
            /\ Tui!StepWithUrl(5, prober.url) \in TunEvent /\ Tui!StepWithUrl(5, prober.url).type = "step"
            /\ Tui!StepWithUrl(7, prober.url) \in TunEvent /\ Tui!StepWithUrl(7, prober.url).type = "step"
        BY <2>1, TunFields, TunEvents
      <3>2. Tui!Send(Tui!StepEv(4)) \/ Tui!Send(Tui!StepWithUrl(5, prober.url)) \/ Tui!Send(Tui!StepWithUrl(7, prober.url))
        BY TunNumbers DEF Tui!BeginProbe, Tui!ReportReady, Tui!ReportDegraded
      <3> QED
        BY <3>1, <3>2
  <1>2. /\ UNCHANGED <<tun, open, shown>>
        /\ \/ /\ prober.todo # <<>>
              /\ prober' = [url |-> Head(prober.todo), probes |-> 0, at |-> "probing", todo |-> Tail(prober.todo)]
           \/ prober' = [prober EXCEPT !.url = 0, !.probes = 0, !.at = "idle"]
    BY DEF Tui!BeginProbe, Tui!ReportReady, Tui!ReportDegraded
  <1>3. prober.todo # <<>> => Head(prober.todo) \in 1..MaxLaunch /\ Tail(prober.todo) \in Seq(1..MaxLaunch)
    <2>1. \A s \in Seq(1..MaxLaunch) : s # <<>> => Head(s) \in 1..MaxLaunch /\ Tail(s) \in Seq(1..MaxLaunch)
      <3> DEFINE S == 1..MaxLaunch
      <3> HIDE DEF S
      <3>1. \A s \in Seq(S) : s # <<>> => Head(s) \in S /\ Tail(s) \in Seq(S)
        OBVIOUS
      <3> QED
        BY <3>1 DEF S
    <2> QED
      BY <2>1, TunFields
  <1>4. 0 \in 0..MaxProbes /\ 1..MaxLaunch \subseteq 0..MaxLaunch
    BY TunNumbers
  <1>5. TunnelTyped(tun', prober')
    <2>1. CASE /\ prober.todo # <<>>
               /\ prober' = [url |-> Head(prober.todo), probes |-> 0, at |-> "probing", todo |-> Tail(prober.todo)]
      BY <1>2, <1>3, <1>4, <2>1, TunFields DEF TunnelTyped
    <2>2. CASE prober' = [prober EXCEPT !.url = 0, !.probes = 0, !.at = "idle"]
      BY <1>2, <1>4, <2>2, TunFields, TunNumbers DEF TunnelTyped
    <2> QED
      BY <1>2, <2>1, <2>2
  <1> QED
    BY <1>1, <1>2, <1>5, SendKeeps

LEMMA ChatterKeeps == ASSUME TuiInv, Tui!Chatter PROVE TuiInv'
  <1>1. Tui!OtherEv \in TunEvent /\ Tui!OtherEv.type = "other" /\ Tui!Send(Tui!OtherEv)
        /\ UNCHANGED <<tun, prober, open, shown>>
    BY TunEvents DEF Tui!Chatter
  <1>2. TunnelTyped(tun', prober')
    BY <1>1, TunFields
  <1>3. Tui!Serving' => Tui!Serving
    BY <1>1, Sent DEF Tui!Serving
  <1> QED
    BY <1>1, <1>2, <1>3, SendKeeps

LEMMA RespawnKeeps == ASSUME TuiInv, Tui!Respawn PROVE TuiInv'
  <1>1. tun' = [tun EXCEPT !.phase = "idle"] /\ UNCHANGED <<prober, tunSnap, evs, open, shown, missed>>
    BY DEF Tui!Respawn
  <1>2. TunnelTyped(tun', prober') /\ tun'.phase = "idle"
    BY <1>1, TunFields DEF TunnelTyped
  <1>3. TunTypes'
    BY <1>1, <1>2 DEF TuiInv, TunTypes, Tui!TypeOK, TunnelTyped
  <1>4. Announced' /\ ~Tui!Serving'
    BY <1>2 DEF Announced, Tui!Serving
  <1> QED
    BY <1>3, <1>4 DEF TuiInv, ReadyComes

\* Neither entering, leaving nor draining touches the tunnel.
LEMMA DashboardKeeps ==
    ASSUME TuiInv, UNCHANGED <<tun, prober, tunSnap>>, open' \in BOOLEAN, evs' \in Seq(TunEvent),
           ~open' => evs' = <<>>, shown' \in TunState, missed' \subseteq {"url", "ready"},
           tun.phase \in Up /\ open' =>
             \/ ~NamesUrl(evs') /\ ("url" \in missed' \/ shown'.url = tun.url)
             \/ LastNames(evs', tun.url),
           open' /\ Tui!Serving =>
             \/ OnlyChatter(evs') /\ ("ready" \in missed' \/ shown'.down \/ shown'.rows[5] = "done")
             \/ LastTells(evs', tunSnap.step)
    PROVE  TuiInv'
  <1>1. TunTypes'
    BY DEF TuiInv, TunTypes, Tui!TypeOK, TunState
  <1>2. Announced'
    BY DEF TuiInv, Announced, Up, NamesUrl, LastNames
  <1>3. Tui!Serving' = Tui!Serving
    BY DEF Tui!Serving
  <1>4. ReadyComes'
    BY <1>3 DEF ReadyComes, OnlyChatter, LastTells
  <1> QED
    BY <1>1, <1>2, <1>4 DEF TuiInv

LEMMA NoneNamed == ~NamesUrl(<<>>) /\ OnlyChatter(<<>>) /\ <<>> \in Seq(TunEvent)
  <1>1. Len(<<>>) = 0
    OBVIOUS
  <1> QED
    BY <1>1 DEF NamesUrl, OnlyChatter

\* What Ready leaves in the snapshot.
LEMMA ServingStep ==
    ASSUME TuiInv, Tui!Serving
    PROVE  tunSnap.step.type = "step" /\ tunSnap.step.step = 5
  BY TunFields, TunNumbers, TunEvents DEF Tui!Serving

LEMMA EnterKeeps == ASSUME TuiInv, Tui!Enter PROVE TuiInv'
  <1>1. /\ UNCHANGED <<tun, prober, tunSnap>> /\ open' = TRUE /\ evs' = <<>>
        /\ shown' = Tui!Hydrated(tunSnap) /\ missed' = {}
    BY DEF Tui!Enter
  <1>2. tun.phase \in Up => tunSnap.url = tun.url /\ tunSnap.url # 0
    BY TunFields DEF TuiInv, Announced, Up
  <1>3. /\ shown' \in TunState /\ (tunSnap.url # 0 => shown'.url = tunSnap.url)
        /\ tunSnap.step.step = 5 /\ ~shown'.down => shown'.rows[5] = "done"
    BY <1>1, TunFields, Hydrates
  <1>4. tun.phase \in Up /\ open' => ~NamesUrl(evs') /\ shown'.url = tun.url
    BY <1>1, <1>2, <1>3, NoneNamed
  <1>5. open' /\ Tui!Serving => OnlyChatter(evs') /\ (shown'.down \/ shown'.rows[5] = "done")
    BY <1>1, <1>3, ServingStep, NoneNamed
  <1>6. evs' \in Seq(TunEvent) /\ open' \in BOOLEAN /\ (~open' => evs' = <<>>) /\ missed' \subseteq {"url", "ready"}
    BY <1>1, NoneNamed
  <1> QED
    BY <1>1, <1>3, <1>4, <1>5, <1>6, DashboardKeeps

LEMMA DrainKeeps == ASSUME TuiInv, Tui!Drain PROVE TuiInv'
  <1>1. /\ UNCHANGED <<tun, prober, tunSnap, open>> /\ open /\ evs # <<>>
        /\ shown' = Tui!Apply(shown, Head(evs)) /\ evs' = Tail(evs)
        /\ missed' = missed \ Tui!Told(Head(evs))
    BY DEF Tui!Drain
  <1>2. evs \in Seq(TunEvent) /\ shown \in TunState
    BY TunFields
  <1>3. /\ Head(evs) \in TunEvent /\ evs' \in Seq(TunEvent)
        /\ OnlyChatter(evs) => Head(evs).type = "other" /\ OnlyChatter(evs')
        /\ \A x : LastTells(evs, x) => LastTells(evs', x) \/ (Head(evs) = x /\ OnlyChatter(evs'))
        /\ ~NamesUrl(evs) => Head(evs).type # "url" /\ ~NamesUrl(evs')
        /\ \A u : LastNames(evs, u) =>
             LastNames(evs', u) \/ (Head(evs).type = "url" /\ Head(evs).url = u /\ ~NamesUrl(evs'))
    BY <1>1, <1>2, EventTaken
  <1>4. /\ shown' \in TunState
        /\ Head(evs).type = "url" => shown'.url = Head(evs).url
        /\ Head(evs).type # "url" /\ shown.url # 0 => shown'.url = shown.url
        /\ Head(evs).type = "step" /\ Head(evs).step = 5 => shown'.rows[5] = "done"
        /\ Head(evs).type = "other" => shown' = shown
    BY <1>1, <1>2, <1>3, Applied
  <1>5. /\ Head(evs).type # "url" /\ "url" \in missed => "url" \in missed'
        /\ Head(evs).type = "other" /\ "ready" \in missed => "ready" \in missed'
        /\ missed' \subseteq {"url", "ready"}
    BY <1>1, TunFields DEF Tui!Told
  <1>6. tun.phase \in Up =>
          \/ ~NamesUrl(evs') /\ ("url" \in missed' \/ shown'.url = tun.url)
          \/ LastNames(evs', tun.url)
    <2> SUFFICES ASSUME tun.phase \in Up
                 PROVE  \/ ~NamesUrl(evs') /\ ("url" \in missed' \/ shown'.url = tun.url)
                        \/ LastNames(evs', tun.url)
      OBVIOUS
    <2>1. /\ tun.url # 0
          /\ \/ ~NamesUrl(evs) /\ ("url" \in missed \/ shown.url = tun.url)
             \/ LastNames(evs, tun.url)
      BY <1>1, TunFields DEF TuiInv, Announced, Up
    <2> QED
      BY <1>3, <1>4, <1>5, <2>1
  <1>7. Tui!Serving =>
          \/ OnlyChatter(evs') /\ ("ready" \in missed' \/ shown'.down \/ shown'.rows[5] = "done")
          \/ LastTells(evs', tunSnap.step)
    <2> SUFFICES ASSUME Tui!Serving
                 PROVE  \/ OnlyChatter(evs') /\ ("ready" \in missed' \/ shown'.down \/ shown'.rows[5] = "done")
                        \/ LastTells(evs', tunSnap.step)
      OBVIOUS
    <2>1. /\ \/ OnlyChatter(evs) /\ ("ready" \in missed \/ shown.down \/ shown.rows[5] = "done")
             \/ LastTells(evs, tunSnap.step)
          /\ tunSnap.step.type = "step" /\ tunSnap.step.step = 5
      BY <1>1, ServingStep DEF TuiInv, ReadyComes
    <2> QED
      BY <1>3, <1>4, <1>5, <2>1
  <1>8. open' \in BOOLEAN /\ (~open' => evs' = <<>>)
    BY <1>1, TunFields
  <1> QED
    BY <1>1, <1>3, <1>4, <1>5, <1>6, <1>7, <1>8, DashboardKeeps

LEMMA LeaveKeeps == ASSUME TuiInv, Tui!Leave PROVE TuiInv'
  <1>1. /\ UNCHANGED <<tun, prober, tunSnap>> /\ open' = FALSE /\ evs' = <<>> /\ shown' = Tui!Fresh
        /\ missed' = {}
    BY DEF Tui!Leave
  <1>2. evs' \in Seq(TunEvent) /\ shown' \in TunState /\ open' \in BOOLEAN
    BY <1>1, NoneNamed, FreshTyped
  <1> QED
    BY <1>1, <1>2, DashboardKeeps

LEMMA TuiBegins == Tui!Init => TuiInv
  <1> SUFFICES ASSUME Tui!Init PROVE TuiInv
    OBVIOUS
  <1>1. /\ tun = [phase |-> "idle", url |-> 0, dead |-> FALSE]
        /\ prober = [url |-> 0, probes |-> 0, at |-> "idle", todo |-> <<>>]
        /\ tunSnap = [url |-> 0, step |-> Tui!StepEv(Tui!NoStep), down |-> FALSE]
        /\ evs = <<>> /\ open = FALSE /\ shown = Tui!Fresh /\ missed = {}
    BY DEF Tui!Init
  <1>2. 0 \in 0..MaxProbes /\ 0 \in 0..7 /\ <<>> \in Seq(1..MaxLaunch)
    BY TunNumbers
  <1>3. tunSnap \in TunView /\ tunSnap.step.type = "step"
    BY <1>1, <1>2, TunNumbers, TunEvents DEF TunView
  <1>4. TunTypes
    BY <1>1, <1>2, <1>3, TunNumbers, NoneNamed, FreshTyped DEF TunTypes, Tui!TypeOK, TunState
  <1>5. Announced
    BY <1>1 DEF Announced
  <1>6. ReadyComes
    BY <1>1 DEF ReadyComes
  <1> QED
    BY <1>4, <1>5, <1>6 DEF TuiInv

LEMMA TuiNext == ASSUME TuiInv, Tui!Next PROVE TuiInv'
  BY LaunchingKeeps, NamingKeeps, DyingKeeps, ProbingKeeps, RespawnKeeps, ChatterKeeps, EnterKeeps, DrainKeeps,
     LeaveKeeps DEF Tui!Next

LEMMA TuiStutters == ASSUME TuiInv, UNCHANGED tuiAll PROVE TuiInv'
  <1>1. UNCHANGED <<tun, prober, tunSnap, evs, open, shown, missed>>
    BY DEF tuiAll
  <1> QED
    BY <1>1 DEF TuiInv, TunTypes, Tui!TypeOK, Announced, NamesUrl, LastNames, ReadyComes, OnlyChatter, LastTells,
       Tui!Serving

LEMMA TuiPromises == TuiInv => Tui!TypeOK /\ Tui!ServingIsShown
  <1> SUFFICES ASSUME TuiInv PROVE Tui!TypeOK /\ Tui!ServingIsShown
    OBVIOUS
  <1>1. evs = <<>> => (\A u : ~LastNames(evs, u)) /\ (\A x : ~LastTells(evs, x))
    <2> SUFFICES ASSUME evs = <<>> PROVE (\A u : ~LastNames(evs, u)) /\ (\A x : ~LastTells(evs, x))
      OBVIOUS
    <2>1. Len(evs) = 0
      OBVIOUS
    <2> QED
      BY <2>1 DEF LastNames, LastTells
  <1>2. Tui!Serving => tun.phase \in {"up", "rotated"}
    BY DEF Tui!Serving
  <1>3. Tui!ServingIsShown
    BY <1>1, <1>2, TunNumbers DEF TuiInv, Announced, ReadyComes, Tui!ServingIsShown, Tui!IsReady
  <1> QED
    BY <1>3 DEF TuiInv, TunTypes

-----------------------------------------------------------------------------
ViewsInv ==
  /\ KeptInv /\ StartInv
  /\ part = "lists" => ListsInv
  /\ part = "tui" => TuiInv

LEMMA ViewsStep == ViewsInv /\ AgentSteps => ViewsInv'
  BY PartsApart, KeptStep, StartStep, ListsNext, ListsStutter, TuiNext, TuiStutters DEF ViewsInv

(* ViewsAgree, for any ports, origins and requests and any number of        *)
(* launches and probes: previews, ports and origins are in memory what they *)
(* are in the database, but for requests under way and the failures and     *)
(* races that the code leaves open; an origin that was removed stays out;   *)
(* and a dashboard without events on their way shows a tunnel that serves   *)
(* as ready, with its URL.                                                  *)
THEOREM ViewsStayInStep == AgentSpec => []ViewsAgree
  <1>1. AgentInit => ViewsInv
    BY FilesBegin, BytesAsked, BootBegins, ExeBegins, LoginBegins, ListsBegin, TuiBegins
       DEF AgentInit, ViewsInv, KeptInv, StartInv
  <1>2. ViewsInv => PartTypes
    BY ListsPromises, TuiPromises
       DEF ViewsInv, KeptInv, StartInv, PartTypes, FilesInv, BytesInv, BootInv, ExeInv, LoginInv
  <1>3. ViewsInv => ViewsAgree
    BY <1>2, ListsPromises, TuiPromises DEF ViewsInv, ViewsAgree
  <1> QED
    BY <1>1, <1>3, ViewsStep, PTL DEF AgentSpec, AgentSteps
=============================================================================
