------------------------------- MODULE Startup -------------------------------
(***************************************************************************)
(* The boot of the agent (agent/src/main.rs `server_main`) and what it     *)
(* leaves in the data directory: the cloudflared binary (tunnel.rs), the   *)
(* signing key (auth.rs), the salt of the host identity (host.rs), the     *)
(* Web Push key and the token of the notify command (push.rs), the first   *)
(* workspaces (workspaces.rs).  Every one of them is made by the first boot*)
(* that does not find it, and a boot may be killed, or fail to write, at   *)
(* any step.                                                               *)
(*                                                                         *)
(* A file is known by the boot that wrote it: 0 is a file that is missing. *)
(***************************************************************************)
EXTENDS Integers, Sequences, FiniteSets

CONSTANTS MaxBoot,   \* bound on boots
          MaxTry     \* attempts to find the latest release (3 in the code)

StartupAssumption == MaxBoot \in Nat \ {0} /\ MaxTry \in Nat \ {0}

VARIABLES pc,    \* the step the boot is at, "down" when no agent runs
          writing, \* the secret of this step is being written
          ended, \* the step the last boot failed at, or "killed"
          boot,  \* boots so far
          try,   \* attempts at the release tag
          cf,    \* the cloudflared binary in the data directory
          tmp,   \* the one being staged under data_dir/tmp
          told,  \* the last tunnel step announced by ensure_cloudflared
          file,  \* the four small files
          seeds, \* the workspaces of the host that were seeded
          held,  \* what the boot has loaded
          subs,  \* the tasks that have subscribed to the event bus
          torn,  \* ghost: files whose writing was interrupted, and whether
                 \* that of the root workspace was, or failed
          kept   \* ghost: the identity an agent has served with, or none

startupVars == <<pc, writing, ended, boot, try, cf, tmp, told, file, seeds, held, subs, torn, kept>>

Secret == {"key", "salt", "vapid", "token"}
Missing == [by |-> 0, whole |-> FALSE]
NoBinary == [by |-> 0, whole |-> FALSE, exec |-> FALSE]
\* the tasks main.rs subscribes before the supervisor runs
Early == {"snapshot", "discovery", "url", "notifier"}
Subscriber == Early \cup {"heartbeat", "edge", "prober"}
Unloaded == [s \in Secret |-> Missing]

\* The boot is at one of these, in this order.
Steps == <<"cloudflared", "version", "download", "stage", "fill", "chmod", "move", "clean", "db",
           "key", "salt", "seedHome", "seedRoot", "vapid", "token",
           "subscribe", "bind", "supervise", "watch", "serving">>
Downloading == {"cloudflared", "version", "download", "stage", "fill", "chmod", "move"}
Onward == Steps[1 + CHOOSE i \in 1..Len(Steps) : Steps[i] = pc]

TypeOK ==
  /\ pc \in {"down"} \cup {Steps[i] : i \in 1..Len(Steps)} /\ writing \in BOOLEAN
  /\ ended \in {"none", "killed"} \cup {Steps[i] : i \in 1..Len(Steps)}
  /\ boot \in 0..MaxBoot /\ try \in 1..MaxTry
  /\ {cf, tmp} \subseteq [by : 0..MaxBoot, whole : BOOLEAN, exec : BOOLEAN]
  /\ told \in {"none", "preparing", "failed"}
  /\ {file, held} \subseteq [Secret -> [by : 0..MaxBoot, whole : BOOLEAN]]
  /\ seeds \subseteq {"home", "root"} /\ subs \subseteq Subscriber
  /\ torn \subseteq Secret \cup {"seeds"}
  /\ kept \in {Unloaded} \cup [Secret -> [by : 0..MaxBoot, whole : BOOLEAN]]

Init ==
  /\ pc = "down" /\ writing = FALSE /\ ended = "none" /\ boot = 0 /\ try = 1 /\ cf = NoBinary /\ tmp = NoBinary
  /\ told = "none" /\ file = Unloaded /\ seeds = {} /\ held = Unloaded
  /\ subs = {} /\ torn = {} /\ kept = Unloaded

-----------------------------------------------------------------------------
Run ==
  /\ pc = "down" /\ boot < MaxBoot
  /\ pc' = "cloudflared" /\ boot' = boot + 1 /\ try' = 1
  /\ told' = "preparing" /\ held' = Unloaded /\ subs' = {}
  /\ UNCHANGED <<writing, ended, cf, tmp, file, seeds, torn, kept>>

\* The boot is over, wherever it was: killed, or by an error.
Down(how) ==
  /\ pc' = "down" /\ ended' = how /\ writing' = FALSE /\ subs' = {} /\ held' = Unloaded
  /\ torn' = torn \cup {s \in Secret : pc = s /\ writing} \cup {s \in {"seeds"} : pc = "seedRoot"}
Go(step) == pc' = step /\ UNCHANGED <<writing, ended, held, subs, torn>>
Killed ==
  /\ pc # "down" /\ Down("killed")
  /\ UNCHANGED <<boot, try, cf, tmp, told, file, seeds, kept>>

-----------------------------------------------------------------------------
\* try_ensure_cloudflared: what is in place is used as it is.
Check ==
  /\ pc = "cloudflared" /\ Go(IF cf.by # 0 THEN "db" ELSE "version")
  /\ UNCHANGED <<boot, try, cf, tmp, told, file, seeds, kept>>

\* (faulty variant: the failure is only logged)
FailureIsSilent == Down(pc) /\ UNCHANGED told

\* ensure_cloudflared: a failure is announced before it ends the boot.
DownloadFails == Down(pc) /\ told' = "failed"

\* cloudflared_latest_version: three attempts.
Version ==
  /\ pc = "version"
  /\ \/ Go("download") /\ UNCHANGED <<try, told>>
     \/ try < MaxTry /\ try' = try + 1 /\ Go("version") /\ UNCHANGED told
     \/ try = MaxTry /\ DownloadFails /\ UNCHANGED try
  /\ UNCHANGED <<boot, cf, tmp, file, seeds, kept>>

\* The whole body is read before a byte of it is written.
Download ==
  /\ pc = "download"
  /\ (Go("stage") /\ UNCHANGED told) \/ DownloadFails
  /\ UNCHANGED <<boot, try, cf, tmp, file, seeds, kept>>

Stage ==
  /\ pc = "stage"
  /\ \/ tmp' = [tmp EXCEPT !.by = boot, !.whole = FALSE] /\ Go("fill") /\ UNCHANGED told
     \/ DownloadFails /\ UNCHANGED tmp
  /\ UNCHANGED <<boot, try, cf, file, seeds, kept>>

Fill ==
  /\ pc = "fill"
  /\ \/ tmp' = [tmp EXCEPT !.whole = TRUE] /\ Go("chmod") /\ UNCHANGED told
     \/ DownloadFails /\ UNCHANGED tmp
  /\ UNCHANGED <<boot, try, cf, file, seeds, kept>>

\* (faulty variant: moved into place first, and made executable there)
PlaceThenChmod ==
  /\ \/ pc = "chmod" /\ cf' = tmp /\ tmp' = NoBinary /\ Go("move") /\ UNCHANGED told
     \/ pc = "move" /\ cf' = [cf EXCEPT !.exec = TRUE] /\ Go("clean") /\ UNCHANGED <<tmp, told>>
  /\ UNCHANGED <<boot, try, file, seeds, kept>>

\* Executable first, then into place.
Place ==
  /\ \/ pc = "chmod" /\ tmp' = [tmp EXCEPT !.exec = TRUE] /\ Go("move") /\ UNCHANGED <<cf, told>>
     \/ pc = "move" /\ cf' = tmp /\ tmp' = NoBinary /\ Go("clean") /\ UNCHANGED told
     \/ pc \in {"chmod", "move"} /\ DownloadFails /\ UNCHANGED <<cf, tmp>>
  /\ UNCHANGED <<boot, try, file, seeds, kept>>

Clean ==
  /\ pc = "clean" /\ tmp' = NoBinary /\ Go("db")
  /\ UNCHANGED <<boot, try, cf, told, file, seeds, kept>>

Db ==
  /\ pc = "db" /\ (Go("key") \/ Down(pc))
  /\ UNCHANGED <<boot, try, cf, tmp, told, file, seeds, kept>>

-----------------------------------------------------------------------------
At(s) == pc = s /\ ~writing
Load(s) ==
  /\ pc' = Onward /\ held' = [held EXCEPT ![s] = file[s]]
  /\ UNCHANGED <<writing, ended, file, subs, torn>>
\* The file is created, or emptied, and then written.
Create(s) ==
  /\ file' = [file EXCEPT ![s] = [by |-> boot, whole |-> FALSE]] /\ writing' = TRUE
  /\ UNCHANGED <<pc, ended, held, subs, torn>>
Others == UNCHANGED <<boot, try, cf, tmp, told, seeds, kept>>

\* (faulty variant: a fresh key at every boot)
KeyAlwaysNew == At("key") /\ Create("key") /\ Others

\* load_or_create_key: whatever the file holds is the key.
SigningKey ==
  /\ At("key") /\ Others
  /\ IF file["key"].by # 0 THEN Load("key") ELSE Create("key")

\* load_or_create_salt: a short file is written anew.
Salt == At("salt") /\ Others /\ IF file["salt"].whole THEN Load("salt") ELSE Create("salt")

\* load_or_create_vapid: a file of another length ends the boot.
Vapid ==
  /\ At("vapid") /\ Others
  /\ \/ file["vapid"].by = 0 /\ Create("vapid")
     \/ file["vapid"].whole /\ Load("vapid")
     \/ file["vapid"].by # 0 /\ ~file["vapid"].whole /\ Down(pc) /\ UNCHANGED file

\* load_or_create_notify_token: an empty file is written anew.
NotifyToken == At("token") /\ Others /\ IF file["token"].whole THEN Load("token") ELSE Create("token")

\* The bytes are written, or the write fails and ends the boot.
Written(s) ==
  /\ pc = s /\ writing /\ Others
  /\ \/ /\ file' = [file EXCEPT ![s].whole = TRUE]
        /\ held' = [held EXCEPT ![s] = file'[s]]
        /\ pc' = Onward /\ writing' = FALSE /\ UNCHANGED <<ended, subs, torn>>
     \/ Down(pc) /\ UNCHANGED file

\* seed_defaults, if there is no workspace yet: the home directory, when it is
\* known, and the root.  A failure to count ends the boot, a failure to insert
\* does not.
SeedHome ==
  /\ pc = "seedHome"
  /\ \/ seeds = {} /\ seeds' \in {{}, {"home"}} /\ Go("seedRoot")
     \/ seeds # {} /\ Go("vapid") /\ UNCHANGED seeds
     \/ Down(pc) /\ UNCHANGED seeds
  /\ UNCHANGED <<boot, try, cf, tmp, told, file, kept>>
SeedRoot ==
  /\ pc = "seedRoot"
  /\ \/ seeds' = seeds \cup {"root"} /\ Go("vapid")
     \/ /\ pc' = "vapid" /\ torn' = torn \cup {"seeds"}
        /\ UNCHANGED <<seeds, writing, ended, held, subs>>
  /\ UNCHANGED <<boot, try, cf, tmp, told, file, kept>>

-----------------------------------------------------------------------------
Joins(who) == subs' = subs \cup who /\ pc' = Onward /\ UNCHANGED <<writing, ended, held, torn>>

\* (faulty variant: the discovery client subscribes with the tasks after the supervisor)
SubscribeMost ==
  /\ pc = "subscribe" /\ Joins(Early \ {"discovery"})
  /\ UNCHANGED <<boot, try, cf, tmp, told, file, seeds, kept>>

\* The tasks that mirror events subscribe while nothing is sent yet.
Subscribe ==
  /\ pc = "subscribe" /\ Joins(Early)
  /\ UNCHANGED <<boot, try, cf, tmp, told, file, seeds, kept>>

\* The listener, or the end of the boot.
Bind ==
  /\ pc = "bind" /\ (Go("supervise") \/ Down(pc))
  /\ UNCHANGED <<boot, try, cf, tmp, told, file, seeds, kept>>

\* The pairing code; from here the supervisor runs, and may announce a URL.
Supervise ==
  /\ pc = "supervise" /\ Go("watch") /\ kept' = held
  /\ UNCHANGED <<boot, try, cf, tmp, told, file, seeds>>

\* The heartbeat, the edge monitor and the prober subscribe.
Watch ==
  /\ pc = "watch" /\ Joins(Subscriber)
  /\ UNCHANGED <<boot, try, cf, tmp, told, file, seeds, kept>>

Next ==
  \/ Run \/ Killed
  \/ Check \/ Version \/ Download \/ Stage \/ Fill \/ Place \/ Clean
  \/ Db \/ SigningKey \/ Salt \/ Vapid \/ NotifyToken \/ \E s \in Secret : Written(s)
  \/ SeedHome \/ SeedRoot \/ Subscribe \/ Bind \/ Supervise \/ Watch

-----------------------------------------------------------------------------
(* What a boot finds in the data directory can be run: the binary is never  *)
(* there in part or without its execute bit, wherever an earlier boot was   *)
(* killed (tunnel.rs:161, the check that skips the download).               *)
BinaryRuns == cf.by # 0 => cf.whole /\ cf.exec

(* A boot that ends in ensure_cloudflared on its own has said so            *)
(* (tunnel.rs:74: without it the dashboard stays on "Preparing").           *)
FailureIsTold == pc = "down" /\ ended \in Downloading => told = "failed"

(* The identity the agent has served with is the identity of every later    *)
(* boot: sessions, the host id, the subscriptions to pushes and the token   *)
(* outlive any restart.                                                     *)
IdentityIsKept ==
  pc \in {"supervise", "watch", "serving"} =>
    \A s \in Secret : /\ kept[s].by # 0 => held[s] = kept[s]
                      /\ held[s].whole \/ s \in torn

(* No interrupted boot stops the next one at its secrets, but for one that  *)
(* was cut while it wrote the push key (push.rs:50): nothing mends that.    *)
SecretsRarelyBlock == pc = "down" /\ ended = "vapid" => "vapid" \in torn

(* When the supervisor runs, everyone who must not miss the first URL has   *)
(* subscribed (main.rs:897: the bus has no replay).                         *)
FirstUrlIsHeard == pc \in {"watch", "serving"} => Early \subseteq subs

(* An agent that serves has the root workspace, unless the insertion of it  *)
(* was cut or failed (workspaces.rs:47): a later boot that finds the home   *)
(* directory seeded does not try again.                                     *)
RootIsSeeded == pc = "serving" => "root" \in seeds \/ "seeds" \in torn
=============================================================================
