--------------------------- MODULE MCDeviceAccess ---------------------------
(***************************************************************************)
(* Who gets into the agent, and what it keeps on disk and shows, checked    *)
(* for safety in one run: device access, the boot, the allowlists, the      *)
(* workspace's files and downloads, the update of the executable, the       *)
(* autostart, and the tunnel as the terminal's dashboard shows it.  The     *)
(* parts share no state: a behaviour is one of the parts, as `part` says.   *)
(* Device access is there in every one; the variables of a part that does   *)
(* not run stay 0.                                                          *)
(***************************************************************************)
EXTENDS DeviceAccess, TLC

CONSTANTS MaxBoot, MaxTry,                                  \* Startup
          Port, Origin, EnvOrigin, MaxListReq, MaxOrigins,  \* Allowlists
          MaxReq, MaxSuffix, MaxSecond,                     \* WorkspaceFiles
          MaxSize,                                          \* ByteRange
          Updater, MaxVersion,                              \* SelfUpdate
          Toggle, MaxToggle,                                \* Autostart
          MaxLaunch, MaxProbes, MaxBacklog                  \* DashboardTunnel

VARIABLES part,
          pc, writing, ended, boot, try, cf, tmp, told, file, seeds, held,
          bootSubs, torn, kept,
          previewRows, targets, health, round, portsDb, ports, originsDb, origins,
          lock, listReq, leaked, unloaded, unsaved, due, racedOrigins, removed,
          dir, parts, fileReq, known, second, close, lost,
          total, ask, answer,
          platform, exe, new, bak, latest, proc, overlapped, downgraded,
          os, unit, link, live, agent, toggles, answered, autoGhost,
          tun, prober, tunSnap, evs, open, shown, missed

bootAll  == <<pc, writing, ended, boot, try, cf, tmp, told, file, seeds, held,
              bootSubs, torn, kept>>
listsAll == <<previewRows, targets, health, round, portsDb, ports, originsDb,
              origins, lock, listReq, leaked, unloaded, unsaved, due, racedOrigins, removed>>
filesAll == <<dir, parts, fileReq, known, second, close, lost>>
bytesAll == <<total, ask, answer>>
exeAll   == <<platform, exe, new, bak, latest, proc, overlapped, downgraded>>
autoAll  == <<os, unit, link, live, agent, toggles, answered, autoGhost>>
tuiAll   == <<tun, prober, tunSnap, evs, open, shown, missed>>
all == <<part, vars, bootAll, listsAll, filesAll, bytesAll, exeAll, autoAll, tuiAll>>

Boot  == INSTANCE Startup WITH subs <- bootSubs
Lists == INSTANCE Allowlists WITH MaxReq <- MaxListReq, rows <- previewRows, req <- listReq, raced <- racedOrigins
Files == INSTANCE WorkspaceFiles WITH MaxTime <- MaxSecond, req <- fileReq, now <- second
Bytes == INSTANCE ByteRange
Exe   == INSTANCE SelfUpdate
Login == INSTANCE Autostart WITH platform <- os, file <- unit, req <- toggles, ghost <- autoGhost
Tui   == INSTANCE DashboardTunnel

ASSUME BootAssumption  == Boot!StartupAssumption
ASSUME ListsAssumption == Lists!ListsAssumption
ASSUME FilesAssumption == Files!FilesAssumption
ASSUME BytesAssumption == Bytes!RangeAssumption
ASSUME ExeAssumption   == Exe!UpdateAssumption
ASSUME AutoAssumption  == Login!AutostartAssumption
ASSUME TuiAssumption   == Tui!DashboardAssumption

-----------------------------------------------------------------------------
\* A part that does not run.
BootOff  == pc = 0 /\ writing = 0 /\ ended = 0 /\ boot = 0 /\ try = 0 /\ cf = 0 /\
            tmp = 0 /\ told = 0 /\ file = 0 /\ seeds = 0 /\ held = 0 /\
            bootSubs = 0 /\ torn = 0 /\ kept = 0
ListsOff == previewRows = 0 /\ targets = 0 /\ health = 0 /\ round = 0 /\
            portsDb = 0 /\ ports = 0 /\ originsDb = 0 /\ origins = 0 /\ lock = 0 /\
            listReq = 0 /\ leaked = 0 /\ unloaded = 0 /\ unsaved = 0 /\ due = 0 /\
            racedOrigins = 0 /\ removed = 0
FilesOff == dir = 0 /\ parts = 0 /\ fileReq = 0 /\ known = 0 /\ second = 0 /\
            close = 0 /\ lost = 0
BytesOff == total = 0 /\ ask = 0 /\ answer = 0
ExeOff   == platform = 0 /\ exe = 0 /\ new = 0 /\ bak = 0 /\ latest = 0 /\
            proc = 0 /\ overlapped = 0 /\ downgraded = 0
AutoOff  == os = 0 /\ unit = 0 /\ link = 0 /\ live = 0 /\ agent = 0 /\
            toggles = 0 /\ answered = 0 /\ autoGhost = 0
TuiOff   == tun = 0 /\ prober = 0 /\ tunSnap = 0 /\ evs = 0 /\ open = 0 /\
            shown = 0 /\ missed = 0

AgentInit ==
  /\ part \in {"access", "boot", "lists", "files", "bytes", "exe", "auto", "tui"}
  /\ Init
  /\ IF part = "boot" THEN Boot!Init ELSE BootOff
  /\ IF part = "lists" THEN Lists!Init ELSE ListsOff
  /\ IF part = "files" THEN Files!Init ELSE FilesOff
  /\ IF part = "bytes" THEN Bytes!Init ELSE BytesOff
  /\ IF part = "exe" THEN Exe!Init ELSE ExeOff
  /\ IF part = "auto" THEN Login!Init ELSE AutoOff
  /\ IF part = "tui" THEN Tui!Init ELSE TuiOff

AccessStep == part = "access" /\ Next /\ UNCHANGED <<part, bootAll, listsAll, filesAll, bytesAll, exeAll, autoAll, tuiAll>>
BootStep   == part = "boot" /\ Boot!Next /\ UNCHANGED <<part, vars, listsAll, filesAll, bytesAll, exeAll, autoAll, tuiAll>>
ListsStep  == part = "lists" /\ Lists!Next /\ UNCHANGED <<part, vars, bootAll, filesAll, bytesAll, exeAll, autoAll, tuiAll>>
FilesStep  == part = "files" /\ Files!Next /\ UNCHANGED <<part, vars, bootAll, listsAll, bytesAll, exeAll, autoAll, tuiAll>>
BytesStep  == part = "bytes" /\ Bytes!Download /\ UNCHANGED <<part, vars, bootAll, listsAll, filesAll, exeAll, autoAll, tuiAll>>
ExeStep    == part = "exe" /\ Exe!Next /\ UNCHANGED <<part, vars, bootAll, listsAll, filesAll, bytesAll, autoAll, tuiAll>>
AutoStep   == part = "auto" /\ Login!Next /\ UNCHANGED <<part, vars, bootAll, listsAll, filesAll, bytesAll, exeAll, tuiAll>>
TuiStep    == part = "tui" /\ Tui!Next /\ UNCHANGED <<part, vars, bootAll, listsAll, filesAll, bytesAll, exeAll, autoAll>>

AgentSpec ==
  AgentInit /\ [][\/ AccessStep \/ BootStep \/ ListsStep \/ FilesStep
                  \/ BytesStep \/ ExeStep \/ AutoStep \/ TuiStep]_all

\* Devices, tokens and requests are interchangeable.
MCSymmetry == Permutations(Device) \cup Permutations(Token) \cup Permutations(Request)

-----------------------------------------------------------------------------
PartTypes ==
  /\ part = "boot"  => Boot!TypeOK
  /\ part = "lists" => Lists!TypeOK
  /\ part = "files" => Files!TypeOK
  /\ part = "bytes" => Bytes!TypeOK
  /\ part = "exe"   => Exe!TypeOK
  /\ part = "auto"  => Login!TypeOK
  /\ part = "tui"   => Tui!TypeOK

(* The workspace's files: one that a client was told is written is lost only *)
(* to a race the code leaves open, the temporary files of uploads are        *)
(* accounted for, and a download carries the bytes it names.                 *)
FilesKept ==
  /\ part = "files" => Files!LossNeedsARace /\ Files!PartsAreAccounted
  /\ part = "bytes" => Bytes!NamedBytesAreSent

(* What a boot, an update or a crash in one of them leaves on disk: binaries *)
(* that run, an identity that stays, the first workspaces, and a failure     *)
(* that was told; what a boot starts has missed no URL, and whether the next *)
(* login starts the agent is what was answered.                              *)
BootsUsable ==
  /\ part = "boot" =>
       /\ Boot!BinaryRuns /\ Boot!IdentityIsKept /\ Boot!RootIsSeeded /\ Boot!SecretsRarelyBlock
       /\ Boot!FailureIsTold /\ Boot!FirstUrlIsHeard
  /\ part = "exe" => Exe!ABinaryRuns /\ Exe!NoDowngrade
  /\ part = "auto" => Login!AnswerIsKept

(* Two views of one state agree: memory and database on previews, ports and  *)
(* origins, but for the failures and races the code leaves open; and the     *)
(* dashboard with a tunnel that serves.                                      *)
ViewsAgree ==
  /\ PartTypes
  /\ part = "lists" => Lists!ListsInStep /\ Lists!OriginsKept /\ Lists!RemovedStaysOut
  /\ part = "tui" => Tui!ServingIsShown
=============================================================================
