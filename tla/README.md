# A formal model of OxiRemote

OxiRemote is an agent that runs on a host, opens a Cloudflare tunnel to itself and lets paired
devices use the host (terminal, files, desktop, previews) from a browser. This directory holds
TLA+ modules of its logic, the TLC runs that check them on small instances, and TLAPS proofs
of the properties that matter most, for every instance. Paths below are relative to the
repository root; `agent/` stands for `agent/src/`.

## Running

    tlc -workers 2 -config DeviceAccess.cfg MCDeviceAccess   # any run of the table below
    tlapm TunnelSupervisor_proofs.tla                        # any *_proofs module

`PROJECT.json` lists the components, every run with its properties, the source lines each
definition models, for each property a faulty variant of the code that breaks it, the
disagreements between code and comments found on the way, the hazards and the theorems. A
definition marked "faulty variant" is used by no specification; it stands next to the
definition it falsifies.

## Inventory

### Modelled

| component | code | state | operations | what is hard | what must hold |
|---|---|---|---|---|---|
| Event bus | `agent/events.rs`; subscriber `tui/dashboard/mod.rs` | broadcast ring, tunnel snapshot, cursors | `send` (mirror, then broadcast), `subscribe`, `snapshot`, `recv` | a send between the subscriber's two calls; lag | a late subscriber ends up with the snapshot |
| Tunnel supervisor | `agent/tunnel_supervisor.rs`, process part of `tunnel.rs`, `heartbeat.rs`, signal in `main.rs`, disconnect in `agent_api.rs` | loop position, backoff, held terminate handle, children and their wait-tasks, `tunnel_shutdown` waiters, `force_respawn` permit, rate-limit flag | launch, register, fail, down, forced respawn, backoff, kill, reap, disconnect, signal | one `Notify` shared by five kinds of waiters; stale permits; several children alive at once | no cloudflared is forgotten; a lost tunnel comes back; the cool-down is kept; a shutdown reaps |
| Edge-health monitor | `agent/edge_health_monitor.rs` | current URL, engaged, failure count, interval, throttle | bus arm, sleep arm, probe | the URL may change during a probe; late verdicts | respawns are spaced, not starved, Degraded ends |
| Device access | `agent/http_pages.rs`, `one_time_keys.rs`, `approval.rs`, `auth.rs`, `push_api.rs` | device rows, credentials, settings, requests half done | pair, log in, approve, reject, revoke, rotate, authenticate, subscribe | handlers interleave between statements; the operator decides from another thread | one device for a credential, in time; nobody in without consent; revoked stays out |
| Discovery | `agent/discovery.rs`, `main.rs` (prober, slot writer, client), `apps/discovery-worker` | URL, queues, registrations under way, session record and key index with times to live | announce, probe, register with retries, heartbeat, expire | overlapping registrations, lost answers, two times to live | keys lead to a record; the record names the tunnel |
| Terminal output | `agent/terminal_pty.rs` (reader), `terminal_buffer.rs`, `terminal_ws.rs`, `apps/web` `terminal-ws-hook.ts`, `terminal-store.ts` | ring of chunks, broadcast receiver, attach and frames in flight, browser's last number | read, broadcast, attach and snapshot, lag, reconnect, exit | snapshot and live chunks overlap; lag; lost connections; a socket opened beside the one before | no hole in the output; it is shown in the end |
| Terminal sessions | `agent/terminal_api.rs`, `terminal_pty.rs`, start-up of `main.rs` | row, map entry, shell, terminal, reader, requests | create, exit, close, touch, restart with reconciliation | reader, handler and reconnecting browser write the same row | map, row and shell agree again |
| Session watch | `agent/terminal_pty.rs` (watchdog, detector loop), `agent_detector.rs` | activity flag and light, the detector's last answer, descriptor numbers, the row's column | output, quiet, look, poll, write, announce, drop | two threads share a flag; the detector outlives the session whose descriptor it polls | a light can go off, an agent that ended is not taken for running, what is said of a session is its own |
| Agent process | `agent/instance_lock.rs`, start and end of `main.rs`, `tui/mod.rs` | `agent.lock`, who has it open and locked, the port, each process's stage | start, lock, bind, sweep, serve, hand over, stop, crash | the file is removed while others hold it open; several starts at once; exits without destructors | one holder of the lock; a sweep ends with an agent that serves |
| Startup | `main.rs` `server_main`, `tunnel.rs` (download), `auth.rs`, `host.rs`, `push.rs`, `workspaces.rs` | the data directory, subscribers of the bus | download and place cloudflared, make secrets, seed, subscribe, supervise | a boot may be killed at any step | what it leaves can be used by the next; the identity stays; no subscriber is late |
| Self-update | `agent/update.rs` | executable, `<exe>.new`, `.bak`, updates under way | look up, download, extract, replace, roll back | two updates at once, kill anywhere, Windows | a binary that runs; no downgrade |
| Autostart | `agent/autostart.rs`, its endpoints | what the operating system keeps, requests, the answers given | enable and disable on three systems, detect | ignored failures; the agent may be ended by its own request | the answer is what the next login does |
| Allowlists | `agent/preview.rs`, `proxy.rs`, `security/cors_capture.rs`, `db.rs`, `agent_api.rs` | lists in memory and in the database | create, delete, health round, allow, capture, remove, restart | two copies, changed apart by several requests | the copies agree; nothing removed returns |
| Workspace files | `agent/files.rs`, `files_upload.rs` | a directory, part files, requests half done, modification times | read, write, create, rename, delete, upload, download of a range | look, await, change, with nothing that excludes others | a loss needs a race; part files are accounted for |
| Health probe | `agent/health_check.rs`, prober of `main.rs` | time, the last answers, the queue | resolve, probe, pause, give the verdict | NXDOMAIN is transient; a slow prober lags | the verdict is borne out, in time, and comes |
| Dashboard | `agent/tui/dashboard/`, `tui/approval.rs` | checklist, URL, overlay, QR key, mode | enter late, fold events, keys, approval modal | events of a tunnel that has gone; keys made by other threads; the modal blocks the loop | what is shown is what is |
| Notifier | `agent/notifier.rs`, `push.rs` | the last toast, the push round, the queue | toast, hush, push | one remembered key, a slow push, lag | what is hushed was shown; every subscription is tried |
| Desktop registry | `agent/desktop_service.rs`, entry and exit of `desktop_ws.rs` | one entry per device, its close sender, the stay-awake guard | register, upgrade, attach, kick, remove | removal by device; upgrades that fail | one viewer |
| Desktop session | `agent/desktop_ws.rs`, `pipeline_selection.rs`, `desktop_audio_pipeline.rs`, `desktop_ws_capture.rs` | stage, negotiated pipeline, connection, watchdog, channels, audio | negotiate, bring up, race, loop, size change, teardown | callbacks, timers and the close signal race | a verdict; no orphan channel; nothing left behind |
| Desktop media | `agent/video_pipeline.rs`, `vp9_pipeline.rs`, `av1_pipeline.rs`, `crates/desktop` (capture, encode, encoders) | capture, encoder and writer threads, the decoder, JPEG tiles | capture, encode, drop, write, lose, ask for a keyframe, restart | drops at every stage, a throttle, static screens, a data channel that loses and reorders | the decoder recovers; the threads end; no tile of an old size is left out |
| Adaptive bit rate | `agent/desktop_abr.rs`, `desktop_stats_sse.rs` | zone, streak, window, target | observe, tick, set | several writers of one watch; alternating zones | a raise is earned |

### How they interact

* The supervisor, the stderr scraper of `tunnel.rs`, the health prober and the monitor all `send`
  on the event bus; the supervisor, the monitor, the discovery client, the slot writer, the
  prober, the notifier and the dashboards each hold a receiver of their own, with its own lag.
* `tunnel_shutdown` and `force_respawn` are shared `Notify` objects: the disconnect endpoint
  calls `notify_one`, the signal handler `notify_waiters`, the heartbeat and the edge monitor
  `force_respawn.notify_one`.
* The URL slot (`AppState::tunnel_url`) is written by the slot writer and emptied by the
  disconnect endpoint, and read by the discovery heartbeat.
* Devices, sessions, credentials, allowlists and terminal rows are SQLite tables; every handler
  opens its own connection, so statements of different requests interleave.
* The terminal map is shared by handlers, websocket tasks, reader threads and detectors.
* A desktop session is ended through the registry's close sender, fed by its encoder's first
  keyframe, and steered by the bitrate watch.

The modules join these where the behaviour needs it: `TunnelSupervisor` holds the bus queue of
the supervisor, the monitors as loops, the disconnect endpoint and the signal; `EdgeMonitor` holds
its own receiver and leaves the verdict of a probe and of the health prober open, which
`HealthProbe` works out; `Discovery` holds the prober, the slot writer, the client and the worker;
`DashboardTunnel` holds supervisor, scraper and prober as the senders of what it shows;
`TerminalStream`, `TerminalSessions` and `SessionWatch` look at the same session for what it
carries, for the rows it leaves behind and for what watches it; `DesktopSession` sees of the
registry the close signal and of `VideoPipeline` the first keyframe and the end.

### Not modelled

| component | why |
|---|---|
| Desktop input and cursor | calls into the operating system; the notices they queue are in `DesktopSession` |
| Worker's rate limiter, proxy, CORS | pass-through, state lost at any time |
| Request guards (`security/`) | decided from one request; the token bucket is one counter behind one lock |
| Operator API, settings, host info, telemetry | single rows; the writes others depend on are modelled there |
| Local sites, preview proxy and tokens; file search, activity, git | I/O, subprocesses, nothing read back by another step |
| Tracing, static files, tray, Windows jobs | logging, assets, calls into the operating system |
| Named tunnels, installers | a command line; sequential downloads outside the agent |
| Web client | only the terminal's receiving side; its ladder of delays is one arbitrary delay |
| Landing page, e2e tests, release scripts | no program logic |

What is left out of a component that is modelled in part is said in its note in `PROJECT.json`:
mostly rendering, codecs and other data (pixels, samples, bytes of text), and reads.

## Modules

| module | role |
|---|---|
| `EventBus` | the bus and subscribers that attach late |
| `TunnelSupervisor`, `TunnelSupervisor_proofs` | supervision of cloudflared |
| `EdgeMonitor`, `EdgeMonitor_proofs` | the monitor's loop, with time in units of 30 s |
| `HealthProbe` | the prober of a new URL, with time in seconds |
| `DeviceTrust` | abstract: what the agent promises about devices |
| `DeviceAccess`, `DeviceAccess_proofs` | the protocol in statements; implements `DeviceTrust` |
| `Discovery`, `Discovery_proofs` | agent and worker, with time in heartbeats |
| `TerminalStream`, `TerminalStream_proofs` | output of one terminal, shell to browser |
| `TerminalSessions`, `TerminalSessions_proofs` | rows, map, shells and readers |
| `SessionWatch` | idle watchdog and agent detector |
| `DesktopRegistry`, `DesktopRegistry_proofs` | which session of a device is the registered one |
| `DesktopSession` | one session from the offer to the teardown |
| `VideoPipeline`, `JpegCapture`, `DesktopAbr`, `DesktopMedia_proofs` | frames of a video session, of a JPEG session, the bit rate |
| `AgentProcess` | instance lock, port, sweep, ways to start and to end |
| `Startup`, `SelfUpdate`, `Autostart` | what boots, updates and requests leave on the host |
| `Allowlists` | lists kept in memory and in the database |
| `WorkspaceFiles`, `ByteRange` | file requests over one directory; ranges of a download |
| `DashboardTunnel`, `DashboardKeys` | what the terminal dashboard shows, and its keys |
| `Notifier` | toasts and pushes |
| `MCDeviceAccess`, `MCHost`, `MCWorkbench`, `MCDesktopSession`, `MCDesktopMedia` | several components in one run |
| other `MC*` | instances of one module |

Four `_proofs` modules extend a module that composes several components, because what they prove
is about the specification the run checks: `EdgeMonitor_proofs` extends `MCHost`, `DeviceAccess_proofs`
`MCDeviceAccess`, `TerminalSessions_proofs` `MCWorkbench`, `DesktopRegistry_proofs` `MCDesktopSession`,
and `DesktopMedia_proofs` `MCDesktopMedia`. The others extend the component's own module.

### How state and actions correspond to the code

**EventBus.** `EventBus::send` locks the snapshot, releases it, then calls `tx.send`: two actions,
`Mirror` and `Broadcast`. A receiver is a cursor; the ring is the last `Capacity` messages of the
log; `ReceiveLagged` is `RecvError::Lagged`. The dashboard's `subscribe` then `snapshot` is
`Subscribe` then `Hydrate`.

**TunnelSupervisor.** `pc` is the position in `tunnel_supervisor::run`; `cur` the child between
spawn and registration; `prev` is `prev_terminate`. Each child has a process (`proc`), a wait-task
(`watch`) and a stored terminate permit (`term`). `queue` is tokio's list of waiters on
`tunnel_shutdown`: a task enters it at the first poll of its `select!` (`Poll`), leaves it with
the `select!`, and returns to the tail at the next turn. `Disconnect` wakes the head or stores a
permit, `Signal` wakes all and stores nothing. `SupAccount` is `record_failure`, the read and
clear of the rate-limit flag and the choice of the delay, done by the code without an await.

**EdgeMonitor.** The `select!` of the loop is `Recv` and `SleepAgain`/`StartProbe`; `run_probe` is
split at its await (`StartProbe`, then `ProbeOk`, `ProbeFails` or `Threshold`). `Tick` passes time
whatever the task does. The 60 s throttle is in `Threshold`; the proof of `RespawnsApart` shows
that its suppressing branch is never taken.

**DeviceAccess.** A request is a record of what it has still to do; each SQL statement or
transaction is an action. `Admitted` is what the middleware decides, by cookie (`CookieAuth`) or
key (`BearerAuth`). A device row, its session and its API key are written by one transaction and
are one entry. Rows never leave. A request that paired reads the clock again for its cookie (`Sign`,
after `Mint`). Revoking is two statements, and the second may fail unseen: `DropRevokedSubs` or
`KeepRevokedSubs`. The ghost `blessed` remembers consent, `origin` the credential, `leftover` the
subscriptions that a revocation did not drop or that were written after it.

**Discovery.** `probeQ`, `clientQ` and `slotQ` are the receivers of the three tasks; a registration
is a record in `task` that goes through the worker calls (`create` is a read and a write back,
`put`), `update`, `temp`, `lookup`. A call may be answered, refused (404), fail, or take effect
and lose its answer (`CallFails`). `Tick` lets a heartbeat interval pass when nothing is under
way: calls time out after 15 s and a registration with its retries ends within three minutes,
against fifteen minutes of a heartbeat.

**TerminalStream.** `ring` holds the sizes of the retained chunks, the newest has number `next`.
`Read` appends, `SendChunk` broadcasts, apart as in the code. For each socket of the page, `srv` is
its websocket task, `attach` and `wire` are the two directions of its connection, `ws` its
`readyState` and `heard` what it brought; `handle` is the one socket the page remembers. `last` is the
browser's `lastSeqById`, `shown[s]` counts how often the page wrote chunk `s`. `Connect` looks at the
handle's socket only, and `OnClose` makes the handle forget whichever it has, so two sockets
may be open; the ghost `beside` says that one was opened beside another that was not closing. A socket
that is closing delivers nothing more: a message counts while `readyState` is OPEN. The reaping
and the row the reader writes before `Remove` are in `TerminalSessions`.

**TerminalSessions.** `create`, `reader` and `req` are the positions of the creating handler, the
reader thread and the requests about a session; `Kill` waits while the reader holds the child's
lock. `Restart` is a stop at any point followed by `reconcile_orphan_sessions`.

**SessionWatch.** The watchdog thread's turn is split where the reader's `swap` may come between:
`DogLooks` (end, or load of the flag), `DogMeasures`, `DogStores`, `DogSends`. The detector is
`Poll`, `WriteRow`, `Tell`; it asks about a descriptor number (`det.fd`), and `Spawn` gives a new
session the lowest free one, as the system does.

**AgentProcess.** A lock belongs to the file that was opened (`fd`), `path` says which file the
name leads to. `LockFile::drop` is `Remove` then `Close`; exits without destructors are
`ExitProcess` and `Exit`. `SweepTerm` and `SweepKill` are the halves of
`kill_other_oxiremote_processes`.

**Startup, SelfUpdate, Autostart.** Each step that touches the disk or the operating system is an
action, and `Killed` (or `Stop`) may come before any of them. A file is known by the boot or
version that wrote it and by whether it is whole. `Startup` numbers boots, `SelfUpdate` versions.
The insertions of `seed_defaults` may fail, and the boot goes on: `SeedHome`, `SeedRoot`.

**Allowlists.** A request is a record of its kind, step and argument. `previewVars` are rows,
targets and health; `ports`/`portsDb` and `origins`/`originsDb` are the two copies. `lock` is
SQLite's write lock, taken by `BEGIN IMMEDIATE`. `Restart` loads each list or, when that fails, starts
without it, as the three error arms of `main.rs:748-769` do; `unloaded` and `unsaved` say where memory
and database differ for that reason, or because a save failed.

**WorkspaceFiles.** Names are the base name and its numbered variants; a file is known by the
request that wrote it and by its modification second. `known` is what a client has read; `close`
records that a name changed twice in a second or that requests on it overlapped; `lost` is a ghost.
`ByteRange` is `parse_range` and its caller as one function, compared with the set of bytes named.

**HealthProbe.** `at` is the position in the loop; `elapsed` counts seconds since the window
began; `pinned`, `lastSeen` and `nxOnly` are what the resolver and the tunnel answered.

**DashboardTunnel, DashboardKeys.** `shown` is the dashboard's `State`; `tunSnap` the bus's
snapshot, `evs` what the receiver still holds: `Send` never waits, a receiver that is full loses its
oldest event, and `missed` says whether that told a URL or Ready. Any other event of the
bus takes room too (`Chatter`). Keys are the rows of one-time keys with the events
that announce their change (`unsent`, `inbox`).

**Notifier.** `task.step` is what the single task is doing: receiving, looking up, pushing.

**DesktopRegistry.** `ses[s].closed` is how the close receiver of a session resolved. `register`
is two actions because the map is sharded and another `register` may come between them.

**DesktopSession.** `phase` is the position in `run_session`; `neg` the negotiated
pipeline and size, `link` the socket and the peer connection, `vid`, `aud`, `jpg` the tasks.
The four `select!` loops share the operators for their arms; `BringUp` has the failing steps.

**VideoPipeline.** A frame is a keyframe, a plain frame or one whose predecessor is lost.
`slot` is the channel of one between encoder and writer. `calm` is when drops and losses stop.
**JpegCapture** knows a tile by the capture it came from. `frames` is the frame channel, `sending`
the frame the task is sending, `flight` what is on the wire to the canvas and `viewer` what was drawn
last. On either sink a tile may be drawn late, since each is decoded on its own; the data channel
also loses (`Lose`). `torn` and `astray` are the tiles of this capture that the encoder or the way lost.
**DesktopAbr** has one `Tick` a second.

## Runs

Components that share no state are checked together where the question asked of them is the same.
A variable `part` then says which of them a behaviour is of; the others stay where they started,
so the states add up and do not multiply. In `MCDeviceAccess` the variables of a part that does not run
stay 0.

| run | module, cfg | shows |
|---|---|---|
| `supervisor_safety` | `MCTunnelSupervisor`, `SupervisorSafety` | no live cloudflared is forgotten, respawns have causes, the cool-down is kept |
| `supervisor_live` | `MCTunnelSupervisor`, `SupervisorLive` | superseded children die, lost tunnels come back, a shutdown that reaches the waiting supervisor reaps |
| `host` | `MCHost`, `Host` | respawns 210 s apart, Degraded ends, a dead edge keeps being answered; bus readers in step; one lock holder; everything that waits is served |
| `device_access` | `MCDeviceAccess`, `DeviceAccess` | consent, pairing in time, subscriptions of the revoked, refinement of `DeviceTrust`; files, lists, binaries, secrets, the start at login and the tunnel panel are what was promised |
| `discovery` | `MCDiscovery`, `Discovery` | no key leads nowhere, the record converges to the slot |
| `workbench` | `MCWorkbench`, `Workbench` | no phantom entry, no orphan row; no gap in the output, the exit comes last; exits are noticed, closings settle, output is shown |
| `desktop_session` | `MCDesktopSession`, `DesktopSession` | one viewer; a session decides, closes what lost, leaves nothing |
| `desktop_media` | `MCDesktopMedia`, `DesktopMedia` | every tile of an old size is painted anew, a decoder that recovers, threads that end, raises that are earned |

A property of a run that spans several parts is the conjunction of theirs, by name:

| property | conjuncts |
|---|---|
| `BootsUsable` | `Startup`: `BinaryRuns` `IdentityIsKept` `RootIsSeeded` `SecretsRarelyBlock` `FailureIsTold` `FirstUrlIsHeard`; `SelfUpdate`: `ABinaryRuns` `NoDowngrade`; `Autostart`: `AnswerIsKept` |
| `FilesKept` | `WorkspaceFiles`: `LossNeedsARace` `PartsAreAccounted`; `ByteRange`: `NamedBytesAreSent` |
| `ViewsAgree` | `Allowlists`: `ListsInStep` `OriginsKept` `RemovedStaysOut`; `DashboardTunnel`: `ServingIsShown`; the parts' types |
| `ReadersInStep` | `EventBus`: `LateSubscriberInStep`; `DashboardKeys`: `QrCarriesLiveKey` `KeysGoToOnePlace` |
| `ServicesKeepPromises` | `AgentProcess`: `OneHolderUnlessRaced`; `EdgeMonitor`: `CountedFailuresShareUrl`; `HealthProbe`: `NxdomainIsSustained` `ProbeEndsInTime`; `Notifier`: `HushedWasShown` `EverySubTried`; `SessionWatch`: `LightCanGoOff` `FoundIsOwn` `RowIsAnnounced` |
| `EdgeRecovers` | `EdgeMonitor`: `DegradedRecovers` `ZombieRespawned` |
| `WaitersAreServed` (host) | `EventBus`: `EventuallyDrained`; `AgentProcess`: `SweeperServes`; `DashboardKeys`: `TakeoverEnds`; `HealthProbe`: `AnnouncedIsJudged`; `Notifier`: `EventsAreTaken`; `SessionWatch`: `WatchSettles` |
| `WaitersAreServed` (workbench) | `TerminalStream`: `EventuallyShown`; `TerminalSessions`: `ExitNoticed` `CloseSettles` |

Four runs end in a counterexample, each against a sentence of the repository:

| run | property | the sentence | what the code does |
|---|---|---|---|
| `supervisor_disconnect` | `DisconnectTearsDown` | `agent_api.rs:104` "Notifies the tunnel-spawn task to SIGTERM cloudflared and reap the child" | `notify_one` wakes the oldest waiter, the side task, which only latches the flag |
| `discovery_qr` | `QrResolves` | `tui/dashboard/state.rs:235` "a single QR scan completes pairing across origins" | nothing renews the temp key, the QR code keeps it after it expired |
| `replay_duplicated` | `ReplayNotDuplicated` | `terminal_ws.rs:147` "so replay isn't duplicated" | a chunk in the ring and still in the receiver is sent twice |
| `closed_comes_back` | `ClosedStaysHidden` | `terminal_api.rs:57` "Hide administratively closed sessions" | the reader writes `exited` over `closed` |

### Bounds, and why they are enough

* EventBus: one sender and one subscriber, six messages, capacity two. Enough for every order of
  mirror, broadcast, subscribe, hydrate, and for a lag of more than the ring. With two senders
  mirror and broadcast can be in opposite orders and the property fails; see the hazards.
* TunnelSupervisor: two children are what it takes for one to supersede the other; one monitor,
  one forced respawn, one disconnect, one signal, one rate-limited launch, one unrelated event.
  Capacity one makes each further event a lag in the safety run. Monitors only add waiters.
* EdgeMonitor: three URLs (one probed, one announced, one verdict late) and three changes of the
  edge. `BusCapacity` is large enough that the liveness claims are not about lag; the
  safety claims are proved for every capacity.
* DeviceAccess: `PAIRING_TTL = 0`, `OTK_TTL = 1`, `MaxTime = 2` put both boundary seconds within
  reach: a code in its last second, a one-time key at the second it dies, a session that is
  still valid and one that is not. One credential is issued (`MaxIssue`), of either kind: a transaction
  looks at the row of one credential, and two devices compete for it. Two requests give every pairwise
  interleaving of statements.
* Discovery: two URLs (an older and a newer), two registrations under way, two attempts, two
  failing calls. Times to live keep the order of the code: a temp key lives one unit (30 min are
  two heartbeats, the ordering against the record is what counts), record and lookup id live
  equally long. `MaxFail + 1 < SESSION_TTL` is assumed: 24 h are 96 heartbeats.
* TerminalStream: two sockets, which is what the page opens when it forgot one. In `workbench`
  two chunks of sizes one and two, a ring of two units, so that one or two
  chunks are kept; a channel of one slot, so that the second frame is a lag; a network of two frames;
  one fault, a lost connection, a new URL or a reload. That is enough for a chunk to come by a snapshot
  and live and for a closing socket beside a new one. `replay_duplicated` has three chunks and two faults.
  The safety claims are proved for all bounds.
* TerminalSessions: two sessions with a cap of one, two requests: one closes while the other
  touches, one session exits while the other is created.
* SessionWatch: two sessions, so that one gets the other's descriptor number; one is watched by
  the watchdog, two outputs, one agent, one statement or look that fails.
* AgentProcess: three starts and two files: the holder, one that opened the holder's file, and
  one that creates the next. One branch is out of this bound: the second bind fails
  (`RebindFails`) only if a fourth start, on a third file, takes the port between the two
  halves of the sweep.
* Startup: three boots (one cut, one that mends, one that uses), three attempts at the download.
  SelfUpdate: two updaters, three versions: older, running, newer. Autostart: two requests at a
  time, four in all: on and off, answered and cut.
* Allowlists: one port, two origins of which the environment names one, a list of one origin, so
  that eviction happens; three requests. WorkspaceFiles: three requests, two names, a clock of
  three seconds: writer, reader, and one that comes between. ByteRange: files of up to three
  bytes, numbers up to five: every boundary from both sides.
* DashboardTunnel: two tunnels, so that the first one's events arrive late; DashboardKeys: two
  keys, one pending device. Both receivers hold two, so that a third unread event is a lag. HealthProbe: two URLs and the real seconds;
  the counters are capped by the window. Notifier: one device, two subscriptions, a
  receiver of two, a window of two.
* DesktopRegistry: three connections of one device: one evicted, one evicting, one that is hurt
  by the end of the first. DesktopSession: every codec, three kinds of client, two sizes, a text
  channel of seven, one notice and two inputs: the capabilities that lead to a video codec, then
  a change of size that ends its loop. The channel holds what is queued before the loop drains
  it, as the 32 slots of the code do; `SessionAssumption` states it.
* VideoPipeline: four pairs of capture and encoder, a queue of two (the size in the code);
  JpegCapture: two tiles, a channel of one and one restart (old size, new size), and one copy of a tile of one
  capture on the wire, which may still be overtaken by, or overtake, one of the other capture. The
  fallback sink runs with the polling backend and the data channel with the other: a sink differs by `Lose`
  only, a backend by `SckTimesOut` only, and each is in one of the pairs. The theorem is about the same
  pairs, and any channel and any number of tiles, restarts and copies. DesktopAbr: rates 4 to 10, so that cut,
  step, floor and ceiling are all reached, gates of three and a hysteresis of two.

### Fairness

Weak fairness only, on the steps that the runtime must take in the end: a task that is not waiting
is polled, a thread runs on, a sleep and a timeout elapse, a message under way is read. Never on
what the environment may leave undone: a shell exits, a tunnel dies, an operator decides, a call
fails, a connection is lost, the agent restarts. Two choices deserve a word. `EdgeMonitor`: the
sleep arm and the bus arm are each weakly fair; tokio's `select!` picks a ready branch at random,
and the bus does not carry events without end. `TerminalStream`: `ServeAttach` is weakly fair
apart from the receiver's steps, by the same `select!`.
In `supervisor_live` the conclusion of `TunnelRecovers` also accepts that all
child identities are used up (`Launched = Child`), the bound's counterpart of a launch.
In the runs of several components the fairness conditions are merged: since a behaviour has steps of one part only,
`WF(A of one part \/ B of another)` is `WF(A)` in the behaviours of the one and `WF(B)` in those
of the other. Where a condition was merged over the members of a part as well (`\E w \in Watched`)
it grants less than the code, which runs a task for each.

In `VideoPipeline`, `Settles` is fair: losses and drops may go on for ever in the code, and
`DecoderRecovers` speaks of what happens once they stop. `AnnouncedIsJudged` rests on the
timeouts of the requests in `health_check.rs`, `EventsAreTaken` on those of the push client.

## Proofs

All are for every value of the constants allowed by the named ASSUMEs. Every invariant and every
safety property of steps that a passing run checks is the subject of a theorem.

| module | theorems | argument |
|---|---|---|
| `TunnelSupervisor_proofs` | `TypeCorrect`, `NothingForgotten`, `CoolDownHonoured`, `RespawnsPaid` | `Owned` adds to `NoForgottenChild` that no handle is held while a child is being launched and that a child whose launch failed is dead (`CurOwner`), without which registering would overwrite a handle in use, and that the rate-limit flag stays set from the stderr line to the accounting (`LimitLatched`), which is why the cool-down follows. For `RespawnsAccounted`, `Paid`: launches, together with the events not yet received and a stored permit, which may each cause another, are at most the causes counted, and one more while the child that runs has not come to its account |
| `EdgeMonitor_proofs`: the monitor | `TypeCorrect`, `SpacingHolds`, `RespawnsAreApart`, `MonitorInHost` | `Spacing` ties interval and failure count together and bounds `since + timer` from below: 30 + 60 + 120 s lie between two thresholds. `MonitorInHost`: each step of the services is one of the monitor or leaves it alone |
| `EdgeMonitor_proofs`: the bus | `ReadersStayInStep`, `OneSenderStaysInStep` | a sender that has not broadcast yet has written the snapshot, and with none the last URL broadcast is the snapshot (`MirrorFirst`, `SnapIsLast`); a hydrated subscriber that has no URL ahead of its cursor, and lost none, believes in it (`InStep`). The premise `SendsInTurn` says that no two senders are between snapshot and channel at once; it is a property of one sender, and two can break it |
| `EdgeMonitor_proofs`: the services | `ServicesKeepTheirPromises` | the conjunction of an invariant for each. `CountInv`: a probe under way is of the URL the failures are counted for. `ProcInv`: until the path is removed under a start that has the file open, every open file is the one the path names (`OpenIsNamed`), and a file has one lock (`LocksExclude`). `KeysInv`: with no key event unsent, unread or lost, the key shown is live or expired (`ShownWorks`), and there are no more unsent events than changes of keys (`Budget`). `ProbeInv`: the seconds that may have gone at each place of the loop, and what was answered so far there (`Timely`, `Judged`). `ToastInv`: the one key remembered was shown when it says (`Remembered`), and who was not tried in a round of pushes is still to be tried (`Rounds`). `WatchInv`: sessions that hold a descriptor hold one each (`OwnFd`), a light that is on has its flag, or the frame that turns it off is about to go out (`Lighted`), and what the detector tells it has written (`Written`) |
| `DeviceAccess_proofs`: access | `TypeCorrect`, `ConsentNeeded`, `PairingSound`, `RevokedLosesSubscription`, `Refinement`, `AccessInAgent` | an approved row is blessed (`Consented`); an origin is spent and in time (`Paired`, `OneEach`), because the transaction checks `used` in the step that sets it; a revoked device with a subscription has a request that will still drop it (`BeingRevoked`), or is one of the `leftover`; every step maps to one of `DeviceTrust` or to none |
| `DeviceAccess_proofs`: files | `FilesAreKept` | `FilesInv`: what a request found out before its await still holds unless another came between (`Found`, `Overlaps`), and what a client has read is there, or was of an earlier second than whatever has come since (`Read`); `BytesInv`: one case for each form of a range |
| `DeviceAccess_proofs`: boots | `BootsStayUsable` | `BootInv`: a secret that an agent has served with is the file that is there, and one that was cut is known to be torn (`SecretsStored`); a home directory seeded without the root is being seeded or has a seed cut or failed (`SeedsSown`); who must hear the first URL has subscribed before the supervisor starts (`EarlySubscribed`). `ExeInv`: while no two updates overlapped, one process at most is updating, what it downloaded is no older than what runs (`Prepared`), and the executable or the one moved aside runs (`UpdatesInTurn`). `LoginInv`: a request that is alone has done half of it when it says so (`AloneKept`), so the answer is what the next login does (`Kept`) |
| `DeviceAccess_proofs`: views | `ViewsStayInStep` | `PreviewInv`: what one copy has and the other has not is in the hands of a request, in the order row, target, health (`RowsFirst`, `TargetsLast`, `JudgedOrGone`), or was not loaded at this boot (`NeverLoaded`); `PortInv`; `OriginInv`: what a request has read is the list as long as it holds SQLite's lock (`ReadUnderLock`), and no origin is in the list twice (`NamedOnce`); `TuiInv`: an announced URL is shown, missed or the last one on its way, and while the tunnel serves, the last event of it on its way is that it is ready, or none is and Ready is shown or missed (`Announced`, `ReadyComes`) |
| `Discovery_proofs` | `TypeCorrect`, `NothingDangles` | before a URL there is neither record nor key (`Unborn`); the slot holds a URL or is about to (`Sharing`); the record has lost at most the heartbeats that failed and the one under way, and an index entry found a record (`Renewed`); with fewer failures than heartbeats in the record's life it never runs out |
| `TerminalStream_proofs` | `TypeCorrect`, `NothingMissed`, `AtMostTwice`, `LastWordShown` | of each socket, where every chunk is: up to the number the browser asks past, or will after a frame under way, a chunk was shown, left the ring or comes in an earlier frame (`Covered`); queues hold chunks in order (`Received`, `InFlight`); a chunk that may still come live was written by a snapshot at most (`Counted`); the exit is behind the last chunk (`UpToDate`). Until a socket is opened beside another one at most is live (`Alone`), which is what keeps the count; the rest does not need it |
| `TerminalSessions_proofs` | `TypeCorrect`, `NoPhantoms`, `NoOrphans`, `SessionsInWorkbench`, `StreamInWorkbench`, `OutputComplete`, `ExitLast` | a reader runs only for a creation that is over (`InvCreate`), so no creation writes `running` over its row; whoever is about to leave the map has written its row (`InvRemove`); with both, `NoPhantom` and `NoOrphanRow` are inductive. What is proved of a stream and of the sessions is carried over to the workbench |
| `DesktopRegistry_proofs` | `TypeCorrect`, `OneViewerHolds`, `OneViewerInRun`, `TypesHold`, `OrphanClosed` | a session that was told nothing is its device's entry (`UntoldIsRegistered`): registering tells whoever the entry holds before it replaces it, in both halves, and removing by device drops a sender and with it tells its session; two untold sessions of a device would both be the entry. Of a session: at most one `AudioStopped` is queued, because nobody announces it before the pipeline runs nor while it does (`Quiet`), and only a callback that has not looked yet may find the channel that lost the race open (`Orphan`) |
| `DesktopMedia_proofs` | `FramesWhole`, `RaisesEarned`, `ProbeIsDead` | `JpegInv`: before its first frame a capture's diff holds every tile and the channel is empty, so that frame is not dropped (`Fresh`); from then on each tile is drawn from this capture, in the channel, being sent or on the wire, or is torn or astray (`Owed`). A frame that a full channel drops later takes with it only tiles that are owed already. `AbrInv`: in comfort the controller is at its ceiling, so zone `Probe` is never entered and a raise is the end of a recovery, whose streak is no longer than the row of healthy seconds |

Only model-checked:

* all liveness (`TunnelRecovers`, `SupersededDies`, `StopWhileWaitingReaps`, `EdgeRecovers`, `Converges`,
  `WaitersAreServed`, `VideoDecides`, `LeavesNothing`, `DecoderRecovers`, `PipelineEnds`): fairness and
  ENABLED are out of the prover's reach;
* what holds of `VideoPipeline`, whose two properties are of that kind;
* what the recursive sum of `TerminalStream` computes: induction over data cannot be
  instantiated by the provers. No module declares a RECURSIVE operator;
* that a bus with overlapping senders disagrees: `ReadersStayInStep` has its premise for that reason.

## Abstractions to know of

* A database statement fails and rolls back in `DeviceAccess`; the second statement of a revocation
  fails and is not rolled back with the first (`leftover`). In `TerminalSessions` statements
  do not fail: the code ignores or logs such failures, and the next restart reconciles.
* `TerminalStream` starts above the decoding of bytes to text: an invalid byte at the head of
  the pending bytes (`terminal_pty.rs:523`) stalls output below the model.
* `ShownAtMostTwice` is claimed until a socket is opened beside one the page forgot (`beside`): from then
  on every socket that is open writes each chunk.
* `ExitComesLast` is claimed for a terminal that got its snapshot on the connection: the exit
  frame is passed on before an attach, and a browser told so does not come back for the rest.
* `EventuallyShown` holds while the session is listed: later attempts are answered 410, for ever.
* `TunnelRecovers` assumes a bus wide enough for the events of the run: a `TunnelDown` that a
  lagging receiver lost leaves the supervisor waiting (`tunnel_supervisor.rs:135`).
* `StopWhileWaitingReaps` is about a shutdown that reaches the waiting supervisor. One that it
  consumes in its backoff leaves without firing a handle, and a signal during
  registration (`main.rs:1420`) is seen by nobody.
* At most one cloudflared (`tunnel_supervisor.rs:151`) is not claimed: the old one is told to die
  and the new one started without waiting. `SupersededDies` is what holds.
* A late verdict of the prober engages the monitor for a URL that has none of its own; the
  properties of `EdgeMonitor` hold in spite of it.
* `Converges` does not ask that a published URL was probed (`main.rs:945`): the client registers
  the URL noted last, whichever was probed.
* `session/create` of the worker reads and writes back: it can undo an update for a moment and blank the
  URL of a record that expired in between. `Converges` covers the outcome.
* Two generations of a one-time key that interleave leave two live keys (`one_time_keys.rs:34`);
  both are the operator's, and neither admits two devices.
* `OneHolderUnlessRaced` excepts two holders that come of the removal of `agent.lock` under a start
  that has it open: with a removal in `Drop` (`instance_lock.rs:114`) this cannot be excluded.
* `LossNeedsARace` counts two changes within one second as a race: `if_mtime` compares seconds.
* `LossNeedsARace`, `ListsInStep`, `RemovedStaysOut`, `ServingIsShown`, `RootIsSeeded`, `FoundIsOwn`,
  `SecretsRarelyBlock` and `OldTilesRepainted` name the exceptions the code leaves open; each says where
  they come from.
* `OldTilesRepainted` stops at the picture drawn for a tile: that the browser clears its canvas when it
  is told a new size, and what it shows of a tile in between, is not modelled.
* A waiter of `tunnel_shutdown` that was woken takes the shutdown arm (`TakeShutdownArm`). `select!`
  may take another branch that is ready at the same poll. A wake-up of `notify_one` is then passed to the next
  waiter by tokio, as if the request had come after that branch; one of `notify_waiters` is lost to this
  waiter, which finds the flag at its next check instead. `StopWhileWaitingReaps` is about a wake-up that is taken.
* What a killed cloudflared wrote before it died may be read after it; the rate-limit line is read as long as the
  process runs or has just exited, not after a kill.

## Observed, and not claimed

What the code does against what one would expect of it, met while modelling. None of it is
covered by a property, because it does not hold.

* `desktop_ws.rs:428` removes the registry's entry by device. Connection 2 evicts connection 1; 1
  returns and removes 2's entry, whose close sender is dropped; 2 ends although it is the newest
  (`desktop_service.rs:3` speaks of the newest one replacing the others). `OneViewer` still holds.
* The stay-awake guard writes back the idle time it read; with two sessions that overlap, the later
  one read 0, and if it ends last the screen saver stays off.
* The audio arm of the H.264 session (`desktop_ws.rs:2189`) polls a future that has resolved once
  the operator turned audio off: a second poll panics the session's task (phase `panicked`).
* The capture thread of a JPEG session that is restarted ends only when it next has a changed tile to send (`capture.rs:237`); with
  a still screen it goes on capturing, though its receiver is gone (`capture.rs:110` says it ends).
* `main.rs:1300` says the prober fires on every `TunnelUrlChanged`; it ends at its first lag.
* The overlay of `TunnelDown` in the dashboard is not taken away by a later `Ready`.
* `main.rs:485` calls the hand-over to the detached web UI race-free; the child may open the old
  lock file, find it locked and leave.
* `proxy.rs:323` says memory and setting change atomically; when the save fails, memory has changed.
* Enter in the dashboard's device list (`tui/dashboard/key.rs:221`) reads the list again and acts on
  the row at the cursor's place, which may be another device than the one drawn there.
* On macOS `launchctl bootout` of the agent that launchd itself started may end the request before
  the plist is removed; a failed enable leaves a plist that the next login loads.
* The page can have two terminal sockets open, though `terminal-ws-hook.ts:208` says "Already
  connecting or open — nothing to do": the URL changes and the page closes socket 1, connects socket 2 while 1
  is closing, and `onclose` of 1 makes the handle forget 2; the retry then opens a third beside it. Every
  chunk is then written by both.
* A JPEG tile that fails to encode (`encode.rs:366` notes its hash before), or that the unordered data
  channel loses or delivers late (`desktop_ws.rs:1661`), keeps the old picture until it changes again.
* A failing DELETE of the push subscriptions of a revoked device is answered OK (`http_pages.rs:345`,
  `agent_api.rs:880`), and the device goes on being notified.
* When `workspaces.rs:47` fails to insert the root workspace and `:41` has inserted the home directory, no later
  boot tries again.
* The dashboard takes `Lagged` for an empty receiver (`tui/dashboard/mod.rs:84`); a Ready or a URL that was
  overwritten is not told a second time, and the snapshot of the bus is read only at the start.
* A list that could not be loaded at boot is taken for empty (`main.rs:748-769`); the next save of the open
  ports overwrites the stored ones.
* Zone `Probe` of `desktop_abr.rs` cannot be reached: it asks for a comfortable controller below its
  ceiling, and the controller is in comfort only at its ceiling (`ProbeIsDead` proves it).
* A conditional write (`if_mtime`, `files.rs`) compares whole seconds: a file that another request
  replaced or renamed into place within the second the client read is overwritten.
* The idle frame of the watchdog may be sent after the active frame of output that has just begun:
  the light stays off until output pauses.
