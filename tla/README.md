# Gate Connect in TLA+

Gate Connect is a desktop application (a Tauri shell over a Rust core, with a
command line beside it) that routes the traffic of AI tools through a Gate
gateway. It runs an intercepting proxy engine on loopback, points the machine's
system proxy and, on request, the session's proxy variables at it, writes itself
into the configuration of tools, holds the user's sign-in, and takes all of that
back when it is switched off, quits or crashes. These modules say what the parts
of it that change shared state promise, check them with TLC on small instances,
and prove the most important of them with TLAPS for instances of every size.

## The system

| Part | Keeps | Operations | Works with |
|---|---|---|---|
| Desktop proxy manager (`proxy/manager_core.rs`, `system_proxy*.rs`, `proxy_env.rs`) | engine slot, dormant slot, `exited`; on disk the snapshot of the system proxy and of the variables; in the OS the settings themselves | enable, disable, disable_quiet, shutdown_engine, untrust, crash callback, forwarder and domain watchers, reconcile_on_startup | engine, forwarder, CA, account |
| Linux manager and helper daemon (`manager_linux.rs`, `helper*.rs`, `control.rs`, `flock.rs`) | a daemon that outlives the GUI, its clients, intercepting or passing through | connect or spawn, set intercept, set pass-through, shutdown, replace a daemon of another build | engine |
| Engine and relay (`engine.rs`, `relay.rs`, `gate_served.rs`) | listeners, live rules and credentials | start, stop, push rules and credentials, intercept on or off | manager, gateway |
| Environment forwarder (`proxy/forwarder.rs`, `crates/forwarder`) | its port, a marker (wanted, draining), a token | ensure, supervise, stop, drain, adopt a stray | manager, tools |
| OAuth session (`oauth.rs`, `startup.rs`, `org.rs`) | tokens in the keychain, a copy it could not store, a generation, "rejected" | sign in, sign out, current, refresh, re-verify | keychain, engine, feed |
| Account and keychain (`keychain.rs`, `account.rs`) | the gateway, the key, chunked secrets | load, save, switch gateway, clear, reconcile | every process of Gate |
| Provider master switch (`provider.rs`, `recovery.rs`, `routing.rs`) | what was on, a journal of what was swept | enable, disable, sweep at exit, restore at launch | integrations, manager |
| Security feed (`security_feed/`) | events seen, last id | backfill, stream, deliver, reset for another account | session |
| Crash-restart guard and small state machines (`crash_restart.rs`, `reopen.rs`, `tool_watch.rs`, caches) | a streak of unclean starts; caches | record start, record clean exit, arm, disarm | shell |
| Integrations (`integrations/`) | other programs' configuration files | write, remove, detect drift | provider |
| CA trust (`proxy/ca*.rs`) | root certificate, trusted or not | trust, untrust | manager |
| Shell, command line, UI (`src-tauri`, `crates/cli`, `src/src`) | windows, tray; views | launch, exit, commands | all of the above |

What is hard in it: operations are called from several threads at once and hold
one mutex across steps that take seconds; the engine's crash callback runs on the
dying thread and wants that mutex; watchers act on what they read before they let
the mutex go; the settings Gate changes belong to the user, outlive the process
and can be edited by others; the process may be killed between any two steps; and
the same files are read and written by the GUI, the command line and a daemon.
`PROJECT.json` lists each hazard at its line, with the properties that cover it.

## Modules

| Module | Models |
|---|---|
| `DesktopManager` | `DesktopManager` of `manager_core.rs` with everything around it that its correctness depends on |
| `ProxyCustody` | what the manager promises about the system-proxy setting: it is somebody else's or Gate's, and it stops being Gate's only by becoming what Gate replaced |
| `Session` | the OAuth session: `refresh_stored` of `oauth.rs`, the callers that judge a session or push it into the engine, sign-in and sign-out |
| `HelperDaemon` | the Linux helper daemon and the processes that share it: `helper.rs`, `helper_client.rs`, `manager_linux.rs` |
| `Keychain` | a secret cut into chunks, written and deleted by many calls to the store: `keychain.rs` |
| `SecretStore` | what `Keychain` promises: a register that holds a whole secret or none |
| `MasterSwitch` | the "Route through Gate" switch, its exit sweep and its restores: `provider.rs`, `routing.rs`, the shell's callers |
| `SecurityFeed` | the stream, the catch-up, the buffer and the change of account: `security_feed/client.rs`, `mod.rs` |
| `LoginItem` | launch at login, the crash-restart policy and the net under routing: `crash_restart.rs`, `autostart_optout.rs`, setup and exit of `lib.rs` |
| `Forwarder` | the resident forwarder under launchd: `proxy/forwarder.rs` |
| `BearerRecovery` | what a refused bearer sets off: the requests that wait, the check of the session, its latch and cooldown: `proxy/mod.rs`, `relay.rs`, `engine.rs` |
| `ToolSettings` | connect, disconnect and the choice of Gate models over a tool's files, next to its user |
| `ToolValues`, `Dotenv`, `ClaudeCode`, `Codex`, `OpenCode`, `Hermes`, `OpenClaw` | what the writes of each integration are: `integrations/*.rs`, and the models and preferences they read |
| `*Proofs` | the inductive invariants and theorems: one module each about `DesktopManager`, `HelperDaemon`, `LoginItem`, `Forwarder`, `MasterSwitch` and `ToolSettings`; `SessionProofs` about `Session` and the `Keychain` it is kept in; `GatewayProofs` about `SecurityFeed` and `BearerRecovery` |
| `MC*` | the values of the constants for TLC |

Composition: `DesktopManager` holds the engine, the system proxy, the forwarder and
the CA together because one mutex orders them. `Forwarder` opens up what it keeps
of the forwarder (answering on a port or not). `MasterSwitch` takes the engine as a
flag that routing turns on and off, and the tools as members that name Gate or do
not; `ToolSettings` opens up what naming Gate means for one tool. `Session` takes
the keychain as one cell, and `Keychain` with `SecretStore` is why it may.
`BearerRecovery` takes
the check of a session, which `Session` opens up, as one step with its outcomes.
`LoginItem` uses of routing only whether the machine points at Gate.

### DesktopManager

`guard` is `engine: Mutex<Option<RunningEngine>>` being `Some`, `lock` who holds
that mutex, `dormant` the other slot, `eng` the engine itself (it exists from
`engine::start` to the end of whatever takes it down, in the slot or not). An
operation is called by `Call` and runs through the labels in `pc`; one label is
one stretch of code whose effect another actor, or a kill, can follow:

- `enable` (`en*`): refusals, account read, CA trust and snapshot; forwarder and
  release of the parked engine; engine start; PAC; variables, slot and watchers;
  the re-check for an engine that died. The mutex is held throughout.
- `disable`, `disable_quiet`, `shutdown_engine` (`dis*`): take the engine and
  withdraw the variables; revert the system proxy; park or stop, clear the
  snapshot. A gateway switch then moves the account (`swAccount`), with no lock.
- untrust (`ut*`): look, stop, release the parked engine and the forwarder, remove
  the root, look again, stop again. The mutex is taken for the looks only.
- the crash callback of each engine (`cb`): wait for the mutex, or give up and
  defer to its holder; stand down for a parked engine; else stop, withdraw, revert.
- the forwarder watcher (`watcher`): look at the slot, ensure a forwarder, repoint
  the PAC under the mutex, export the variables after it.
- outside the manager: an engine or forwarder dies, the user edits the setting or
  the variable, the process is killed, the next launch reconciles.

`own` and `envOwn` are history: the last setting, and the last value of the
variable, that was not Gate's. They are what "give back" is measured against.

Joining a thread is a guard: a step that calls `stop()` waits until the callback of
that engine is over, except in the callback itself, which the code exempts.

Bounds inside the model: at most one engine that is in neither slot can have a
callback pending (`orphan`), so a second such death waits for the first callback.
`Faults` names what may go wrong; a constant, so that each run says which
failures it admits and each theorem which it does not need.

Left out, with the reason: credentials, domains and org pushed into a running
engine, and the domain watcher (they change rules, not custody); the routing
intent file (nothing in the manager reads it); port numbers of engine and relay; a
second Gate process on the same machine and its refusal by
`engine_hosted_elsewhere`, but for the branch where the ports are taken.

### Session

`store` is the keychain entry of the token bundle and `witness` the stamp in
`account.json`, shared by every process; a process has its own `gen`
(`SESSION_GENERATION`), `epoch` (`SIGN_IN_EPOCH`), `rejected`, `unstored`, `cache`
(`WITNESS_CACHE`), `refresher` and `last` (`REFRESH_LOCK` and what it holds), and
the bearer in its `engine`. A bundle is the serial of its access token with that of
the sign-in it descends from. One label of `pc` is one stretch of code between two
points where a thread can be held up, by a lock, the keychain or the network:

- `refresh_stored`: `begin` (rejection, generation and attempts), `look` (the
  unstored bundle, the cached read), `fetch` and `keep` (the keychain, and whether a
  write overtook it), `lock`, `post` (the identity provider), `granted` (is the
  session still the one renewed?), `store`, `publish` or, when the keychain refuses,
  `hold`. A first read, the one made again under the lock and the one after a refresh
  whose basis went away are the same labels with another `phase`.
- callers: `tick` (the refresh loop, which pushes for its epoch), `relay` (the
  command line's loop, which does not), `recheck` (`recheck_gate_session` with
  `reverify_session`: `judged`, `probe`, `verdict`, `mark`, `dead`, `drop`), `orgs`
  (`list_current`, with its second try).
- `signIn` (`login_waiting` from the code on, and `oauth_begin_login`'s push) and
  `signOut` (`clear`: the kept bundle first, then the keychain's in `signOutDelete`,
  the generation, the epoch; and `oauth_sign_out`'s push).

The keychain serialises its calls within a process, so a read or a write is one
step; the chunks of a secret are `Keychain`'s. Tokens expire in the order they were
issued. `over`, `served`, and `floor` and `over` in `loc`, are history: the sessions
that have been ended, the latest bundle a read returned, and both as they were when a
read began. Where the code gives up a kept bundle that was in force and the keychain has
an older one (`SignOut`, `Stamp`), `served` and `floor` keep the session and forget the
serial, so `ReadsMoveOn` then only says that no earlier session is read: see the
disagreements.

Left out: the browser half of a sign-in and its cancellation, API-key accounts, the
app-client check, the renewal forced after a clock jump, a gateway that refuses one
token of a session it still renews, and writes of `account.json` that are not
sign-ins. One of those matters: an organization or billing change moves the witness,
so a bundle held in memory because the keychain refused it is no longer served.

### BearerRecovery

`watch` is the token watch of the engine, `latch` and `cooling` are
`GATE_AUTH_CHECKING` and `GATE_AUTH_NEXT_ALLOWED`, `refused` is `REFUSED_BEARER`. A
bearer is the number of its minting, 0 the empty one that says signed out; `stored`
is what the keychain has.

- a request (`req`) is `send` while the gateway has it. A relayed one (`relay.rs`)
  waits after its first 401 and is then sent again; an intercepted one (`engine.rs`)
  cannot be replayed, so it waits before it is sent, if its bearer was refused before
  or is past its expiry, and only asks after a 401. `look`, `ask`, `swap`, `told` and
  `wait` are the turns of `recovered_token`: read the watch, ask the observer (the
  cooldown, then the latch), sleep until a push (`unseen`), the end of a check
  (`woken`, `ended`) or the deadline.
- a check (`phase`) runs on a thread of whoever took the latch: a request's observer,
  or a sweep that asks for the latch alone. `verify` decides, `push` puts the verdict
  on the watch unless a sign-in or sign-out came first (`stale`), and `cool`,
  `unlatch` and `wake` are the three writes of `gate_auth_check_finished`, in order.
- around them: the session loop's ticks, which push whether or not the bearer moved,
  sign-ins and sign-outs, the cooldown's end.
- in the Linux daemon (`linux`) the observer counts, answers that no verdict comes,
  and gives the latch back at once.

`joined` is history: the check a request found undecided when it was told to wait.

Left out: the race of a tick's or a verdict's push against a sign-in, which is
`Session`'s; the Linux shell's poll of the daemon's counter; API-key accounts; a
gateway that answers 401 for reasons of its own is any refusal.

### HelperDaemon

The daemon is its counter of clients, the flag `detached`, and an engine that is
absent, passing or armed; each connection is a server task of its own (`task` of a
process, `gone` the number of those whose peer has left, by what they have still to
do). A request is read and `detached` stored before the engine's lock is had, so
each is two steps, and a request may be served after its sender has gone. `enable`,
`disable`, a gateway switch, `status`, a push and the launch's reconcile run through the labels of `pc`; `lock` is the advisory file
lock (`op.lock`), which the kernel releases when its holder dies. On disk: the
snapshot and the drop-in in `~/.config/environment.d`. `Faults` names kills, a daemon
that dies, an engine that dies or cannot be started, answers that come late, a
drop-in that cannot be written or deleted, a CA that is not trusted, a control token
that cannot be read (`token`: the connection is given up, and the caller takes the
daemon for none) and a daemon still there after both waits because it could not be
killed (`stays`). A shutdown whose drop-in cannot be deleted goes no further than a
disable and answers with the error. `before` is history: that a shutdown met an engine
which it still owes to have ended; it is dropped when that very shutdown is refused
the token or cannot kill (`Excused`). A daemon of another build answers with its own fingerprint, or with nothing a client understands.

Left out: GNOME's own proxy keys, which are captured and restored with the drop-in;
what a configuration holds; ports; the authentication of a peer.

### Keychain

A long secret is cut into chunk entries, which a manifest in the base entry counts.
`set` and `delete` first `remove` what is there: the base entry, the chunks the
manifest counted from the last to the first, then whatever follows up to a gap;
`set` then writes the chunks in order and the manifest last, and takes the chunks
back when one is refused. Each label is one call to the store, which may be refused
or be the last thing the process does (`MaxCuts`). `Atomic` is the refinement of
`SecretStore`: a read finds a whole secret or none, and the only secret that appears
is the one being stored.

Left out: a refused manifest write that took effect all the same, which would tear
the secret, and a second process in the middle of a write.

### MasterSwitch

`on` is what names Gate (tool files, domain flags), and three files carry the
promise to the next process: families to bring back, members to leave off, tools
swept. One step is one file written; `job` holds `MASTER_FLOW_LOCK` and how far it
is. `want`, `held` and `blurred` are history: what was switched on last, what of it no
off-flow has read as off, and whether a death has ever left the families of an off-flow
on disk and not which of their members were off. `want` moves with the user's own acts
and with the reconcile's, never with a death.

Left out: installs and uninstalls; enabling a single provider by name (only tests
call it); the disconnect of everything at sign-out; a snapshot that cannot be
written; the recovery journal; the uninstall hook of Windows; a second process.

### SecurityFeed

A server publishes one or two decisions about a request; the task opens a stream,
catches up over HTTP, merges the page, oldest first, and delivers. The page is all the
history has from the boundary on, or, truncated, its newest events. Every await is a
boundary between steps, so that events are published, the account changed or the
connection lost at any of them. `behind` and `lost` are history: a connection whose
catch-up failed or that an account change went by, and the events that the history will
not be asked for again, because a truncated answer left them out or because a younger
one came on a connection that was behind, or during an account change.

The gateway is external: its history is taken to order events as its stream does, and
to answer with both decisions of a request.

Left out: the frame decoder, lengths of the backoff, `stop` (only tests call it), a
server that replays the gap itself, the grouping of notifications.

### LoginItem

On disk: the login item (a LaunchAgent) and in it the crash-restart policy, a marker
that it is there only for safety, the crash-restart record with its streak, the
routing intent. The main
thread runs the setup, the Settings toggle and the exit; the startup thread (`boot`)
and a routing command (`work`) run beside it; launchd starts the app at login,
and again after an unclean end while the policy is armed. Each file written is a
step, and a kill may come between any two.

Left out: a user who removes the login item in System Settings, and the restart
registration of Windows.

### Forwarder

Three threads call: `fore` (enable and the user's commands: `ensure`, `stop`,
`drain`), `watch` (the supervisory pass) and `cli` (`ensure`, `drain`). `job`, `plist`
and `agent` are launchd's: the loaded job, the file a login loads it from, the
process. The marker (wanted, draining, or absent) and the recorded port are files.
`ensure` is the marker, the restore of the agent's file, the probe, the retirement or
the adoption of what answers, the install, its health, a restart, the abandonment and
the direct start, each step a label; a login loses every process and loads what is on
disk. What can fail does: the marker's writes (`unmarked`: at the start, after a
retirement and after an adoption, which goes on without it), the agent's file and the
port's (`uninstallable`: the install is given up where it failed, with whatever it left
in launchd, for the direct start), an agent that never answers (`agent`), a drain that
cannot write its marker (`unwritable`). Two variables are history: `word`, what Gate was
last told and could record (an ensure whose marker is not there, or that was killed, is
not on record: `Unheard`), and `torn`, that an install has failed partway and no login
has since found the agent's file and the port on record agreeing.

Left out: the relay's port, tokens and the proof an old build lacks, a process
without the forwarder binary, Windows, a forwarder started directly that hangs.

### ToolSettings

One behaviour is about one tool. `disk` is its files, Gate's record (the sidecar) and
the stored choice of models; an operation is the list of writes it makes, each one a
whole file, and a kill or a refusal may stop it before any of them. Between two
operations the user edits a slot, picks another model inside the tool, or Gate comes
back on another port. `ClaudeCode`, `Codex`, `OpenCode`, `Hermes` and `OpenClaw`
are pure: `Connect(d, port)`, `Disconnect(d)` and `Leave(d)` are sequences of the
states of the files after each write. `own` is history: what the user last put into a
slot, before Gate or over Gate's value; `moved` says whether anything was changed by the
user, and only by the user, since Gate last settled the tool.

OpenClaw's `proxy.proxyUrl` and `proxy.enabled` are one slot, `url`: a connect records
and writes both, and a disconnect gives `enabled` back with the URL; a user who changes
`enabled` alone is left out. After a connect Hermes may be at a proxy line of the user's
own, which the connect keeps: `Aimed` accepts it, although its card says Drifted.

Left out: edits in the middle of an operation (`config_changes.rs` compares before
it renames and starts over; an instant between the comparison and the rename
remains); detection; the half of `status` that asks what is alive; the text of YAML,
TOML and JSON; `NO_PROXY`; the further model slots of a tool; a provider the user
called `gate-connect` themselves; OpenCode with no provider signed in; Codex's
refusal of a login; `env_proxy` and managed settings. A user who takes out a model,
a base URL or a catalog altogether is left out as well: the tools read that as
Gate's doing.

## Runs

| Run | Checks | Shows |
|---|---|---|
| `custody` | `Restorable`, `NotStranded`, `ExitIsFinal`, `NothingRoutesUntrusted`, `OneEngine`, `CustodySpec` | two threads, every operation of the manager, engines that crash, enables that are refused or fail at every step, kills: settings are restorable, given back exactly, never stranded; exit is final; untrust catches racing enables; `ProxyCustody` is implemented |
| `exports` | `OperationsEnd`, `CrashReverted`, `PacFollows` | variables exported, forwarders that die and move, under fairness: every operation ends, a crash is always reverted, the PAC follows the forwarder |
| `session` | `EndedSessionsStayEnded`, `RefreshesWhatStands`, `SignOutHonoured` | the refresh loop, a reader and sign-ins and sign-outs, refreshes without an answer, a keychain that cannot be read: an ended session is never stored, read or injected again |
| `session_live` | `RejectedIsRefused`, `ReadsMoveOn`, `OperationsReturn`, `EngineConverges` | revocations and rechecks, an identity provider without an answer, a keychain that fails before or after it removed what was there, under fairness: a renewed bundle is not lost to a later read, a rejection is about the session it was reached for, every caller returns and the engine converges to the session in force |
| `helper` | `NoOrphanedInterception`, `LaunchHeals`, `ShutdownEnds` | the app and a command line over one daemon, every fault: it never intercepts for nobody, a launch heals what a kill left, a shutdown that answers Ok has ended the engine it met unless it was refused the token or could not kill |
| `keychain` | `Atomic` | writes and deletes cut at any call: a read finds a whole secret or none, and none but the one being stored |
| `switch` | `NothingForgotten`, `NothingUnasked`, `ExitStands` | switch on and off, quits, retries, deaths between any two writes: nothing that was on is forgotten, nothing that was off comes back until a death parts the two records of an off-flow, no tool is put back after the exit sweep |
| `feed` | `NothingMissed`, `FeedReturns` | two organizations, changes of account, faults, requests decided about twice, truncated answers, a buffer smaller than what is published: a caught-up feed has every request but for the named losses, and the feed becomes live again |
| `recovery` | `NoLostWakeup`, `OutlastsCheck` | a relayed and an intercepted request that the gateway refuses, a sweep, ticks, sign-ins: a request never waits for a check that is over, and does not give up on a check it joined before that check has decided |
| `relaunch` | `Netted`, `ChoiceStands`, `LoopStops`, `StrandedHeals` | crashes, kills, logins and relaunches between any two writes: routing keeps its net, launch at login stays as the user left it, a crash loop ends, a stranded proxy heals |
| `forwarder` | `OneForwarder`, `PortKept`, `LetGo`, `Drained`, `Revives` | the app, its watcher and a command line over one agent, forwarders that die, hang or grow old, markers, agents and ports that cannot be written, logins, under fairness: a stop stands and a drain lasts for the session; where no install has failed partway, there is one forwarder, on one port, and one that is wanted and on record comes back |
| `tools` | `GivesBack`, `NeverDangling`, `Repairs`, `ChoiceHeld` | the five tools, connects, disconnects, choices, edits, picks and moves of the port, cut between any two writes: a disconnect gives back what the user last chose, no tool is left naming what is not there |

All runs pass. Defined and not run: the type invariants that the proofs prove
instead, `EnvRestorable` (`EnvKept` proves it), `Completed` (`Completion` proves it),
`OneHolder` (`LatchKept` proves it), and `HealthyEngineSurvives` and `ForwarderRevived`,
which the modules keep for a reader.

## Bounds

- `custody`, `exports`. Two threads are enough for every race the code speaks of
  (each is between one operation and one other, or a callback or a watcher, which
  are actors of their own); threads are interchangeable and `custody` uses them as a
  symmetry set, which is sound there because it checks no liveness. Two values for
  the user's own proxy (`off`, `corp`) and variable distinguish "given back" from
  "switched off". Two forwarder ports let a forwarder move. `exports` has one
  thread, because liveness needs the whole graph; callback and watcher still run
  against it. `custody` leaves out the variables, which `exports` has.
- `session` has three threads: a refresh in flight, a caller waiting for its lock
  and a sign-in or sign-out are the most that any sentence of `oauth.rs` speaks of.
  `MaxTokens = 3` allows a refresh and a sign-in on top of the first session, in
  either order, or two refreshes; `MaxEpoch = 1` one sign-in or sign-out.
  `session_live` has two threads and one token less, and every fault; a refresh or a
  sign-in on top of the first session is what its properties need. When the bound on
  tokens is reached the
  identity provider stops answering, so that no run ends for want of a token.
  `RejectedIsRefused` is claimed in `session_live` only: with one thread to refresh, no
  refusal of an earlier session can be in flight (see below, shared refusals).
- `helper`: the app and one command line, and two goings of a client or a daemon
  (`MaxGone = 2`): one that leaves something behind, and one while it is cleaned up.
- `keychain`: values of no, two, two and three chunks, so that a value of the same,
  of more and of fewer chunks follows another; three cuts.
- `switch`: a family of a tool that needs the engine and a domain, a family
  of a domain alone, a tool no family maps: the three shapes of the catalogue.
- `feed`: two accounts, two events, of one request or of two, two faults, two changes of
  account; the buffer keeps one event and the window of ids two, so both overflow or are
  at their limit. With three events the run passes too, in five minutes.
- `recovery`: one request of each kind and one sweep, so that each can wait for a check
  that another one started, and a first bearer and one more. A request starts a new
  check only when its last one is over. `NoLostWakeup` says as an invariant what
  liveness would: the graph is too large for that.
- `relaunch`: a limit of three unclean starts, as in the code.
- `forwarder`: two ports, the one kept and one to stray to. `ENSURE_LOCK` serialises
  the operations of one process, and those of the app and of the command line do not
  overlap (see below), so that it does not matter which of a process's threads makes a
  call: the app ensures and stops, the command line drains, the watcher supervises. What falls between the steps of an operation is a forwarder
  that dies, binds or reads its marker, launchd, and a kill.
- `tools`: two ports, two Gate models in sets of one and two, two models of the
  user's own, one public and one local route. Ports and the user's models are
  symmetry sets: the modules compare them and do nothing else with them.

## What the runs do not admit

Each module's `Faults` is a constant, so that a run says which failures it admits and
a theorem which it does not need. What is not admitted, because the code then does
not keep the properties, is described under "Known disagreements".

- `DesktopManager`: a revert that fails (`restore`), a PAC change that fails half-way
  (`pointPartial`), an unreadable snapshot, a launch of the command line that does
  not reconcile (`cli`), a setting edited while Gate holds it or while an operation
  is between its snapshot and its change (`override`, `lateEdit`), operations called
  while the startup reconcile runs (`earlyEnable`), variables that cannot be written
  (`env`).
- `Session`: `preempt`, a thread suspended for as long as a sign-in takes where a few
  instructions part a check from its use (the generation check from the store, which
  `oauth.rs` documents as "not caught"; the rejection of a verdict; the write-epoch
  check of a cached read). `MayLand` and `MayCheck` are exactly those windows. A
  second process is not admitted either.
- `LoginItem`: a revert that fails (`revert`), a crash-restart record that cannot be
  written (`unrecorded`), a suspension of a thread in the few file operations between
  one file's read and another's write (`preempt`), and a crash in the setup before
  the start is recorded (`early`).
- `MasterSwitch`: `pending`, a switch the user works while anything waits to be
  restored; `ExitHolds` proves `ExitStands` with it. A death between the record of the
  families and the record of which of their members were off is admitted, but
  `NothingUnasked` claims nothing after it (`blurred`).
- `Forwarder`: `slow` (a forwarder or a port not ready within the code's waits) and
  `cut` (a kill between a marker and the agent's file that goes with it, or in a first
  install between the agent and its port on record). An install that fails partway and
  a marker that cannot be written back are admitted, and are where three of the
  properties stop: `OneForwarder`, `PortKept` and `Revives` claim nothing from the first
  until a login finds the files agreeing (`torn`), and `Revives` nothing of a forwarder
  that is no longer on record as wanted (`word`). `LetGo` and `Drained` hold throughout.
  Each case is below.
- `ToolSettings`: `torn` (a cut between a tool's file and Gate's record of it, for
  the three tools where the first write alone looks like the user's) and `taken` (a
  connect over a value the user set later), and `mistaken`: a cut of an OpenCode or
  Hermes operation that leaves models recorded and not in the settings while a choice
  of models is stored, or about to be. A later read takes that for the user's doing
  and drops the choice, against `ChoiceHeld`; with no choice at stake these cuts are
  admitted.

## Fairness

- `DesktopManager` (`FairSpec`): every thread inside an operation and the watcher get
  their turn even when the mutex is contended (strong fairness: `std::sync::Mutex`
  wakes some waiter, and no thread holds it for ever); callbacks and a launch that
  has begun go on (weak). Nothing makes a thread call an operation, an engine die or
  a user edit.
- `Session`: a thread inside an operation gets its turn, also when the refresh lock
  is contended (strong), and the refresh loop goes on ticking (weak: it is a timer).
  Nothing makes anyone sign in, a token expire or a gateway refuse, and an outage may
  last for ever: `EngineConverges` asks only for what follows when ticks keep
  getting answers.
- `SecurityFeed`: the task goes on and a reset once begun is finished (weak); faults
  and changes of account are bounded, since `FeedReturns` is about what follows them.
- `LoginItem` (`FairSpec`): the main thread and the startup thread go on; a login
  keeps coming (weak), and a boot that keeps being interrupted gets through once
  (strong).
- `Forwarder` (`FairSpec`): a thread inside a call goes on, the watcher keeps making
  its pass (a timer), launchd binds, notices and releases (weak).

## Proofs

All hold for every value of the constants: any number of threads, clients, ports,
values, limits. `SessionProofs` and `GatewayProofs` each extend two components that
share no name; a theorem is about the specification of one of them, and says nothing of
the variables of the other.

`DesktopManagerProofs`

- `TypeCorrect`: `TypeOK`, with the fact that a watcher pass that found a forwarder
  knows its port.
- `LockInv` is the inductive core and needs no assumption on the faults: which
  steps hold the mutex (`Mutex`), that the slot is empty while a teardown or
  callback holds it (`Hosting`), that an enable past the release finds no parked
  engine (`OneInv`), and which engines can have a callback pending (`Engines`; a
  parked engine's never gets past the lock, because a parked engine and a routing
  one never coexist). It gives `MutexHeld` and `OneEngineOnly`; with one more
  conjunct each it gives `AlwaysWatched` and `UntrustLooksAgain`.
- `CustodyInv` adds `Quiet` (a process that is not up has nothing running) and
  `Custodial` (where setting and snapshot stand at every step): `CustodyKept` and,
  with what is pending after `disable_quiet` (`ExitInv`), `ExitKept`. They assume
  `Orderly`: none of the faults above that are a failed revert or someone else's
  change. Without the parts of `Custodial` about enables under way, `Restorable` is
  not inductive: a state in which an enable is about to set the PAC and the snapshot
  is not the user's satisfies it and steps out of it. `NothingStranded` is the part
  of it that says what an idle process leaves behind.
- `EnvKept`: the variables' record, assuming only that writing them does not fail.
- `ImplementsCustody`: from `CustodyInv`, each step is a step of `ProxyCustody` or
  leaves the setting alone; assumes `Orderly` and a readable snapshot.

`HelperDaemonProofs`: `NotOrphaned` is a counting argument. The counter is the
number of processes with a connection, as the cardinality of a finite set, and of
tasks whose peer has gone (`Counts`); an armed daemon that was not asked to stay
has one of them left, or a task between taking the counter to zero and disarming it
(`Guarded`). `TypeCorrect`. `EngineEnded` (`ShutdownEnds`): an engine runs in a daemon
that is up (`Living`), and what a shutdown knows at each label of the engine it met is
`Met`: ended, or still to be asked, or in the daemon it is about to put down.
`LaunchHealed` (`LaunchHeals`): as long as nobody else is about, what a launch has still
to do for the session and the drop-in is `Ahead`, `Back` and `Done` at its labels, and
at rest the two agree (`Resting`); it needs that the counting of `NotOrphaned` holds, or
the daemon could be disarmed behind the launch. All with every fault: a shutdown that was itself refused the token, or could not kill the
daemon, no longer speaks of the engine it met (`Excused`). The marker for
"no process" must not be a process (`QuietAssumption`), which TLC checks in each run.

`LoginItemProofs`: `NetKept` (`Netted`), `ChoiceKept` (`ChoiceStands`), `LoopsEnd`
(`LoopStops`), `PolicyKept` and `TypeCorrect`. What each needs of the faults is a
named assumption: `Prompt` (not `preempt`: `NetKept`, `ChoiceKept`), `Revertible`
(not `revert`: `NetKept`), `Recorded` (not `unrecorded`: `LoopsEnd`, `PolicyKept`),
`LateCrash` (not `early`: `LoopsEnd`).

`ForwarderProofs`: `StopStands` (`LetGo`) holds with every fault: one thread is inside
an operation (`Exclusive`), and a stop takes marker, job and file away in that order
(`Stopping`). `PortStays` and `OneAtATime` assume that what is waited for comes in
time (`Quick`, not `slow`) and that no kill parts the agent from its port on record
(`Whole`, not `cut`). Agents that cannot be installed and markers that cannot be written
are admitted; the invariant (`Inv`) holds unless an install has failed partway (`Safe`),
and a login that finds the files agreeing restores it from nothing but the types
(`LoginStep`). It adds that what
runs outside launchd holds the recorded port while launchd has nothing (`Outside`),
that the agent's file and job are for the port on record (`Recorded`), that what is
about to bind finds the port free (`Coming`), and what each label of a start may rely
on (`Placed`).
`DrainStands` (`Drained`) adds that after a drain there is a marker that says so, no
file, and nobody on the way to starting or stopping anything (`Draining`); also under
`Quick`, because a forwarder that comes up late may do so after the drain was recorded.

`GatewayProofs`

- `SecurityFeed`: `NothingIsMissed` (`NothingMissed`) and `TypeCorrect`, for any accounts,
  capacities and numbers of events, faults and changes of account, with no hypotheses.
  An event counts as shown when its request is, or when it is `lost`.
  `NothingMissed` speaks of one place of the task, after the page is merged; the
  invariant (`FeedInv`) says at each place before it where an event that is not yet
  shown still is: before the boundary it is shown (`Boundary`, `Asked`), from the
  boundary on it is in the answer to come, in the page or on the stream (`Paged`,
  `Reading`), and what is in hand comes after all that was shown (`InHand`), or a
  buffer that ends with it would be a boundary with a gap before it. `Remembered` is
  why an id that the window of ids turns away is not lost: it is remembered only once
  shown, and an account change empties the buffer before it forgets the ids. The
  buffer and the window may have any capacity: the argument does not need what they
  have dropped.
- `BearerRecovery`: `LatchKept` (`OneHolder`): the latch is set exactly while one
  check is in flight, so that two never force two refreshes at once and none leaves it
  set. A check that goes on keeps the latch (`GoesOn`), whoever takes it finds no holder
  (`Takes`), whoever releases it was the one (`Releases`). `WakeupsKept` (`NoLostWakeup`)
  and `ChecksOutlasted` (`OutlastsCheck`) come from one invariant about every request
  (`Sound`): a check that it has joined is still deciding, or has ended and has woken it;
  `Judged` says what a check that is past its verdict has done to the watch. Neither
  `NoLostWakeup` nor `OutlastsCheck` is inductive without it. No hypotheses.
  `RecoveryTypeCorrect`.

`MasterSwitchProofs`: `ForgetsNothing` (`NothingForgotten`), `ExitHolds` (`ExitStands`),
`AskedFor` (`NothingUnasked`) and `TypeCorrect`, from one invariant. `NothingForgotten`
is about three files and a job, so the invariant says who speaks for a member at each
step: while an off-flow is between its two records, the families on disk before it do
(`Pending`, `JobOff`), and during a restore those it has taken and not put back
(`JobRestore`); `Kept` is what follows for every member. `Wanted` and `Leaving` are the
parts for the other two. `ForgetsNothing` and `AskedFor` are about a user who works no
switch while a restore is pending (`Patient`); the invariant carries that as a condition
of its parts, as it does `blurred`, so that `ExitHolds` and `TypeCorrect` need neither. The assumption of all four
is about the catalogue, and is what
`providers()` (`provider.rs:64`) has: no member in two families, at most one tool in a
family (`FamiliesAssumption`). It is needed: in a catalogue with a family of two tools
that both need the engine, TLC finds `NothingForgotten` violated by a restore that is
cut between the two.

`SessionProofs`: what holds for any number of threads, tokens, sign-ins and sign-outs,
and what the secret store below it keeps.

- `TypeCorrect`: every fault, any number of processes.
- `RefreshesTheSession` (`RefreshesWhatStands`), for one process (`OneProcess`) without
  `preempt` (`Prompt`). The invariant relates three copies of a bundle, the keychain's,
  the one kept in memory and the cached one, to the generation a thread noted, and adds
  that two threads are not past the refresh lock at once.
- `ReadsGoForward` (`ReadsMoveOn`), under the same two: no hypotheses on who signs in,
  out, refreshes, judges or lists. That invariant says which copies are of one session
  and one renewal, not which is the later, so `Ranked` adds an order of bundles by
  session and serial, and what bounds all that the process has returned, judges its
  reads by or has just fetched (`Bound`): the keychain's bundle, unless a kept one stands
  (`StoreLeads`); the kept one, while no write waits to be published (`KeptLeads`); both
  between the two, which is why what is written is there (`Written`), and why where a
  bundle is kept after a sign-out has emptied the keychain that stays empty until somebody
  signs in (`Leaving`). A thread whose generation
  has not moved has a bundle of the latest session known, and what it was granted is the
  latest token issued (`Led`); so what is stored or kept next is a bound again
  (`RenewalLeads`). A bundle on its way from the keychain is not behind the floor of the
  read it is for (`Fetched`).
- `EndedStayEnded` (`EndedSessionsStayEnded`) and `SignOutsHonoured` (`SignOutHonoured`)
  also assume that sign-ins and sign-outs come from one thread (`OneHand`, the
  window's), and the first that nothing pushes for the command line's relay
  (`NoRelay`). The invariant (`Past`) goes by how far the sign-in or sign-out is: the
  keychain's bundle is past what it ends as soon as it is written, what rests on the
  generation once that has moved, what rests on the epoch once the epoch has.
- `Keychain`: `Refinement` is `KeychainSpec => Atomic`, for any secrets, sizes and number
  of cuts. The invariant says what the order of the calls is for: a manifest is only
  ever there over the whole of a value's chunks (`Whole`), because chunks are touched
  only while the base entry is empty (`Unnamed`) and the manifest is written when all
  of them are (`Writing`). `Completion` is `Completed`: a call that ends well did what
  it was asked. `KeychainTypeCorrect`.

`session` and `session_live` satisfy `OneProcess`, `Prompt`, `OneHand` and `NoRelay`.
None of them is there to get a proof through: with two hands, with a relay, with two
processes or with `preempt` TLC finds `EndedSessionsStayEnded` violated (in at most 17
states), with two processes or with `preempt` also `RefreshesWhatStands` and
`ReadsMoveOn` (in at most 12).

`ToolSettingsProofs`: for the two tools whose settings are in one file, Claude Code and
Codex (`tool \in OneFile`), and for any ports, models, lists of them and values of the
user's: `GivesBackAlways`, `NeverDanglingAlways`, `RepairsAlways` and `ChoiceHeldAlways`,
each for the property it is named after. An operation is a list of writes that a crash
may cut anywhere, so the proof carries one relation between the disk and the user's
values (`Legal`) that every disk on the way has: each of the user's values is in its
place, or Gate's is there and the record holds the user's. For each tool there is the
shape of its disk, its `Legal`, and one lemma per operation: what it writes and where it
ends. The invariant joins them: every disk still to be written is legal (`Settings`),
unless the user has moved something none of them names a model of Gate's without its
route, and none but the write of a choice changes the choice (`Steady`), and the last one
leaves a connect or a return to the user's models nothing to do (`Ends`). None of the
four properties is inductive alone: they look at what the next operation would do, and
only `Legal` says that of a disk in the middle of one. With every fault. What is assumed
of the constants is what the code has: the values that Gate writes and those a user has
are apart (`Apart`), no value is the absence of one (`NoRecord`), a list of models served
is a sequence of names and not empty (`SetsServed`). TLC evaluates all three in `tools`.

Only model-checked:

- Liveness under fairness, which the prover does not reach: `OperationsReturn`,
  `EngineConverges`, `FeedReturns`, `Revives`, `StrandedHeals` and the like.
- `RejectedIsRefused`. It is not a property of the app as a whole: with a second thread
  that refreshes, or with one that lists organizations, TLC finds it violated (in 21 and
  16 states, the first two disagreements under Session below). `session_live` shows that
  `dead_unless_replaced` gives it where one thread refreshes and judges and none lists.
- `ToolSettings` for OpenCode, Hermes and OpenClaw: Gate's record is a file of its own
  beside the settings, and a cut may leave one ahead of the other, so that `Legal` would
  need a case for each cut. The run leaves out the cuts that the tools do not recover
  from (`torn`, `mistaken`).

## Known disagreements

Where the code and what it, a comment or a test says part ways. The passing runs leave
these out, or the properties they check claim nothing after them; each was met while
modelling, and is described so that a reader can find it.

Manager:
- After a disable whose restore failed the snapshot stays, and the next enable
  records Gate's own PAC as the user's setting (`manager_core.rs:882`, `:459`).
- An exit or disable with no snapshot on disk switches off a proxy that is the
  user's own (`manager_core.rs:859`). A PAC change that fails after some services
  were changed is followed by a clear of the snapshot without a restore (`:689`).
- A launch with nothing recorded clears the user's own proxy variables
  (`system_proxy.rs:474`).
- The watcher exports the variables after it has let the mutex go: a disable in
  between leaves `HTTPS_PROXY` naming Gate with routing off (`manager_core.rs:1427`,
  `:1432`).
- An enable in the middle of a gateway switch leaves an engine on the old gateway
  (`commands.rs:557`).
- An untrust takes the parked engine out of its slot before it joins it
  (`manager_core.rs:268`): until then an enable starts a second one next to it.

Session:
- `list_current` marks a refused session without a look at the generation
  (`org.rs:173`): a sign-in between its call and the answer is marked rejected.
- A recheck begun after a sign-in shares the refusal of a refresh of the session
  before, and marks the new one rejected (`oauth.rs:904`, `:972`).
- After a sign-out in the app the command line's relay goes on with its cached
  bundle, because `account.json` does not move (`commands.rs:698`).
- An organization or billing change moves the witness: a bundle held in memory
  because the keychain refused it is no longer served. A sign-in's stamp does the same
  (`account.rs:390`).
- A sign-out drops the bundle held in memory (`oauth.rs:685`) before it deletes the
  keychain's (`:687`): until then a read gets the older one stored, and for good when the
  delete fails, against "a sign-out the store fails to carry out still ends the session"
  (`:683`).

Recovery of a refused bearer:
- `notify_gate_auth_observer` reads the cooldown before it takes the latch: a check
  that ends in between starts the cooldown, and the observer starts another check
  inside it (`proxy/mod.rs:742`, `:756`).
- A request that read the watch before a check pushed, and asks after it has ended,
  finds the cooldown and hands the 401 back although the watch holds another bearer
  (`relay.rs:1067`, `:1080`), against "a re-check is not owed twice".
- A request whose question spans the end of an earlier check is woken by that end, and
  gives up before the check it has started itself decides, against "a waiter still
  holding the refused token at that point has none coming". `OutlastsCheck` leaves
  these requests out: they join no check.

Linux:
- A push of credentials or domains arms a daemon that a disable from another
  process has just disarmed (`manager_linux.rs:525`, `:327`).
- A shutdown for a gateway switch answers Ok though the control token could not be
  read or was refused (`helper_client.rs:320`), or the daemon could not be killed
  (`:333`, `:359`): the engine goes on with the old gateway, against
  `manager_linux.rs:288` and "make sure it's gone" (`helper_client.rs:302`).
- A server task that found the counter at zero disarms after a new client armed
  (`helper.rs:186`). A failed `enable` clears the snapshot while the drop-in stays
  (`manager_linux.rs:226`). `force_clean_slate` writes without `op.lock`.

Keychain:
- A write that fails and whose clean-up fails too leaves pieces of the secret, and
  after a second failure nothing names them any more (`keychain.rs:397` against the
  comment at `:393`).

Master switch:
- Turning the switch off twice between two engine starts records the tools that need
  the engine as off (`provider.rs:1051` against `:1055`).
- The list of members to leave off stays after a partial restore and is taken for
  the user's at the next quit (`provider.rs:1717` against
  `tests/master_cycle_preserves_members.rs:222`).
- A kill between the two records of an off-flow (`provider.rs:1049`, `:1071`) leaves the
  families to bring back on disk and not which of their members were off: the next
  launch switches these on too, against `provider.rs:871`.
- A switch the user works while a restore is pending is not written down anywhere: one
  switched off comes back with its family, and one switched on can be left off by the
  list above.
- A quit while the engine is down records drifted Claude Code as off; a crash in the
  middle of a restore followed by a quit records half-restored members as off; a
  connect that lands after a park pass, or a routing-off during the boot, is undone
  by the boot's second restore; disconnect and domain-on are undone by a reconcile.

Security feed:
- "Events must not survive a switch" (`client.rs:107`): the reset does not close an
  open stream or a catch-up in flight, and their events go into the cleared buffer.
- A live frame already on the wire when history is merged is shown twice, under its
  other id (`client.rs:645`). After a failed catch-up a live event moves
  `newest_at`, and the next catch-up skips the gap.
- "One request records a decision in each phase, so two events can share a request id
  and collapsing them would drop a real event" (`mod.rs:82`); the catch-up is keyed on
  the request id (`client.rs:218`) and drops the second, be it in the same page or
  published while the feed was away. `NothingMissed` therefore asks for one decision of
  each request. What a truncated answer leaves out is logged and never asked for again
  (`client.rs:503`).
- A new sign-in with the same organization does not wake a feed that holds back after
  a refusal.

Launch at login:
- A failed `disable_quiet` at exit is only printed, and the login item is removed all
  the same. A crash-restart record that cannot be written leaves the policy armed and
  the streak where it was.
- A user who declined launch at login and whose app crashes: launchd relaunches it
  with `--silent`, and the pending marker makes it revert, deregister and exit,
  against `crash_restart.rs:27`.
- The health interval is measured from start to start. A crash in the exit, after
  the clean end was recorded, is relaunched with a streak of zero. A first run cut by
  a kill after an exhausted streak is armed again.

Forwarder:
- An ensure calls a drain off by writing the marker before it restores the agent's
  file (`forwarder.rs:831`): a kill between the two, or a caller without the binary,
  leaves a job with no file, and the next login loads nothing until Gate runs. The
  drain's fallback has the same window between marker and bootout, and retiring or
  adopting the same between removing the marker and writing it back.
- An install that fails, at the agent's file (`forwarder.rs:684`) or at the port's
  (`:698`), falls through to the direct start (`:883`, `:927`) without taking the agent
  away or waiting for its port: the agent may hold it, so there may be two forwarders,
  and the recorded port may move. A kill in a first install, before the port is
  recorded, leaves the same.
- A marker that cannot be written back after a forwarder was retired (`forwarder.rs:870`)
  or an adopted one was ousted (`:1106`) is gone: no forwarder is wanted any more, the
  supervisor starts none, and what runs stops, until somebody ensures one.
- The app and the command line at once may move the port, leave two forwarders or
  undo a stop (documented at `forwarder.rs:147`).

Tools:
- Hermes and OpenClaw: after the user edits a line Gate had written and a later
  connect writes its own, the record keeps the name and drops the value; a
  disconnect then goes by the name and removes the user's line, though
  `hermes.rs:667` says an edited line stays.
- OpenClaw: a user who removes Gate's CA line and connects again leaves Gate's line
  for ever, because nothing says Gate added it.
- OpenCode and OpenClaw: a connect over a base URL or proxy the user set later keeps
  the first snapshot and gives that back (`opencode.rs:771`).
- Between two writes: OpenCode forgets its record of Gate's models before it takes
  them out of `opencode.json` (`opencode.rs:721`); Hermes writes `.env` before the
  sidecar, and the next connect takes Gate's values for the user's; OpenClaw records a
  new proxy address before it writes it, and a disconnect then leaves the old one.
- A kill can cost the stored choice of Gate models. OpenCode records them before it
  writes the settings (`opencode.rs:721`, `:722`) and forgets them after a disconnect
  wrote the settings (`:750`, `:754`); Hermes saves its record after its config
  (`hermes.rs:648`, `:649`). What is left in between reads as the user's own move off
  the models, and the next connect or read of the cards drops the choice.
- Claude Code: a connect overwrites an edited slot of a Gate model other than
  `model` without recording it, against "unless the user has changed it since".

## Plan

Done: the modules above. Next, in this order:

1. `ToolSettings` proved for the three tools with a record of its own file.
2. Linux browser trust (`ca_linux.rs`): the anchor, the browsers' stores and the
   ledger of what was put where.
3. Liveness of `BearerRecovery` (a request that waits comes back) by a ranking that
   fits a smaller instance.
4. The relay's port handover; the Windows variants of forwarder and restart.

## Not modelled

Request rewriting, TLS and HTTP (`engine.rs`, `relay.rs`, `crates/forwarder`'s
connections): data handling with no state these properties are about. The text
editing of configuration formats. Windows, tray, notifications and the React views.
The updater, the installers and their hooks. Diagnostics, logging and redaction.
Those are the larger part of the source.
