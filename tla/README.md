# TLA+ models of Torhole

Torhole is a self-hosted DNS privacy stack: Pi-hole in front of dnscrypt-proxy
and Tor, in a *Home* edition (a small Compose project) and an *Advanced* edition
(several planes, monitoring, an admin UI, backup and restore). Third-party
containers answer the DNS queries. What this repository programs itself is the
control plane around them: a backup-manager with an HTTP API, shell programs on
the host, a temporary setup service, a watchdog, and three React applications: the
setup wizard, the Home dashboard and the admin UI. Its difficulty is not in
algorithms but in *who may act when*: threads of an HTTP server, shell scripts
with a kernel lock, containers that stop the container that started them, files
as messages, any of these killed half way; and in the browser, handlers that go on
after an `await`, effects, timers nobody cancels, answers that come late, twice or
never. These modules model that.

Paths below are relative to `src/pi-dns-warden/`; `server.py` without a
directory is `monitoring/backup-manager/server.py`, and a `.tsx` or `.ts` file is
under `monitoring/torhole-ui/src/`.

## 1. Inventory

| Component | State | Operations | Hard behaviours | What makes it correct | Module |
|---|---|---|---|---|---|
| Backup and restore: `ops/scripts/{_recovery,50-backup,60-restore,90-down}.sh`, `ops/lib/recovery_archive.py`, recovery handlers of `server.py` | flock `run/recovery.lock`, `backups/`, `restore-safety/`, the project tree, the volumes, the stack, `run/watchdog.pause`, a status file | back up, restore, delete an archive, validate the stack; probe of the lock | check-then-act on the lock, kill or failure at any step of a replacement that is not atomic, a helper container that outlives its killed restore, the restore stops the server that started it, settings saved meanwhile | one living recovery at a time; a torn tree has the copy its restore took; what is installed is what was checked | `Recovery`, `RecoveryProofs` |
| Settings: the config, setup, password, HTTPS and channel requests of `server.py`, `env_store.py`, `18-render-auth.sh`, `17-render-alertmanager.sh`, `25-apply-web-access.sh` | `.env`, certificate files, three rendered files, what the proxy has loaded, `_ENV_LOCK` | write, render, restart, roll back, activate later | several keys per request, renders that write `.env` too, failure at every step, a rollback that restores a whole file and may fail itself, a helper that runs after the answer | all of a request's keys or none; a rollback undoes its own change only | `Settings`, `AtomicSettings`, `SettingsProofs` |
| Snapshot cache: `server.py:2749-2780` | a snapshot with an expiry, two locks | GET a snapshot; rotations and leak tests drop it | a collection takes time while its parts change; waiting readers; an exception under the lock | bounded age; no going back; one collection for a herd | `SnapshotCache`, `SnapshotCacheProofs` |
| Prometheus watchdog: `ops/scripts/18-prometheus-watchdog.sh` | an outage file, a marker per channel | one run per minute | lost acknowledgements, retries over runs, channels switched on and off, a stop of the host | every outage is told once, and withdrawn | `Watchdog`, `WatchdogProofs` |
| Guided installation: `../install.sh`, `bootstrap/server.py`, `bootstrap/host_runner.py` | token file, container, request and status file, the page's status | start a session, Install, Finish, look, take, deploy, report | two terminals with one container name, posts that pass the same check, files left by an older session | the page says what happened; nothing is deployed twice; an old runner ends | `HostInstall`, `HostInstallProofs` |
| Setup wizard: `screens/Setup.tsx` | the step, the form, `install`, `busy`, calls on their way | choose, test, Install, poll, recover access details, Finish | effects that move the wizard, calls whose answer finds the step gone, the service removed under the page | the operator is never left on a step without a way on; a success was verified; following ends | `SetupPage`, `SetupPageProofs` |
| Home dashboard: `screens/Home.tsx`, `home-dashboard/server.py`, `control-helper/server.py` | the proof shown, `verifying`, `busy`, PIN dialog; running containers | verify, start/stop/restart Tor or Pi-hole | proofs from four sources, a proof collected while containers stop, a control that fails midway or outlives the dashboard's patience | "protected" was tested; its loss is seen | `HomeScreen`, `HomeScreenProofs` |
| Admin UI, polling: `lib/snapshot.ts`, `App.tsx` | snapshot shown, the request waited for, state of the buttons, timers | tick, refetch, give up, act | a request given up and answered later, a silent server, uncancelled timers, a screen that is left and opened again | never older than before; silence is shown; one quick action at a time | `AdminLive` |
| Admin UI, Operate: `screens/Operate.tsx` | list, creation, dialogs; preview and run; rankings | create, delete, restore; validate; load | rows that stay usable behind a dialog, handlers that end when their dialog is open for something else, lost answers, overlapping loads | nothing irreversible without a word typed since the dialog opened; a result is of the run asked for | `AdminBackups`, `AdminValidation`, `AdminInsights`, `ConfirmModal` |
| Admin UI, Configure: `screens/Configure.tsx` | the configuration, rows, banner form, files, password form, HTTPS, channels | edit, save, upload, change, enable, toggle, test | answers that replace the whole configuration, a file read late, one *pending* for all channels | drafts survive; success was written | `AdminParameters`, `AdminBanner`, `AdminCertificate`, `AdminPassword`, `AdminWebAccess`, `AdminAlerts` |
| Streams: `server.py:3284-3397`, `lib/snapshot.ts`, `components/LogPane.tsx`, `screens/Privacy.tsx` | cursor per plane, ring, buffer, pause | connect, send, append, pause, clear | reconnections that send again, one pane for all containers, switched while paused | each query once; a pane follows its container | `AdminFeed`, `AdminLogs` |
| Privacy verdict: `server.py:2700-2900`, `status_math.py`, `screens/Glance.tsx`, `screens/Privacy.tsx` | evidence, verdict, tiles | collect, show | evidence that changes during its collection | "routed through Tor" was seen, and no tile that bears the evidence disagrees | `AdminVerdict` |
| Scheduled backups, Pi-hole sessions, leak test, parsing of validation output, archive links, exporter, `torctl.py` | see `PROJECT.json` | | | | not modelled |

Not modelled: the parts of the last row, the renderers (text from `.env`),
`docker-socket-proxy`, the Ansible role, `get-torhole.sh` and static configuration.
`PROJECT.json` has the complete list with reasons; section 8 has the larger ones.

How the parts interact. The wizard talks to the setup service only; Home's page to
its dashboard, which asks the control helper. The admin UI polls the snapshot and posts settings and
recovery requests to the backup-manager. A restore request starts a container that
runs `60-restore.sh`, which stops the stack, the backup-manager included, and pauses
the watchdog with a file. `.env` is part of the project tree that recovery saves and
replaces, and settings write it under `_ENV_LOCK`, which recovery does not know.
The setup service and the host runner talk only through two files and share a token
with the launcher.

## 2. Modules and how they correspond to the code

`PROJECT.json` ("map") gives the lines of every definition. A program counter
(`pc`, `phase`, `at`) stands for a place in a handler or script; a step of a model
ends where another thread or process can see, or change, what it has done, or where it
can fail. Variables named *history* are not in the code: properties use them.

**`Recovery`.** A *job* is one handler or script. `Begin` is a request (`via =
"api"`) or a command line. Requests go through `recovery_busy` in two steps, because
the probe itself takes the lock and gives it back before the script starts
(`ProbeTakes`, `ProbeReleases`). `LockTaken`/`LockRefused` is
`acquire_recovery_lock`. A backup copies tree and volumes, writes to the final name
and validates (`CopyProject` … `ArchiveAccepted`). A restore extracts once into its
own directory, checks images, makes the safety archive, pauses the watchdog, stops
the stack (`StopStack` also ends the requests whose container goes away), empties and
copies tree and volumes, renders, restarts. `RestoreFails` is errexit at any of these;
`Finish` is the EXIT trap; `KillJob` and `HostCrash` run no trap (`Killable` and
`HostCrashes` say which of them an instance has). A restore that is killed at a volume
may leave its `docker run` helper behind (`KillLeavesHelper`): the helper is a container
of its own, holds no lock, and goes on to empty (`StrayEmpties`) or fill
(`StrayFills`) a volume beside whatever job comes next. *mixed* are the restores whose
volumes such a helper has written to meanwhile; *undo* (history) is the copy of the tree
that the restore which tore it had saved. `ConfigWrite`, `ServiceWrite` and
`StackStarted` are the rest of the system. A tree or volume is the version of its
content, or `Torn`; an archive is a payload, `Partial` or `Absent`.

**`Settings`** has a thread per request. `Begin` takes `_ENV_LOCK`, `Answer` gives it
back; between them come the writes, renders and rollbacks of each kind, each of which
may fail. A request writes one key or several (`Change`: HTTPS two, the setup wizard up
to four, of which the module has two). `RenderSucceeds`/`RenderFails` are
`18-render-auth.sh`. It writes `.env` itself, first the secrets that are missing, then
the scheme that goes with the mode (`Completed`, and `Completions` for a render that
stops between them), and the password before it looks at the certificate. A request
ends in one of four ways (`End`): *ok*; *failed*, refused or rolled back; *kept*, the
answer of a password change whose container did not restart; *broken*, by an exception
or by a rollback that failed too (`UndoEnv`, `UndoCrt`, `UndoKey`, `UndoChannel`,
`UndoAlert` each may). For the client the last three are errors. `Activate` is the
helper container that runs seconds after the answer; `CertExpires` and `RestartProxy`
may come at any time; `Kill` ends every thread. **`AtomicSettings`** is what the
endpoints promise of `.env`: a request changes all of its keys at once (`Commit`) or
none (`Drop`), and no others but those a render fills in. `Settings` implements it with
`env` mapped to *the file as the last request that is through left it* (`Committed`).

**`SnapshotCache`** reads the parts of a snapshot one by one (`ReadPart`) while they
change (`ChangeUnseen`, `Act`), so that a snapshot can mix versions. `Look`, `Acquire`,
`Recheck`, `Store` are the four blocks of `build_snapshot`; `ReadFails` is an
exception; `DropCache` the end of a rotation or leak test.

**`Watchdog`** is one script: `Probe` reads the configuration, asks Prometheus and
records the outage; each delivery has three outcomes (`Sends`): delivered, failed,
delivered but reported as failed; the marker is written in a step of its own, and the
host may stop between the two (`Kill`). *doubt* is history: the channels whose file and
last message may differ, because the acknowledgement or the run was lost or the channel
was switched off; the next message that is acknowledged, and its file, settle it.

**`HostInstall`** numbers the sessions as their tokens. `Rotate`, `Clear`, `Up`,
`StartRunner`, `Cleanup` are `start_wizard`; `Inspect` … `Report` one turn of
`run_loop` with `process_request`; `Arrive` … `SetRunning` one POST thread; `Shown` is
what the page is told. `compose up` and `compose down` act on the one container name,
whoever's it is.

**`SetupPage`** is the same installation as the browser has it. A call on its way is a
record: the service answers it in one step (`Answer…`) and the page hears the answer in
a later one, in any order, or never (`CallFails`). Leaving the last step unmounts it;
its calls are still answered, and what they set is ignored (`mounted`). The effects of
`Setup.tsx` that move the wizard are part of the actions that make them run. What
happens behind the service is `HostInstall`; here an installation runs and ends.

**`HomeScreen`** has the page, the dashboard's `proof()` probe by probe (`ProbeExit`,
`ProbeExitAgain`, `ProbeDns`, `ProbeBlocking`) for each request under way, and controls
that go through the containers one at a time (`ControlStep`). Containers also stop by
themselves and are given networks. *met* is history: what the containers allowed since
the proof was asked for.

**`AdminApp`** composes thirteen panels of the admin UI, each a module with its own
state, `Init` and `Next`: in the code a panel is a component with its own `useState`.
Panels share no variable. What they meet in is the server, and each panel's module
lets the server's state change by itself (`OthersWrite`, `OthersRun`, `Changes`, …),
which includes whatever another panel does to it. The one value that passes from panel
to panel in the browser, the configuration that `Configure` hands down, is an input of
`AdminBanner` and `AdminWebAccess` that may be any. A behaviour of the app is therefore
a behaviour of every panel with stuttering steps, and `AdminApp` follows one panel,
chosen at the start (`panel`): thirteen state spaces are added instead of multiplied.
`StepOfPanels` of `AdminProofs` proves the half of this that is not obvious from the
text: a step of the app is a step or a stutter of *every* panel, so that what is proved
of a panel's `Next` holds in the app.

- `AdminLive`: `useSnapshot`. A poll goes from asked to answered (by the server) to
  arrived; `Deadline` gives it up, and its answer may still come. `Run`, `Handle` and
  their ends are the quick actions and the other buttons; a timer is a number of
  `setTimeout`s that nothing cancels (`Timer`), the effect of `App.tsx` is `QuickTimer`.
  `Remount` leaves the screen and opens it again: the state begins anew, while what was
  under way goes on and its answers find no one.
- `AdminBackups`, `AdminCertificate`, `AdminPassword`, `AdminWebAccess` use
  `ConfirmModal`: a dialog is what it is about now (`target`), what it was opened for
  (`opened`), what it was opened for when its word was typed (`typed`), and whether it
  is running. The page behind stays usable, so a row can give an open dialog another
  target (`Retarget`) and keep its word, and the fields of a form change under one. A
  handler is a record with what it was confirmed for; its continuation after each
  `await` is a step of its own. The word "loading" of the list is `SaysLoading`.
- `AdminParameters`: a save is answered with the whole configuration, in two steps of
  the server (the write under the lock and the later read). `Follow` is a row's effect.
- `AdminBanner`: two PUTs one after the other (`put`, `written`).
- `AdminAlerts`: one `pending` for all switches, one list per answer, test timers; its
  header (`SaysLoading`), like the section of `AdminParameters` (`configErr`), says
  "loading" as long as there is no list, also after a load that failed.
- `AdminValidation`: the lock of the server, others' runs, the poll, the request.
- `AdminFeed`, `AdminLogs`: server and page of each stream, with the wire between them.
  `OpenLogs` opens a closed pane or turns an open one to another container, which keeps
  its pause.
- `AdminVerdict`: pieces of evidence change (`Change`) while they are looked at
  (`Look`); `Show` is the next snapshot; *met* is history. The status of Tor's container
  is looked at, too: the uptime tile shows it, and without a container there is no
  bootstrap (`Seen`), but it is no evidence of its own.
- `AdminInsights`: loads that overlap.

A page that is left unmounts its panel: its requests end like anybody's, its answers
are ignored, and it begins anew. `AdminFeed` and `AdminLive` have this as an action,
because what they show, or do not know of any more, spans two mounts; for the other
panels a new mount is a new behaviour from `Init`.

## 3. What each run checks and shows

| Run | Instance | Shows |
|---|---|---|
| `recovery_safety` | 2 jobs, 1 archive name, 2 tree versions, 1 volume version, room for 2 safety archives, kills of every job with and without its helper, a host crash (1.8 million states) | living jobs exclude each other; a torn tree has the copy that the restore which tore it took, torn volumes an intact one; what is installed is what passed the preflight; only a checked restore disturbs |
| `recovery_live` | 2 jobs, 2 volume versions, kills of every job but restores (290,000 states) | every holder of the lock ends or is killed; the watchdog is resumed on every path |
| `settings` | 2 requests of all kinds, 2 passwords, 2 values, 1 certificate, 1 queued helper, kills (330,000 states) | a request that is refused or rolled back leaves `.env` and certificates as they were; a successful one, or one that is kept, has all its keys written and nobody else's; however a request ends, `.env` changes as `AtomicSettings` says |
| `settings_login` | 2 passwords, 1 value, no kills | *violated*: a refused password stays in Authelia's file |
| `snapshot` | 2 readers, 1 operator, 2 parts, TTL 1, time 2, 1 change per part | age of answers, order of stored snapshots, one collection per herd, every request ends |
| `watchdog` | 2 channels, unbounded outages | markers are truthful, no message twice, the alarm of an outage that lasts reaches every channel, and is withdrawn |
| `host_install` | 2 sessions, 2 installations | a success on the page was deployed; each request at most once; superseded runners end; the page gets its answer |
| `setup` | 2 calls on their way together, 1 installation | only the admin of an installed system can be on a step without a way on; the first success shown was verified; the page does not follow an installation for ever |
| `setup_ready` | 2 calls, 2 installations | *violated*: recovered access details make a failed installation a success |
| `home` | 2 proofs under way, 1 control, all containers | the hero says protected of what was tested; proofs do not overlap; a protection that is gone is seen to be gone |
| `home_bypass` | the same | *violated*: a container given a way round Tor is shown as prevented from it |
| `admin` | 13 panels; 2 archives, keys, values, files, polls, quick actions, containers, planes; 3 channels, 2 of them configured; 3 passwords, 2 of them good; 2 requests, timers, reads and uploads together | nine properties, each of several panels: see below |

The properties of `admin`:

| Property | Says | Panels |
|---|---|---|
| `ConfirmedIsDone` | nothing is deleted or restored without a word typed since its dialog opened; an upload carries only files that the form names; a password that is written stands twice in the form | Backups, Certificate, Password |
| `SuccessIsSaved` | "saved" and "activating" are said of what the server has taken | Banner, WebAccess |
| `WorkIsUnderWay` | whatever says it works has a request under way that will end it, but for two places that say "loading" after a load that failed | ten panels |
| `DraftSurvives` | only typing changes a draft | Parameters |
| `OneActionPerButton` | quick actions started since the overview was opened do not overlap; a validation's result is of the run asked for | Live, Validation |
| `ShownNeverGoesBack` | no late answer replaces a newer snapshot | Live |
| `SilenceIsShown` | a server that stays silent is seen to be silent | Live |
| `StreamsShowTheirSource` | each query once; a pane that was not paused before its container was switched shows that container's lines only | Feed, Logs |
| `VerdictIsEvidenced` | "routed through Tor" was seen piece by piece, and is said exactly when every tile, row and check that bears the evidence is healthy (the uptime tile shows the container) | Verdict |

The violated properties are sentences of the repository's own documentation or
comments; section 6 lists them.

**Bounds.** Every hazard modelled is between *two* actors: two jobs that want the
lock, two saves, two readers of one cache, two launchers. That a third adds nothing is
not taken on trust for safety: the proofs of section 4 cover any number, in every
module. It is for liveness, where TLC is alone. One archive name is enough because jobs differ in
what the name holds, not in which name it is. `MaxSafety = 2` lets a second restore run on what the first has torn. TTL = 1
and time ≤ 2 let an entry be fresh, expire and be replaced; two parts are what a mixed
snapshot needs. `MaxQueued` only limits helpers that wait at once, and
`MaxServed` is one request after or beside the other. The
`Watchdog` has no bound. In `HostInstall` two installations make a request that meets
the file of an older one. In `SetupPage` one installation and two calls make every
meeting of answers with effects; a second installation only matters for what an older
receipt says, which is what `setup_ready` has it for (with it, the liveness property
takes too long for every run). In `HomeScreen` two proofs can overlap if nothing keeps
them apart, and one control can be under way while another is asked for. In `AdminApp`
two of each thing are what a mix-up needs (the archive of one dialog in another, a late
answer beside a newer one, a second container in the pane); `MaxRequests`, `MaxTimers`,
`MaxReads` and `MaxUploads` bound what is under way together, `MaxQueries`, `Batch`,
`MaxSize`, `MaxLines`, `MaxWire` the streams (a ring and a buffer that overflow), and
`MaxWorld`, `MaxRuns`, `MaxChanges` how often the world changes. The proofs of section
4 hold for every value of these bounds.

**Symmetry** is used for safety runs only, over constants no definition tells apart.
`CHECK_DEADLOCK FALSE` stands in `HostInstall`'s and `SetupPage`'s configurations
alone: when all sessions are over, or the browser has left the wizard, nothing is left
to do.

**Fairness.** `Recovery`: weak fairness per job, i.e. a process that has begun goes
on; nothing is assumed of the operators who begin jobs. `SnapshotCache`: weak fairness
of a thread's steps, strong fairness of the compute lock, because a Python lock is not
queued but is again and again free. `Watchdog`: the timer starts runs; `End` is
strongly fair because curl has a time limit and hosts do not stop in every run; a
channel that is tried for ever takes a message some time (its delivery is external).
`HostInstall`: the runner's loop goes on, the deployer ends and the launcher's trap
runs; nothing is assumed of the browser. `SetupPage`: the poll's timer fires, the host
ends what it was asked for, the service answers or the call fails. `HomeScreen`: the
interval comes, and a proof's probes, which all have time limits, end. `AdminApp`: the
interval and the deadline of `useSnapshot` come; nothing is assumed of the server or of
any button, because `fetch` is called without a time limit. `Settings` states no liveness:
`run_subprocess` has no timeout, so the code does not guarantee any.

In `recovery_live` every job but a restore may be killed (`Killable`), so `LockReleased`
and `WatchdogResumes` hold with killed backups, deletions and validations beside a
restore. A restore that is killed loses the lock like any other (`recovery_safety` has
it, and the next job takes the lock), but its pause file does stay, since no trap runs
after SIGKILL (`60-restore.sh:48`).

## 4. What is proved

Every safety property of the passing runs, invariant or action property, and the
refinement of `AtomicSettings` are theorems that `tlapm` checks for every number of
jobs, requests, readers, calls, sessions and polls, every set of archives, versions,
values and channels, and every bound. Each rests on the named assumptions of its
module alone, which TLC evaluates in the module's run:

| Assumption | Says |
|---|---|
| `RecoveryAssumption`, `SnapshotAssumption`, `SettingsAssumption`, `NoneAssumption`, `WatchdogAssumption` | the special values (`Torn`, `None`, `Nobody`, …) differ from the data; TTL and the number of parts are positive; what limits or switches is a number or a Boolean |
| `HostAssumption`, `SetupAssumption` | the bounds are numbers |
| `AdminAssumption` | the special values differ from the data, two kinds of buttons are different, the planes are a sequence, the ring holds a batch, there is at least one load |

The properties as they stand are seldom inductive. Each proof has an invariant that
is (`IndInv`, `IInv`, or one for each panel), which TLC checked on the instances of
section 3 before it was proved; it contains the types it needs.

*Recovery* (`RecoveryProofs`): `TypeCorrect`, `Exclusive`, `Recoverable`,
`MatchesStaged`, `CheckedRestoreDisturbs`. The invariant is

    IndInv == TypeOK /\ WorkInv /\ LockInv /\ SafetyInv /\ DownInv

`ExclusiveRecovery` alone is not inductive, since a job at work need not hold the
lock in an arbitrary state; `LockInv` adds that it does. A stray helper is not at work in
that sense: the theorem is about living jobs. `TornIsRecoverable` needs `SafetyInv`:
until a restore has replaced the tree, the copy it has *taken* is intact unless an
earlier restore has torn the tree already, and then *undo* is what that one took; a
stray helper's restore had sealed its archive. It does not say that nothing is lost: a
setting saved after the copy is in no archive (finding 4), and torn volumes have an
intact state of them, maybe an older one. `InstalledMatchesStaged` needs `DownInv`: the
stack is down from `90-down.sh` to the restart, therefore nobody writes but a stray
helper, and *mixed* has every restore whose volumes one has written to. `WorkInv` ties
a job's place to what its work directory holds. Each part has a step lemma over all
actions; `FinishOthers`, `StopOthers` and `Others` say once that a job does not
disturb the others.

*Settings* (`SettingsProofs`): `FailureAlwaysRestores`, `SuccessAlwaysApplies`,
`RequestsAreAtomic`. The properties speak of a request that has ended; what makes them
true lies in the steps before:

    IInv == TypeOK /\ LockInv /\ \A r \in Request : InPlace(r)

`LockInv` says that whoever is under way owns `_ENV_LOCK`, so that `InPlace` need only
be proved of the one that moves. `InPlace` ties each place in the code to the disk:
`KindInv` (which kinds of requests come there), `EnvInv` (whether `.env` is the old one
or has the whole change, with what a render has filled in: `Old`, `Done`), `UndoInv` and
`CertInv` (the copies that a rollback restores are of what the request found, and only
HTTPS requests touch the certificate), `RenderedInv` (which files follow `.env` by
then). A rollback that fails ends *broken*, at once or with *whole* cleared, and `.env` is
still in `Old` or `Done`. The lemmas on `Completed` and
`Completions` say that a render fills in its own keys alone, and that a second one adds
nothing new. `RequestsAreAtomic` is the refinement `Spec => AtomicSpec`: with `env`
mapped to `Committed`, every step of a request, a rollback included, is a stutter of
`AtomicSettings`, except the one with which it begins and the one that makes its result
final, which is a `Commit` or a `Drop` by `EnvInv`; a kill is one of these for the
request it ends (`EndCommits`, `HolderCommits`, `KillCommits`, `StepCommits`).

*SnapshotCache* (`SnapshotCacheProofs`): `TypeCorrect`, `Staleness`,
`DroppedStaysDropped`, `Monotone`, `HerdShares`. `CacheNeverGoesBack` rests on
`OwnerComputes` (only the owner of the compute lock collects) and `WorkIsNewer` (each
part it has read is at least as new as in the last snapshot stored); `HerdComputesOnce`
on `CacheIsLast` (the cache holds the last snapshot stored, unless dropped).

*Watchdog* (`WatchdogProofs`): `MarksAlwaysBelong`, `MarksTellTheTruth`,
`NothingIsRepeated`, and the action property `RecoveryIsAnnouncedAfter`.
`MarksAreTruthful` is about the time between two runs. `FilesFollowMessages` extends it
to a run under way: the file of every channel that is not in doubt is right but for the
one whose message has just been accepted, and that one knows which message. `TakesWhatIsDue` is why
nothing is repeated: an alarming run only has channels without a file before it, a
recovering one only channels with one. `RunsAreOnRecord` says that the outage file is
there before the first message and until the last file is gone.

*HostInstall* (`HostInstallProofs`): `SuccessIsAlwaysDeployed`, `DeploymentsAreAsked`.
A success on the page comes from a file, and the file from a runner: `SuccessIsReported`
says of both that the deployer of that request ended with 0, and `AdvancedIsRunning`
that the service never says so by itself. `NoUnaskedDeployment` is a count (`Owed`:
deployments begun, runners that have claimed a request, and the request file) against
the requests written. It is inductive, and its proof is about cardinalities: when one
launcher moves, the set of claiming runners gains or loses that one (`OneMoves`).

*SetupPage* (`SetupPageProofs`): `OneStepIsStranded`, `FirstSuccessIsTrue`.
`OnlyAdminIsStranded` is inductive with the types; the lemma `Orders` says which steps
each edition has. `FirstSuccessIsVerified` must follow an answer on its way:
`SuccessIsKnown` is that the service, a call's answer or the page tells of a success,
and `KnownIsVerified` that by then nothing is unverified, which needs `OnlyTheFirst`
(the running installation is the only one that may be) and `NothingBefore`.

*HomeScreen* (`HomeScreenProofs`), for any number of proofs and controls:
`ProofsNeverOverlap`, `ProtectedIsTested`. `ProtectedWasTested` is about the hero and
not inductive; `ProofsAreSound` adds that a proof which may still pass has met, since it
was asked for, all that its probes have seen, and `AskedIsVerifying` that a proof on its
way is the one `verifying` stands for.

*AdminApp* (`AdminProofs`). `StepOfPanels` reduces a step of the app to a step or
stutter of each panel, so each invariant is inductive for one panel's `Next`:

| Theorem | Invariant and why |
|---|---|
| `ConfirmedIsAlwaysDone` | `BackupsInv`: a word that an open dialog has was typed since it opened, whatever row it has been turned to (a handler that ends late can only close it); `CertificateInv`: a file's text is of the file whose name is shown, or missing; `PasswordInv`: while a request is under way the fields are locked and the dialog waits, so what the server compares is what the form shows |
| `SuccessIsAlwaysSaved` | `BannerInv`: the second write is on its way only after the first was made; `WebAccessInv`: at most one activation is the page's own, and while it is, the state is *running* |
| `WorkIsAlwaysUnderWay` | one invariant per panel. Most say that the request waited for exists and is the only one of its kind: `CreationIsAsked`, `SavesInv` (a row saves while a save of it is on its way), `AlertsInv` (*pending* has its request, and "loading" without one comes with the error), `ValuesInv` (so does that of the parameters), `InsightsInv` (the last load has not ended), `ButtonsInv` and `ValidationInv` (a state is *running* exactly while a handler is) |
| `ButtonsAreOneAction` | `QuickInv`: an action started since the overview was opened keeps the common state at *running*, which no timer leaves; `ValidationInv`: a request is waited for exactly while the button runs, and an answer has a later number than the last result at its start |
| `PageNeverGoesBack` | `LiveInv`: what the server has answered is nowhere newer than `served`, and the answer that is waited for is not older than the page; `Remount` keeps both |
| `DraftAlwaysSurvives` | `RowsInv`: every row has its three fields, so that a save or its end touches one of them |
| `StreamsAlwaysShowTheirSource` | `LogsInv`: wire and buffer are sequences of the pane's container; the screen is the buffer unless the pane is paused, and then the lines of one container; a closed pane is not paused; `FeedInv`: the ring and the screen are injective (`RingIsDistinct`, `AppendedIsDistinct`) |
| `VerdictIsAlwaysEvidenced` | `VerdictInv`: what was found healthy is in what was met; `TilesAgree` is a lemma about the operators, for any evidence and any status of the container |

*Only model-checked*: liveness, because the prover does not reason about `ENABLED` and
so not about fairness. These are `LockReleased` and `WatchdogResumes` (`Recovery`),
`EveryRequestEnds` (`SnapshotCache`), `AlarmArrives` and `OutageEnds` (`Watchdog`),
`SupersededRunnerEnds` and `DeploymentIsAnswered` (`HostInstall`), `FollowingEnds`
(`SetupPage`), `LossIsSeen` (`HomeScreen`) and `SilenceIsShown` (`AdminLive`).
`WorkIsAlwaysUnderWay` is the part of the admin UI's liveness that is safety: there is
a request that can end the work; that it does is up to the server.

## 5. Hazards without a property

`PROJECT.json` lists the hazards at their lines. Those without a property are of two
kinds. The code loses the race, and a property that says so is refuted outside the
listed runs (section 6). Or nothing in the repository promises otherwise: a row's
timer that makes its button idle under the next action.

Other such behaviours are in the models. A property either names them as its exception
or is not about them:

- *Recovery*: a probe of the lock that makes an accepted script fail; the recovery status
  as mere history; a stray helper that writes to the volumes of the next restore.
- *Settings*: a rollback that fails, after which the change may stay as a whole.
- *Watchdog*: a channel whose recovery arrived without an acknowledgement keeps its file
  and is not told of an outage that begins before the recovery has been repeated.
- *Setup*: Finish during an Install.
- *Dialogs*: a row behind an open dialog gives it another target and the word that was
  typed stays (`ConfirmModal.tsx:61-69` forgets it when `open` changes, and nothing keeps
  the focus in the dialog), so that a word typed for one archive can delete another; the
  fields of the password form change under its dialog; an upload
  confirmed in a dialog that was open when an earlier one was accepted lacks the key.
- *Buttons*: to leave the overview and come back makes the quick actions idle while one
  runs, and a second one overlaps it, against the comment at `App.tsx:648`; the timer of
  a creation makes the button idle under the next one; a refetch is dropped while a poll
  is under way.
- *Loading*: "loading" for ever after a failed load of the parameters
  (`Configure.tsx:1337-1342`) and in the header of the alert channels (1146-1149).
- *Logs*: a paused pane keeps the frozen lines of one container under the title of the
  next (`LogPane.tsx:37-45`); a reconnection repeats lines.
- *Tiles*: the uptime tile says degraded beside "routed through Tor"
  (`Privacy.tsx:315-319`).
- The result of the page's own validation hides later ones; a query the ring has dropped
  is sent again; an older answer replaces a newer configuration or ranking.

## 6. Findings

Listed, each with a run that expects the violation:

1. `Setup.tsx:1740`: recovering the access details after a failed installation shows
   the receipt of a success (`setup_ready`).
2. `home-dashboard/server.py:184`: bypass prevention is a constant (`home_bypass`).
3. `server.py:967`: a password change that is refused because its render failed after
   it had written `users_database.yml` (at the certificate, or on any later failure)
   leaves the new password there (`settings_login`). The docstring at 928 promises a
   restoration after any failure; the answer at 979-994, which keeps the change when
   Authelia does not restart, does not keep that promise either, as its comment says.

Stated and refuted as well, with configurations that are kept beside the listed ones
(`tlc -config X.cfg M` finds each in seconds):

4. `server.py:3611`: settings are saved while a restore has made its safety copy and
   not yet stopped the stack; they are in no archive (`SafetyHoldsReplacedProject`,
   `Recovery_safety_backup.cfg` of `MCRecovery`).
5. `50-backup.sh:20`: `if backup_to_archive` turns errexit off inside the function; a
   failed copy is reported as a success (`SuccessfulBackupIsComplete`,
   `Recovery_backup_complete.cfg`).
6. `server.py:489`: the activation helper of one request applies the unvalidated files
   of the next (`ActivatesValidated`, `Settings_activation.cfg` of `MCSettings`).
7. `server.py:2775`: a collection that began before a rotation is stored after it
   (`NextSnapshotSeesOperation`, `SnapshotCache_rotation.cfg` of `MCSnapshotCache`).
8. `host_runner.py:117`: a runner past its token check takes the new session's request
   or overwrites its status (`StaleRunnerKeepsOut`, `HostInstall_stale.cfg` of
   `MCHostInstall`).

## 7. Assumptions and limits

- Nobody runs `20-up.sh` by hand during a restore (`StackStarted` needs a free lock;
  the script does not look). Without it `DownInv` fails.
- `flock`, `rename` and `.env`'s replacement are atomic; a kill releases a lock. A
  command that outlives only its shell holds descriptor 9: to the model that is a kill
  after the command. The helper of a killed backup only reads and is left out.
- All volumes are one lump, which a restore replaces as a whole. In the code volumes that
  an archive does not have stay as they are, a helper works on one of them
  (`StrayFills` may make the lump whole or torn), and the renderers of a restore rewrite
  parts of the tree they have just installed. An operator's own `90-down.sh` is not in the
  model.
- Everything that writes `.env` outside the backup-manager (deployment, restore, scripts
  run by hand) takes no `_ENV_LOCK`; `Settings` assumes that none runs meanwhile. That
  the read-back after the rename fails (`update_env_keys`) is left out.
- `OutageEnds` is about channels that stay configured; one that is switched off loses its
  file with no message.
- Validation of inputs is one yes-or-no step per kind; texts, formats and file modes
  are not modelled.
- A step of the browser is what runs between two returns to its event loop, with the
  effects that React runs for it. Batching of several handlers into one render is not
  modelled: each handler sees the state of the last one.
- The type invariants of the modules (`TypeOK`) are part of the proved invariants;
  they and the invariants of the proofs can be added to the configurations, the latter
  with an MC module that extends the proof module.

## 8. Not modelled

- `Setup.tsx` 2119-2390 (`DoneStep` outside the bootstrap): `/setup` redirects to
  `/configure` once the setup is done, so it is never mounted.
- Charts, filters, sorting, the side bar, the theme, the About page and the animated
  flow: what they show is a function of what the models have.
- Scheduled backups and their pruning, Pi-hole sessions, the history of the leak test:
  small, but each rests on what a third-party program does with its data.
- Parsers (validation output, control port, archive links) and renderers: functions on
  text, which these models take as verdicts.
- Settings and recovery over one `.env`: each has the other as steps that may come at
  any time (`ConfigWrite` of `Recovery`, `Kill` of `Settings`).

