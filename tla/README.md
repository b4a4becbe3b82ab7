# InferenceRig in TLA+

InferenceRig is a local control plane for language-model engines: one daemon
owns at most one engine process, and a CLI, a TUI, a web UI and an MCP server
drive it through a Unix-socket RPC. This directory holds TLA+ modules that model
the parts of it whose correctness depends on interleavings and failures, the TLC
configurations that check them on small instances, and TLAPS proofs of the
properties that matter most.

`PROJECT.json` lists the components, the runs, the definition-to-source map, the
disagreements found between code and comments, the hazards, and the theorems.

## 1. Inventory

| Part | State it keeps | Operations | What is hard about it | What makes it correct |
|---|---|---|---|---|
| Runtime slot, `core/control/{slot,manager,operations}.go` | one slot (backend, process, address, profiles, state, owner), operation counter | start (replace), stop, restart, reset, status, shutdown | the lock is released during stop, spawn and readiness wait; a call is decided, done and committed at three moments | one owner, one engine, no abandoned reservation, a free slot means nothing runs |
| Profile writes and reload, `manager.go`, `reload.go` | profile files, generated preset, what the router read | put, delete, regenerate, reload | no lock orders the read of the profiles, the write of the preset and the reload | preset follows profiles, router follows preset, one place per profile in the held list |
| Recovery and autostart, `recovery.go`, `autostart.go` | slot, PID files | adopt, orphan, clear; start the autostart list | the previous daemon may have died anywhere | never two engines; what is signalled was started here or recognised |
| Supervisor, `core/runtime/supervisor.go`, `platform/pidfile` | pid, done channel, ready, PID file | start, stop, status, recover | the wait goroutine, PID reuse, cancelled contexts, failed signals | every engine is known to its supervisor or named by the PID file; a stop that succeeds left nothing |
| Downloads, `core/modeldownload` | jobs, active targets, partial files, job records | start, cancel, recover, resume | cancel against completion, restart, resume offsets, digests, a second daemon on the same files | a file that appears at its target is complete and verified |
| Documents, `core/configstore`, `core/profiles`, `platform/filedoc` | profile directories, config.yaml, model files | create, replace, merge, delete, apply, clean up, autostart list, repair | check-then-write between calls and processes, crash between two files | listing works; what is written loads; no edit is lost |
| Installation, `backends/installstate.go`, `llamacpp`, `mlx`, `strata` | state.json, versioned directories | provision, activate, retire, roll back | crash between directory moves and the state file | what is recorded runs; exactly two installs are kept |
| Generated-file import, `backends/llamacpp/{import,materialize,models_ini}.go` | models.ini, baseline | render, three-way merge | an edit on both sides, a write that failed between the two files | the result is the merge over the baseline found, a profile nobody edited stays |
| Events, journal, logs, `events.go`, `journal.go`, `platform/audit` | ring, subscribers, failures.jsonl, logs and archives | record, watch, compact, archive, follow, tail | full subscriber, torn lines, replacement between two reads | no gap between list and subscription; newest failures readable; no output lost, twice or joined |
| Catalog and models, `core/modelcatalog`, `core/rpc/fit.go`, `mlx/resolve.go`, `llamacpp/{host,fit,archcache}.go` | search cache, refreshes, watchers, snapshots, digests, memory cache | search, refresh, list by fit, resolve, fetch, verify | late answers, files replaced while parsed, under whatever time, a repository that moves | one refresh, no answer older than its question, whole snapshots |
| Daemon, `bootstrap`, `core/rpc/listener.go`, `platform/process`, `cmd/lifecycle`, `core/doctor` | socket, port, PID files, unit, installed command | serve, detached start and stop, set-up, upgrade, uninstall, diagnosis | two daemons, stale socket, recycled PID, replaced command | one server unless two starts cross, no stranger signalled, services come back |
| Clients, `adapters/{tui,cli,mcp,public_http}`, `core/rpc/control_service.go` | dashboard's snapshot, requests under way, confirmations | poll, key, request, answer; download command | answers in any order, tables that change under the cursor | what is confirmed is what was shown; the display catches up; the exit code is true |

Interaction: every adapter calls the control RPC; the RPC calls `Manager`; the
manager calls the backends (render, launch specification), the profile and
configuration stores and one `Supervisor` per engine it starts; every transition
is recorded through the audit sinks, which feed the event stream and the journal.
The daemon process wraps all of it; commands and the doctor see it only through
its socket and PID file.

## 2. Plan

All models, runs and proofs of the plan are **done**: every invariant and every action
property of a passing run is proved (section 5), from the assumptions on the constants
alone. Liveness stays with TLC.

1. `RuntimeLifecycle`, `RuntimeSlot`: invariants and refinement **proved**.
2. `Supervisor`: its four properties **proved**, for every set of faults.
3. `ModelDownload`, and `DuplicateStart` around it: ownership, publication, terminal
   states, records and stages **proved**.
4. `Install`: **proved**.
5. `Documents`, `Generated`: **proved**.
6. `Daemon`, `Console`, `Records`, `Catalog`: **proved**.

What a next step would be: a refinement between `Supervisor` and the two calls of
`RuntimeSlot` that use it, which today meet only in `StopMeansGone`; and the parts
listed in section 6.

## 3. The modules

- `RuntimeLifecycle` is the abstract specification: a transition begins when
  nobody owns the runtime, and ends in service (keeping the process or installing
  the one the owner spawned), with nothing, or stuck; shutdown takes everything
  away once.
- `RuntimeSlot` is the code: `core/control/slot.go`, the lifecycle calls of
  `manager.go` and `operations.go`, `reload.go`, what `recovery.go` leaves
  behind, and the daemon's `Shutdown`.
- `Supervisor` looks inside the two calls that `RuntimeSlot` makes on a process,
  `Runtime.Start` and `Runtime.Stop`: `core/runtime/supervisor.go`,
  `platform/pidfile`, and the recovery of one recorded engine.
- `ModelDownload` is `core/modeldownload`: the manager's maps, the goroutine of
  each job, the files and records on disk, and `Recover` in the next daemon.
- `DuplicateStart` puts a second daemon, started while the first serves, beside it:
  its manager is another instance of `ModelDownload` on the same disk.
- `Install` is `backends/installstate.go` and the installers of the three
  backends; `Documents` the profile store, the configuration store and the calls
  of `control` that write through them; `Generated` models.ini, its baseline and
  the import of manual edits.
- `Daemon` is the control daemon and the web gateway as processes, with the
  commands that start, stop, upgrade, remove and diagnose them. `Records` is the
  event store, the failure journal and the log files. `Console` is the clients
  and their calls. `Catalog` is the model catalog, what fits on the host, and the
  model files.
- The `MC` modules give TLC documents, releases, listings and the like, and the
  symmetry sets. `MCModelDownload` also restricts a behaviour to one
  target, and what may happen beside a second daemon.
- Eight modules hold the proofs, one for each of `RuntimeSlot`, `Supervisor`,
  `ModelDownload`, `Install`, `Documents`, `Daemon`, `Records` and `Catalog`:
  `RuntimeSlotProofs` and so on. Each extends its component's module, states the
  inductive invariant, proves it action by action, and derives the theorems.
  `DocumentsProofs` also proves about `Generated`, and `DaemonProofs` about
  `Console`; each takes the other module by `INSTANCE`, with variables of its own.

### State

`slot` is `m.slot`, with a record `NoSlot` for nil; `ops` is `m.ops` and an
operation ID is its number (0 for the empty ID). `store` is the profile
directory, `generated` the preset of each router backend as a set of
<<profile, model>> sections. An engine and the `Supervisor` that runs it are one
number, the operation that spawned it: `engine[e]` says whether it is running
and known ("live"), running although its supervisor forgot it ("lost") or gone,
`bound[e]` where it listens, `loaded[e]` the preset it read at start.
`call[c]` is one RPC handler: `pc` is the step it takes next, the other fields
are its local variables (the profile read, the materialization, the plan).
`published` is the last closing `runtime.transition` record. `down` and `victim`
belong to shutdown.

### Steps

A handler is split where the code releases the lock or touches something another
handler can change:

| Action | Code |
|---|---|
| `StartRequest`, `RenderStart` | profile read and materialization; write of the generated files |
| `ReserveStart`, `ReserveStop`, `ResetRequest`, `ReserveReload` | the critical sections that reserve |
| `StopEngine`, `SpawnEngine` | `Runtime.Stop`, `Runtime.Start` with all outcomes, lock released |
| `Respec` | `routerSpec`, which re-reads the first held profile |
| `Commit` (`CommitStart`, `CommitStop`, `CommitReset`), `Fail` | the critical sections that end the operation |
| `Announce` | the transition record made after the unlock |
| `PutRequest`, `Erase`, `WriteGenerated` | profile write and render, delete, regenerate |
| `TakeDown`, `StopVictim` | `StopAllRuntimes`, then the HTTP server's shutdown |
| `EngineExits` | an engine ends by itself (external) |

`Init` has every outcome of `RecoverRuntimes`: an empty slot, an adopted engine
holding all profiles of its group, an orphaned slot whose supervisor knows the
survivor (unhealthy, port occupied) or does not (mismatched executable).

### Supervisor

The manager makes a `Supervisor` for each start and each recovery; they are
numbered by `gen`, and `sup` has the fields of the last one (`pid`, whether it
has a `cmd`, whether a value waits in `done`, `ready`). `sup.who` is a ghost: who ran
under `pid` when it was recorded or recognised; `sup.lost` says that the number has
been given to another program since. `proc[p]` is the machine's process table:
nobody, the engine of supervisor g, another program (`Other`), or a process that is
no engine of ours but runs the same executable in a group of its own (`Twin`); a
dead child stays a zombie until its goroutine reaps it. Recovery compares the
executable and the process group and nothing else (`identity.go:17-38`,
`supervisor.go:157-168`), so it takes a twin under the recorded number for its
engine. `file` is the PID file,
`waiter[g]` the goroutine of engine g, `call` the step the Start, Stop or Recover
call is at, `held` what the manager's slot says afterwards. There is one call at
a time because `RuntimeSlot` shows one operation between reservation and commit
and the supervisor has its own mutex; status calls, goroutines, engines and other
programs interleave with its steps.

| Action | Code |
|---|---|
| `Launch`, `Spawn`, `WritePID`, `WaitReady` | `start`: a new supervisor, `cmd.Start`, the record, `waitReady` |
| `StopCall`, `StopCheck`, `Cleanup`, `Interrupt`, `Await`, `Kill`, `Forget`, `Unlink` | `stop` and `stopProcess` (also the rollback of a start), with both `isRunning` calls and the two steps of `File.Remove` |
| `Reap`, `WaiterRemove`, `Report` | the goroutine: `cmd.Wait`, removal after the record was written, `done` |
| `StatusCall` | `statusLocked` |
| `Recover`, `RecoverProbe` | `Recover` and the state `recoverGroup` gives the slot |
| `Crash`, `Restart` | the daemon dies between any two steps; the next one recovers |
| `EngineListens`, `EngineExits`, `OtherStarts`, `OtherExits` | the machine (external) |

`Faults` names what may go wrong in a run: a failing fork ("spawn"), record write
("write", which may leave a file that does not parse) or signal ("signal"),
expired or cancelled waits ("timeout"), a replaced executable ("mismatch"), the
daemon's death ("crash"), and a PID given out again while the daemon runs ("reuse";
while it is down numbers are reused anyway). A goroutine of an ended engine may read
and remove the PID file at any later moment, beside the next engine's start.
`excused` collects the engines without a record that anyone could find them by: a
stop of theirs failed, their record was never written or was removed by the
goroutine of an engine before them, or recovery does not recognise them.

### ModelDownload

`jobs`, `active` and `req` are the manager's maps, `work[j]` the goroutine of job
j (its step, how much it has counted, the version it is being sent, whether its
context is cancelled, how `execute` ended); `rec`, `part` and `target` are on
disk and survive a crash. `part[t]` stands for `TargetRoot.part`, the partial
file or the staging directory. A file is how much of it there is and of which
version, or `Mixed` when bytes of two versions, or bytes with a gap, are put
together; the digest check compares exactly that. `fetched` and `stale` are
ghosts: jobs that renamed what they fetched, and jobs a record of which could
not be written.

| Action | Code |
|---|---|
| `StartCall`, `StartHave`, `Launch` | `Start` (the check before the lock) and `launch` |
| `Cancel` | `Cancel` |
| `Queued`, `Begin`, `Finish`, `Save`, `ClearActive` | `persist` in `launch`, then `run` from its first update to its deferred calls |
| `Prepare`, `Get`, `OpenPart`, `Copy`, `Stopped`, `Verify`, `Swap`, `Rename` | `executeFile` and `executeDirectory`, `downloadItem`, `resumeOffset`, `writeBody`, `verifyDigest`, `finalize` |
| `Crash`, `Restart`, `Recover` (`Reconcile`) | the daemon dies; `Recover` takes the records in ID order |
| `UserDeletes`, `ServerChanges` | the world (external) |
| `SecondStarts`, `SecondRecovers`, `SecondWorks`, `SecondEnds` | `bootstrap/service.go:109-127`: `downloads.Recover` of a start that then finds the socket taken |

One Start call is between its check and its launch at a time: both are decided by
the one critical section of `launch`, so a second such call adds no outcome. The
snapshot and the write of `persist` are one step, because a later persist of the
same goroutine follows every one that a cancel can overtake. Items of a
directory are one body. The digests recorded
for what was fetched are in `Catalog`.

`bootstrap.NewService` recovers the downloads (`service.go:112`) before
`rpc.NewServer` probes the socket (`service.go:124`). A start that is about to find
the socket taken therefore goes through the records of the daemon that serves, and
resumes its partial files. `DuplicateStart` has such a second daemon: it lists the
records there are (`listed`), recovers them one by one, its goroutines work as any
daemon's do, and its process ends at any point. `met` remembers that there was one.
What holds from then on is what each daemon knows of itself (`ActiveIsBusy`, and that
a cancel ends); what speaks of the disk holds until then.

### Install

One engine root: `state` is state.json (active and previous record), `disk` what
each versioned directory holds, `op` the call that holds the installer's mutex,
`kind` which of the three backends `kind` which of the three backends it is. `left`, `torn` and `cut` are ghosts: the
directories of calls that failed or were cut short, those removed for a replacement
that did not arrive (the removal or the rename failed, `install.go:237-242`, or the
daemon died between them), and whether a call retired an install and did not record
its own. `Releases` is what upstream publishes,
with archives that are refused, digests that do not match and builds that do not
run.

| Action | Code |
|---|---|
| `InstallCall` (`Begin`, `Already`, `FirstStep`), `RollbackCall` | `InstallBackend`, `RollbackBackend`, the three `install`, `RollbackInstall` |
| `Fetch` (`AssetOK`, `ExtractOK`, `ExecutableOK`), `ProbeStaged`, `RemoveOld`, `Rename` | `provision`, the fetcher, the archive, `activate` |
| `Clone`, `Environment`, `Pip`, `ProbeInPlace` | the backends that build in place |
| `Retire`, `WriteRecord`, `Swap`, `Return` | retention, the document, the answer |
| `HostChanges`, `Crash`, `Restart` | another accelerator; the daemon dies between any two steps |

### Documents

`store[n]` is a profile's directory (absent, empty, or its document), `config`
is config.yaml, `models` the model files, `mu` the two mutexes, `op[c]` a
handler. Calls are split where the code leaves a mutex or passes through a state
a crash can expose: `Look`, `Create`, `Write`, `Replace`, `Stop`, `Erase`,
`RemoveDir`, `AfterDelete`, `Unlink`, `NextProfile`, `ReadConfig`, `SaveConfig`;
`Repair` is the doctor, a process of its own; `HandEditConfig` and
`HandEditProfile` are a user; `Restart` loads the configuration and validates the
autostart list. A write, a removal (`RemoveDir`, `Unlink`) and the sync of a
directory after the rename may fail, each where the code returns. A document is whether it validates, its backend, address, source
and the rest that a merge must keep.

### Generated

`prof`, `ini` and `base` are the files, `op` the one handler at work (handlers at
once are `RuntimeSlot`'s). `gen` and `hand` are ghosts: what was last put at
models.ini, and the profiles whose section was edited since. `Torn` says that the
baseline is not the one of that file, after a death or a failed write between the
two. A start
imports (`ImportGenerated`, `ReplaceOne`), renders (`Materialize`) and writes the
file and then its baseline (`WriteIni`, `WriteBase`); `PutCall` and `DeleteCall`
regenerate. `Import`, `HandKeys`, `Clashes`, `Adopted`, `Adopt` are the code's
merge; `Merge` is the reference it is checked against. Aliases, model paths and
scalars go through their conversions (`Canon`, `Scalar`, and `PathOf`, the file that
a source and a reference name together; an import sets the source and keeps the
reference).

### Daemon

`proc[p]` is a process: which service or program, at which step, from which
inode of the command, whether it was signalled, whether it listens. `sock`,
`port` and `pidf` are what clients find; `cl[c]` is the command at a terminal.

| Action | Code |
|---|---|
| `Probe`, `Listen`, `WritePID`, `PrepareFails`, `Autostart`, `Serve` | `NewService`, `removeStaleSocket`, autostart, `Run` |
| `Drain`, `Close`, `RemoveFiles` | `Shutdown` |
| `Register`, `Bind`, `Leave` | the web gateway |
| `Check`, `Spawn`, `Record`, `Watch`, `Halt`, `AwaitGone`, `Status` | `StartDetached`, `watchStartup`, `StopDetached`, `StatusDetached` |
| `Ask`, `Await`, `Wizard`, `Survey`, `Install`, `Disable`, `Purge` | terminal UI start, set-up, upgrade, uninstall |
| `Look`, `Reach` (`PidVerdict`, `PortVerdict`, `ReachVerdict`) | the doctor's checks |
| `UnitInstall`, `UnitStart`, `ByHand`, `Kill`, `Recycle`, `Replace` | the host |

One daemon's start may run into another's start or end: two that find the same
stale socket can both pass their probe, and a daemon on its way out removes the path
of its successor. `crossed` is history: the daemons to which that has happened.
A stop may fail (`Halt`). What a duplicate start does before its probe is
`DuplicateStart`'s.

### Records

Three independent parts in one module: events (`EventRecord`, `Publish`,
`SubscribeAndList`, `WatchSend`, `Unsubscribe`), the journal (`JournalRecord`,
`CompactTruncate`, `CompactRewrite` and their failing forms), and the log of one
service (`Write`, `ArchiveLog`, `CopyAndDelete`, `RemoveSource`, `InitLogFile`;
`WatchLogs`, `FollowPoll` with `ReadNewLines`; the tail operators; removal of
archives). A log is a sequence of numbered cells, so that a line put together
from two files, a repetition and a gap can be told apart. The code's scans, for
the entries of the journal that decode and for the ends of a log's lines, are
one recursive function, `Chosen`. `since`, `cleared` and
`follow.blind` are ghosts.

### Console

`world` is the daemon as its calls change it; `dash` the dashboard, `poll` the
poll under way (whose list of downloads is the dashboard's own slice until one of
them is replaced), `fetch` the catalog request, `rpcs` the requests whose answers
are still to come, `cli` the download command. `Tick`, `Refresh`, the steps of a
poll, `PollAnswers`, `CatalogAnswers`, `Key`, `PageKey`, `RefreshKey`, `Serve`,
`ActionAnswers` are the messages of the event loop and the goroutines between
them; `AnyCall`, `McpTool` and `RpcCommand` are calls of others;
`DownloadCommand`, `CliAsks`, `CliHears`, `Interrupt` the command.
`Sessions` lists what a user does in one behaviour, so that sessions add up
instead of multiplying. `y` sends a request with `confirm` set and puts no question;
`esc` and `enter` end a search begun by `/`. A download of a target that is being
fetched, or is there already, answers with the job there is.

### Catalog

`uses` names the part a behaviour exercises: searches (`Search`, `Claim`,
`Fetch`, `Store`, `SearchFails`, `Publish`, `Release`, `WatchModelCatalog`),
listings (`ListModelCatalog` with host probes, variants, fit, filter and order),
files (`Download`, `Finalize`, `DeleteLocal`, `Copy`, and the memory cache's
`Stat`, `Lookup`, `Parse`, `Put`), or snapshots (`Resolve`, `FetchItem`,
`FinishSnapshot`, `FetchFails`, `DeleteSnapshot`). The parts share the clock, the
files and `Restart`. Sizes are small numbers; the thresholds of fit are the code's
inequalities over them. A file may be copied to its place under any time, also one no
newer than it had (`mtime`; `rewound` remembers the files that were). `ListModelCatalog` is the code's scan of a model's variants,
filter (`Keep`) and stable sort (`SortCatalog`: by fit, by score, or in the order
given, as the request asks); `ListingIsBest` says by quantifiers
what must come out of them.

### Abstractions of RuntimeSlot

- A document is its backend, address and model. Formatting of the preset, YAML,
  argument lists and messages are left out.
- `importGenerated` is the identity: manual edits of the preset are `Generated`'s.
- The profile write and the materialization of the same call are one step, and
  so are the comparison with the file on disk and its replacement.
- The transition records made on the way (stopping, starting, activating) are
  left out; the closing ones are kept.
- `activate` may fail without consequence in the code, so it changes nothing.
- A stop that fails leaves the engine dead or lost; a start that fails leaves it
  dead or lost (its rollback is the same `stopProcess`).
- Status calls change no state of the manager. In `Supervisor` a status call is made on
  the slot's supervisor; one that took an older supervisor from the manager before the
  slot changed, and asks it late (`manager.go:449-472`), is not modelled.
- The preset is current when the daemon starts.

### Bounds

`MaxOps` caps the number of reservations: a call past it is turned away as by a
conflict. Two callers are enough for every race of two handlers with each other
and with shutdown and engine exits; two profiles make a shared router, a router
next to an exclusive backend, or two exclusive profiles; two addresses and two
models tell a changed document from an unchanged one. Three reservations allow a
transition, a concurrent one turned away or following it, and a third that meets
what they left; `slot_lifecycle`, which has every kind of call, has two beside the
engine that recovery adopted. Symmetry (callers are interchangeable) is used only in runs
without liveness properties.

`MaxGen` caps the supervisors made (daemon restarts and engine starts together).
Three allow an engine, a crash and its recovery, or three engines after each other,
the goroutines of the earlier still at work; two PIDs are enough for two engines, or an engine and a
stranger that holds its port or its old number.

`MaxJobs` caps the jobs ever started; two meet each other at one target, one
before and one after a crash, or one finished and one interrupted record. Jobs of
different targets share nothing but the maps, so a behaviour of the run has one
target, a file or a directory; directory jobs are checked there while the daemon
stays up and the server does not change (`download_dir.cfg` has their recovery). A
second daemon is started at most once, for a file, beside a daemon that stays up,
where nobody deletes the file, the server stays with its first version and ends no
transfer early (`MCModelDownload`): the theorems have none of these limits. `Size` 2
makes a partial file that can be resumed.

| Run | Bounds | Why they are enough |
|---|---|---|
| `install` | 4 calls, 3 good releases, one that does not run, one refused, 2 accelerators | three generations and a rollback; two directories of one version; a replacement that fails and what follows it |
| `documents` | 2 handlers, 3 calls, 2 profiles, 1 model under two source names | every pair of calls, with a third that meets what they left; sharing through two names |
| `generated` | 2 interchangeable profiles, an aliased and a plain key, 2 values of which one is read back as the other, a repository and a path with a reference, 2 edits or profile calls | an edit on each side of one key, an edit after a death between the two files, an adopted model beside a reference |
| `daemon` | 3 PIDs, 1 terminal, 2 commands, 2 faults | two services and a stranger or duplicate, three daemons whose starts cross; a command against what is started by hand, as a unit, or killed |
| `records` | 2 operations, 4 events, ring 2, channel 1, journal 1, 6 cells in 2 files, chunk 2, cap 4, 7 acts in all | ring, channel, journal and both read limits are exceeded |
| `console` | 3 profiles on 2 backends, 2 jobs, 3 acts of a session, 1 failing call | a question, a change by another client, a confirmation or its key at once; a request of the command and the answer to another |
| `catalog` | 1 key, 2 catalog versions (4 of a repository), clock 2, 4 calls, 1 fault; 1 file with 2 contents and as many times as calls; listings of 2 models with up to 2 variants on 4 hosts | two searches and a refresh of one key; sizes on both sides of each threshold |

### Fairness

In `RuntimeSlot`, weak fairness of each handler's steps and of the end of
shutdown. It is justified because every blocking call in a handler is bounded:
readiness by `ReadinessTimeout`, stop by `StopTimeout` and one more second after
SIGKILL, and a request holds the lock only for assignments. Clients are not
obliged to call, engines not to exit or to fail. In `ModelDownload` fairness is
for a job's own steps and for the end of a transfer whose context is cancelled;
the server owes nothing, because the HTTP client has no timeout. In `Console` the
ticker ticks, a poll's calls end (its context has a timeout of two seconds), the
catalog answers or fails (its HTTP client times out), and requests are served and
answered (the daemon's handlers end, by the above); keys and other clients owe
nothing. The other modules state no fairness.

## 4. Runs

`RuntimeSlot`, `Supervisor`, `ModelDownload`:

- `slot_lifecycle`: every lifecycle call, deletion and shutdown, two reservations
  among them; failing stops and I/O, engines that exit, an adopted engine.
  `SingleOwner`,
  `OneEngine`, `FreeSlotMeansNoEngine` and the refinement of `RuntimeLifecycle`.
- `slot_router`: two profiles in one router process while a client writes
  profiles; failing starts and stops, an orphaned engine. `HeldOnce`,
  `FreeSlotMeansNoEngine` (no slot is dropped with a live process when the last of
  the two leaves) and, under fairness, `TransitionsEnd`.
- `slot_delete_races` (expected violation): a start that read the profile before
  its deletion serves a profile that no longer exists; the finding in
  `PROJECT.json`.
- `supervisor`: `EngineIsAccountedFor` (the supervisor or the PID file knows every
  running engine), `OneEngineAcrossRestarts`, `OnlyKnownSignalled` (a signal reaches
  what was started here or what recovery compared, until its number is another's), and
  the action
  property `StopMeansGone`, which is what `RuntimeSlot`'s `StopOK` assumes. The
  daemon crashes at any step; deadlock is checked, `AtBound` being the only place
  where nothing more can be made.
- `download`, with a second daemon: `ActiveIsBusy` and, under fairness, `CancelEnds`
  within the serving daemon throughout; `RecordsAgreeAlone` and `PublishedAlone` until
  the second one is started.

The others:

- `install`: `RecordedIsProbed` (only what answered a probe becomes active, by
  install or rollback), `RetentionIsExact` (active and previous are on disk and
  nothing else is, but for what failed and interrupted calls leave), `ActiveSurvives`
  (a failed call costs no working install but the one it was replacing, and a start
  does not fall back to another executable).
- `documents`: `ListWorks`, `WritesLoad`, `EditsKeepOthers`.
- `generated`: `EditsAreMerged` (what a start generates is the reference merge over
  the baseline it found, torn or not) and `UntouchedStays` (a start changes only a
  profile whose section was edited, or one changed again since a death between the
  two files).
- `daemon`: `ServingIsReady` (a daemon that listens holds the path clients dial unless
  another's start has crossed its own start or end, and one that serves has the
  outcome of every autostart profile), `OnlyOwnStopped`,
  `UpgradeRestores`, `DoctorSeesServer`.
- `records`: `WatcherMissesNothing`, `JournalKeepsNewest`, `NothingLost`,
  `FollowedWhole`, `TailShowsLatest`.
- `console`: `ConfirmedIsShown`, `ExitReflectsJob` and, under fairness,
  `ShownEventually`.
- `catalog`: `RefreshIsSound`, `KVIsCurrent` (of files not put back to a time they
  had), `ListingIsBest` (for each order a request may ask for), `SnapshotIsWhole`.

Deadlock is not checked in `documents`, `generated`, `daemon`, `records`,
`console` and `catalog`, where everything may be done: users and clients have no
obligation to go on, and the bounds end what they do.

### Configurations kept to hand

These are not part of the regular set; run them with the module named.

| Configuration | Module | Shows |
|---|---|---|
| `slot_delete.cfg` | `MCRuntimeSlot` | passes: restart, delete and shutdown on two profiles of one router, with failing I/O and an orphaned engine |
| `download_dir.cfg` | `ModelDownload` | passes: directories through crash and recovery, with `StageIsCleared` |
| `slot_reload_moves.cfg` | `MCRuntimeSlot` | violated: `AddressIsReal` |
| `slot_shutdown_races.cfg` | `MCRuntimeSlot` | violated: `ShutdownStopsEngines` |
| `slot_write_unseen.cfg` | `MCRuntimeSlot` | violated: `WriteReachesRouter` |
| `supervisor_pid_reuse.cfg` | `Supervisor` | violated: `OnlyOwnSignalled` |
| `supervisor_record_lost.cfg` | `Supervisor` | violated: `ReplacementStays` |
| `download_second.cfg` | `DuplicateStart` | violated: `OneWriter` |
| `download_forced.cfg` | `ModelDownload` | violated: `CompletedIsFetched` |
| `documents_cleanup.cfg` | `MCDocuments` | violated: `CleanupSpares` |
| `catalog_rewound.cfg` | `MCCatalog` | violated: `KVFollowsFile` |
| `catalog_digest.cfg` | `MCCatalog` | violated: `DownloadedIsVerifiable` |

### Known disagreements

What the code does against what its comments say or a reader would expect. The
definition named is violated by TLC in its module, with the configuration above
or the module's own with that property in place of the others.

- `DeletedIsNotServed` (`manager.go:233`): see `slot_delete_races`.
- `AddressIsReal` (`slot.go:28`, `reload.go:82`): a write that moves the first
  held profile makes the reload bind elsewhere; `slot.address` keeps the old one.
- `ShutdownStopsEngines` (`bootstrap/service.go:217`): a start between reservation
  and commit at shutdown leaves its engine running.
- `WriteReachesRouter` (`manager.go:656`): a write whose preset is already on disk
  does not reload the router that has not read it.
- `OnlyOwnSignalled` (`identity.go:13` "'a process with this PID exists' is not
  evidence that it is the process the PID file recorded"): recovery compares the
  executable and the process group, which another process of the same interpreter
  passes, and adopts it; and after a status call has taken the exit out of `done`, a
  stop interrupts whatever process has the number by then.
- `ReplacementStays` (`pidfile_test.go:27` "TestRemoveDoesNotDeleteReplacement"):
  `File.Remove` reads the file and then removes it, so that the goroutine of an engine
  that has ended can remove the record which the next engine wrote in between. The
  next daemon does not find that engine.
- `OneWriter` (`manager.go:119` "A target that is already being downloaded returns the
  job that owns it instead of a second one"): a start of the daemon beside one that
  serves resumes its downloads (`service.go:112`) before it finds the socket taken
  (`service.go:124`). Two processes append to one partial file; one may break it
  between the other's digest check and its rename, and write records of its jobs.
- `CompletedIsFetched` (`persist.go:22`): after a crash an interrupted forced job
  is taken for completed because the older artifact is at its target.
- `InstallVerifies` (`llamacpp/install.go:256`): `VerifyInstall` hashes the
  executable and compares it with the digest recorded from the release, which is
  that of the archive.
- `ReinstallsSurvive` (`install.go:205` "never replaces a working install", of
  `provision`): a forced reinstall of the active version removes its directory and
  then renames the staged one; where that fails, the call ends with the active install
  gone. The record still names it, and an install of that version that is not forced
  answers that it is installed.
- `CleanupSpares` (`operations.go:141` "Refuse rather than delete files another profile
  may own"): a profile that comes to use the model between the check and the removal
  loses it.
- Regeneration of models.ini (`src/README.md:197-198` "the YAML is canonical, and
  regeneration overwrites hand edits to the generated file"): a start imports them, by
  the three-way merge that `EditsAreMerged` states.
- `EditsAreSeen` (`models_ini.go:18` "Edits inside a profile's own section are imported
  back into that profile's canonical YAML on the next materialization"): a profile that
  is put or deleted regenerates the file without importing it (`manager.go:659-675`),
  and an edit of any section is lost.
- `TornIsNoEdit` (`import.go:22` "someone edited the file, or the profiles moved on"):
  after a death between the write of models.ini and of its baseline, a profile that was
  changed again is put back to what InferenceRig itself had generated.
- Without a definition of its own: a model path imported into a profile with a
  reference sets the source and keeps the reference (`import.go:143`), and the two are
  resolved together (`materialize.go:99`), which may name another file than the one
  adopted.
- `DeleteCompletes` (`manager.go:247`): where config.yaml is missing, `DeleteProfile`
  erases the profile and then fails before it regenerates.
- `DaemonCanStart` (`operations.go:156`): enabling autostart races a delete, and
  the entry left behind fails every start of the daemon. A directory without its
  document, left by a failed create, does so too, and fails every listing.
- `ImportNeverPanics` (`manager.go:569` "Nothing here can fail a start"): a section
  added by hand for a profile the baseline does not have makes `mergeSection`
  copy into a nil map (`import.go:118`).
- `OnlyOwnSocketRemoved` (`service.go:217` "removes its socket"): a daemon on its way
  out removes the socket of its successor, when the one's end and the other's start
  cross.
- `StoppedIsCounted` (`upgrade.go:85` "returns the services actually stopped"): a stop
  that waits for its process to go and then fails to remove the PID file reports an
  error, and the service is not started again.
- `GatewayIsFound` (`web.go:98`): a second gateway that fails to bind overwrites
  and removes the PID file of the first.
- `RemedyStops` (`checks_daemon.go:25`): the stop command offered for a daemon
  without a PID file finds no PID file and stops nothing. Beside it, `checkPort`
  calls the gateway's port held by this installation whenever the control
  daemon's PID file names a live process (`checks_port.go:33`), and after the
  command was replaced a stop forgets the running daemon and reports success
  (`detached.go:49`).
- `TailIsWhole`: a tail may begin in the middle of a line.
- Without a definition of its own: a follower "recovers from the rotation ArchiveLog
  performs by resuming at the replacement file's start" (`logs.go:198-201`). It judges
  by size, and a replacement that outgrew what was read of the old log is read on from
  there. `FollowedWhole` excepts that (`blind`).
- `DownloadStaysListed`: a poll under way when a download is started replaces the
  table by one without it (`tui/model.go:268`).
- `LockedWhileStopping`: any answer unlocks a service that is still being stopped
  (`tui/services.go:112`).
- `KVFollowsFile` (`archcache.go:12` "keyed on the file's mtime so a re-downloaded or
  replaced model gets re-estimated"): a file replaced under a time it has had (a copy
  that keeps times, a coarse clock) is answered for by the old estimate.
- `DownloadedIsVerifiable` (`modeldownload/manager.go:277`, `digest.go:27`
  "Keeping it is what lets a later integrity check mean anything"): digests of a
  snapshot's files are recorded inside it, the doctor looks beside it, and GGUF
  plans carry none, so that nothing downloaded is ever verified.
- Without a definition of their own: the strata estimate speaks of RAM plus VRAM
  (`strata/profile.go:102`) but only llama.cpp probes VRAM; a catalog listing
  promises sizes that include the context's memory for downloaded variants, and
  passes no context length; an older catalog fetch that ends late overwrites a
  newer entry (`catalog.go:314`).

## 5. Proofs

### RuntimeSlot

Everything is proved for all values of the constants from `ConstantsOK` (finite
set of profiles, routers are backends, documents name backends and addresses,
`None` is none of the values). No bound is assumed except that `MaxOps` is a
natural number.

The properties are not inductive by themselves. That no two engines run follows
from who may spawn, that from who owns the slot, and that from the freshness of
operation IDs. `IInv` is the conjunction of

- `CallInv`: a handler carries what its next step needs;
- `OpsInv`: operations in flight are distinct, were issued, and until shutdown
  are the slot's owner; an owned slot has a handler;
- `SlotInv`: a slot is nil, at rest or owned, with the process that goes with its
  state, older than its owner, and a proper list of profiles (`HeldOnce`);
- `OwnerInv`: the owner knows how many profiles it leaves behind and has a
  process to install, or leaves the one in place;
- `EngineInv`: until shutdown the slot's engine, or the one its owner has just
  spawned, is the only one that can be live, and the owner spawns only when the
  old one is quiet.

`RuntimeSlotProofs` proves `Init => IInv` and `IInv /\ [Next]_vars => IInv'`
with one lemma per action on top of frame lemmas (a step of one handler that
leaves the slot, the engines or the other handlers alone keeps the parts that
speak of them), and derives `TypeOK`, `SingleOwner`,
`NoAbandonedReservation`, `OneEngine`, `FreeSlotMeansNoEngine`,
`RunningIsSupervised`, `HeldOnce`, the action property `OnlyOwnerCommits`, and
the refinement `Spec => Lifecycle!Spec` step by step.

### ModelDownload

From `DownloadOK` alone (any targets, versions, artifact size and number of
jobs, any set of faults) `ModelDownloadProofs` proves `TypeOK` and the action
property `TerminalIsFinal` of `ModelDownload`, and of `DuplicateStart`, with second
daemons started any number of times, `ActiveIsBusy`, `RecordsAgreeAlone`,
`StageIsCleared` (until the first of them) and the action property `PublishedAlone`. `IInv` adds to the type invariant

- `Own`: ownership itself, with what it rests on: a goroutine belongs to an
  issued job with a target (`Workers`, `Known`), jobs not issued yet and those
  recovery has not reached are untouched (`Fresh`, `Recovering`), a call between
  its check and its launch is alone with recovery over (`Called`), and a dead
  daemon has no state in memory (`AtRest`);
- `Unrecorded`: jobs not issued yet have no records;
- `PhaseOf`: the states the manager may report at each step of a goroutine, which
  is why neither `Begin` nor `Finish` overwrites a cancellation;
- `SoundOf`: after the digest check the partial file is whole until the rename,
  or gone; it needs ownership, because another goroutine on the same target
  could write it in between.

The first, with the types of what is in memory, speaks of no file: `Held` is what a
daemon knows of itself whatever becomes of the disk, and is kept by its own steps and
by those of a second daemon. It gives `ActiveIsBusy` at all times. The rest speaks of
records and partial files, and a second daemon breaks it. `Alone` says that it holds
until one is started, and that a second daemon which was never started is idle, so
that it takes no step but its start (`SecondIsIdle`); from it follow the properties that hold until then.

One lemma says what the steps of a goroutine leave alone (`WorkerFrame`); the
others treat types, `Own` and the transfer in turn, for the goroutines and for
everything else.

What the records say, and `StageIsCleared`, need what a crash may leave behind as
well, so `IInv` is extended by two parts.

- `Agree`: a record says what its job says once the goroutine is about to end, or
  is gone and recovery has come to it (`SettledOf`, `RecordedOf`); a target has
  at most one unfinished record, that of the job at work on it (`AloneOf`).
  Without the last, recovery could settle one job by the file of another.
- `Staged`: a staging directory has a job that will clear it, one at work or one
  that recovery has yet to come to (`StageOf`), and a job that finds a stage does
  not give up because it finds a target (`WaitsOf`).

### Supervisor

Everything is proved from `PIDsOK`, with every fault and with numbers given out again
at any time. The invariant has two layers. `Identity` is about process IDs: which
steps a call takes (`Calls`, `AtWork`), that a goroutine that waits keeps its child's
number from being given out (`Waits`), a supervisor's own child is waited for or gone
(`Child`), and so the number a supervisor holds is its engine's, or that of the twin
it was taken for, or nobody's, or a stranger's since, and then it is `lost`
(`OwnPID`). It gives `OnlyKnownSignalled`.

`Accounts` is about the PID file: an engine that must be found again (one that is not
excused) is the one the supervisor knows (`SupKnows`) and the one the file names as
soon as it is written, for the daemon after this one (`FileKnows`); where the slot is
free, and where a stop went well, there is none (`Quiet`). It gives
`EngineIsAccountedFor`, `OneEngineAcrossRestarts` and `StopMeansGone`. A goroutine
that removes the record of another engine excuses that engine at that step, which is
the only way in which a written record is lost under an engine that runs.

### Install

`IInv` says what has been tried when a call comes to a step (`Tried`: the payload
before anything is replaced, the directory before it is recorded, the previous
install before a rollback), that an active install which worked goes on working
unless its own directory is being replaced or was (`HadStays`), that the two records
have their directories but for the window between removal and rename and for the
replacements that did not arrive, which are in `torn` (`ActiveThere`,
`PreviousThere`), and that every directory has an owner (`Owned`).
It gives `RecordedIsProbed`, `RetentionIsExact` and `ActiveSurvives` from
`InstallOK`, for any releases, versions and sequence of failed or interrupted
calls.

### Documents

`Locks` says which steps hold which mutex, `Copies` that the configuration a call
holds between its load and its save loads and is still what the file says, unless
another process replaced the file. With what a call carries (`Named`, `Asked`,
`Cleaning`) this gives `ListWorks`, `WritesLoad` and `EditsKeepOthers`, for any
number of callers. `DocumentsOK` says that the configurations a user may write by
hand are configurations, and that the values standing for no file and no caller are
none of the files and callers.

### Generated

Proved in `DocumentsProofs`, for any keys, values and sources, with `GeneratedOK` as
a hypothesis of the theorems: it says that canonical keys are their own canonical
form, that paths and scalars are read back as paths and scalars, and that the value
for no profile is not a profile. `Importing` is what makes `EditsAreMerged`
inductive: while a start replaces and renders, what it adopts for each profile is the
import of the three documents it read at its beginning, a profile it is through with
has become that, the others are as they were, and all this holds of the files for as
long as nobody else has edited a profile. The key-by-key part, that `Adopted` and
`Adopt` give what `Merge` asks for, is a lemma about the operators alone.
The baseline is the one on disk, torn or not. `UntouchedStays` needs `Unedited` as
well: a section that nobody has edited is what was generated, so that a start which
wants to replace its profile has found another baseline and another profile, and the
exception of the property is all that is left.

### Daemon

`Lives` ties a daemon's step to its listener and to the outcomes of its
autostarts; `UnitIsOwn` and `Upgrades` say what the service manager's process is
and which way an upgrade goes; `OneHolder` says that from its probe to the removal of its files a control daemon
that nobody has crossed is the only one, and that the socket path is the one it bound.
A probe that finds nothing while another daemon is there unseen (between its own probe
and bind, between close and removal, or cut off by an earlier crossing) puts both into
`crossed`, and `OneHolder` claims nothing of them. It gives `ServingIsReady` with
overlapping starts included.

### Console

Proved in `DaemonProofs`, for every interleaving of the dashboard, the download
command and other clients. `ConsoleInv` says that the daemon's jobs have states
(`WorldOK`); that what the command has been told of its job was so when it asked,
and still is if the job is over (`CliOK`), which rests on `JobsKept`: jobs are only
added, and one that is over stays as it is; and that what the dashboard awaits a
second key for is what it has asked (`Asks`). The first two give `ExitReflectsJob`,
the last `ConfirmedIsShown`.

### Catalog

Three independent parts. `Claims` says that the keys being refreshed are exactly
those of the refreshes under way, one each, which with `Fresh` gives
`RefreshIsSound`. `Times` says that no time noted of a file is newer than
the newest it has had, and `Parsed` that what is about to be cached under a time is
about the content of that time, of files that were never put back to a time they had
had: `KVIsCurrent`. `Pinned` says that a download of a commit holds
only files of that commit: `SnapshotIsWhole`. `CatalogOK` gives each repository
version a tree, a function from names to contents.

`ListingIsBest` needs no invariant of the behaviour, because a page is made in one
step; it needs to know what the code's loops return. The scan over the variants of a
model ends at one that no other is better than; `Keep` returns the models at the
chosen places, in their order; `SortCatalog` returns all of them with ranks that do
not rise, the rank being what the request asks to order by. `ListingsOK` says that what a search answers is a list of models with lists
of sizes.

### Records

`Store` says that the event store holds the last events made, without a gap;
`Watching` that what a stream has sent, has of its backlog and has in its channel
is one ascending sequence that misses, from its first event on, only what was
dropped because the channel was full. That is `WatcherMissesNothing`, for any
limits. `Attached` says that a log which has been copied, and is about to be
removed, is in an archive; with it `NothingLost` is inductive.

`JournalKeepsNewest` needs two facts (`JournalInv`): that one goroutine compacts at a
time, and that at each step of a compaction, as between calls, the failures recorded
since the last fault can be read, in the journal or in what is about to be written
(`Readable`, `Recalls`). A crash or a full disk empties `since`, so that what it left
behind must only not stand in the way of what comes after: a torn line costs the one
that is appended to it, which is why the first failure after a fault is excepted.

`FollowedWhole` rests on `FollowInv`: the log ends with the last cell its service
wrote (`LogCells`); everything the client was sent, and the incomplete line it keeps,
is in order and each line before the next (`Sent`), and below the place it has read
to (`Follows`, `ReadTo`); if it has not been blinded by a log that outgrew the old
one between two polls, the incomplete line ends exactly there and in the file it
reads on. The last is what a change that keeps the partial line across a replaced
log would break.

`TailShowsLatest` is about single logs and needs only types: `ReadTailChunks`
stops at an ending of the log that has enough newlines or is all of it
(`ReadsEnough`), and the tail of such an ending is the end of the tail of the log
(`EndsOfEnding`, `TailsAgree`).

### Induction over places

What a loop over a list returns is a recursive function over its places. The
induction theorems of the library cannot be used, so `PlaceByPlace` states what is
needed of them with a set in place of the predicate: a set that has 0, and each place
that follows one it has, has them all. It is proved from the least counterexample
(`WFMin` of `WellFoundedInduction`). The scans of `Catalog` (best variant) and of
`Records` (`Chosen`, and the newlines before a place) are reasoned about this way.

### Which runs check what is proved

Checked by a run and proved: `SingleOwner`, `OneEngine`, `FreeSlotMeansNoEngine`,
`HeldOnce`, `ImplementsLifecycle`; `EngineIsAccountedFor`,
`OneEngineAcrossRestarts`, `OnlyKnownSignalled`, `StopMeansGone`; `ActiveIsBusy`,
`RecordsAgreeAlone`, `PublishedAlone`; `RetentionIsExact`, `ActiveSurvives`,
`RecordedIsProbed`; `ListWorks`, `WritesLoad`, `EditsKeepOthers`;
`EditsAreMerged`, `UntouchedStays`; `ServingIsReady`,
`OnlyOwnStopped`, `UpgradeRestores`, `DoctorSeesServer`; `ConfirmedIsShown`,
`ExitReflectsJob`; `WatcherMissesNothing`, `JournalKeepsNewest`, `NothingLost`,
`FollowedWhole`, `TailShowsLatest`; `RefreshIsSound`, `KVIsCurrent`,
`ListingIsBest`, `SnapshotIsWhole`.

Proved, and no run repeats them: `TypeOK` of `RuntimeSlot`, `ModelDownload`,
`Supervisor`, `Install` and `Daemon`, `NoAbandonedReservation`,
`RunningIsSupervised`, `OnlyOwnerCommits`, `TerminalIsFinal` and
`StageIsCleared`.

### Only model-checked

- `TransitionsEnd`, `CancelEnds` and `ShownEventually`: liveness under fairness is
  outside this prover.
- `DeletedIsNotServed` is violated, and so are the definitions listed under "Known
  disagreements": there is no theorem about them.

## 6. Not modelled

- Generated code (`core/rpc/gen`), the conversion of RPC messages, and the calls
  that only read and are not streams.
- Presentation: the dashboard's drawing, its system and activity pages and the
  profile form, tables and help of the command line, the web UI, routing and
  static files of the public HTTP server.
- The set-up wizard's forms, the sampling of host signals, and those checks of
  the doctor that read one file each.
- Rendering of command lines, unit files and engine configuration; the lexing of
  INI, YAML and GGUF, which is a document that is accepted or not.
- Backup copies of `filedoc`, which the program never reads, and
  `audit.CleanupArchives`, which nothing calls.
- The choice among several recovery candidates in `recovery.go`: one PID file has
  one candidate here.
- A status call that reached an older supervisor before the slot changed and asks it
  afterwards; calls made to a second daemon that takes the place of the serving one
  just when that one dies (as if it had ended and another had been started).

`PROJECT.json`, `components`, says for each part what is and what is not modelled.
