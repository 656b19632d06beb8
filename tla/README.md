# xcore-agent in TLA+

A formal model of `xcore-agent`, the deployment agent of an xcore host: TLA+
modules for its packer, its two pipelines, the executor they share with the
processes it supervises, its polling daemons and its caches; TLC configurations
that model-check them on small instances; and machine-checked proofs about most
of them for every instance.
Paths are relative to `src/xcore_agent/`.

1. [The system](#1-the-system)
2. [Inventory](#2-inventory)
3. [Modules](#3-modules)
4. [Runs, bounds and what they show](#4-runs-bounds-and-what-they-show)
5. [Fairness](#5-fairness)
6. [Proofs](#6-proofs)
7. [Divergences found](#7-divergences-found)
8. [Known limits of the code, and premises they impose](#8-known-limits-of-the-code-and-premises-they-impose)
9. [Not modelled](#9-not-modelled)
10. [Plan](#10-plan)
11. [Running it](#11-running-it)

## 1. The system

The agent brings code from a remote side to a host's `project_root`. There are
three flows; the first two share their executor, the third is independent. The
same program, on a developer's machine, builds what the first of them deploys.

    working tree ──build──> Packer ──publish──> Hub

    Hub ──artifact .xdeploy──> DeploymentRunner ──┐
     ^  ──latest version────-> Watcher ───────────┤       project_root/
     └──reports────────────────┘                  ├──> InstallDriver ──> plugins, .env, units
    Marketplace ──ZIP, HMAC──> MarketplaceRunner ─┤       │    ^
     ^  ──latest version────-> MarketplaceWatcher ┘       v    │
     └──fleet reports──────────┘                     .snapshots/ <── GarbageCollector
    install.yaml sources ──> resolve-sources / watch-sources ──> project tree
                                  └──> PluginResolver ──> cache_root

* **Hub flow** (`.xdeploy`): the Hub hands out an encrypted, signed tar with
  its `install.yaml` inside. `DeploymentRunner.run()` authenticates, downloads,
  verifies, decrypts, extracts, checks the digest, merges sources, installs and
  notifies. `Watcher` polls the Hub and starts a run when the record in
  `.xcore/state.json` names another version.
* **Marketplace flow** (ZIP): `MarketplaceDeploymentRunner` fetches one slug,
  checks its HMAC and installs it after an `install.yaml` the operator supplies.
  `MarketplaceWatcher` does for a slug what `Watcher` does for a project.
* **Developer's side**: `init-plan` scaffolds an `install.yaml`, `build` hashes a
  project's tree, copies, prunes and seals it, `publish` hands it to the Hub.
* **Container side**: `resolve-sources` merges the sources an `install.yaml`
  pins when a container starts; `watch-sources` follows the marketplace's
  versions while it runs, and may exit so that the container restarts.

Each process runs one `asyncio` task: only calls to the remote side are awaited,
everything on disk is synchronous. Concurrency is between processes: a `watch`
daemon, `deploy`, `deploy-marketplace`, `gc`, the remote side, the units that load
what is installed, a developer who edits the tree being built. The hazards are partial effects on disk: an exception or the death of the process between
two filesystem calls, and what the next run makes of the leftovers.

## 2. Inventory

For each component: its state, its operations, what makes it hard, what makes it
correct, and where it is modelled. `PROJECT.json` lists the same components
("components") and, line by line, what is hard to test in them ("hazards").

| Component | State | Operations | Hard | Correct when | Modelled in |
|---|---|---|---|---|---|
| `InstallDriver` (`agent/install_driver.py`) | target directories, `.env` files, `.snapshots/`, list of records in memory | one per action of `install.yaml`; `snapshot_before`, `rollback` | rmtree and copytree that stop halfway; a rollback that raises; a crash that loses the records; one directory installed twice | a rollback undoes exactly what was done; a completed plan left no mixture; an `.env` is never overwritten | `InstallDriver`, `AtomicDeploy` |
| `DeploymentRunner`, its states and errors (`agent/pipeline.py`, `state.py`, `errors.py`) | pipeline state, session, working directory per version | one per stage; the failure branch of `run()` | leftovers in the working directory; two kinds of exceptions; the report racing the outcome | only verified trees are installed; the Hub is not misled | `DeploymentRunner` |
| `Watcher`, `StateStore` (`agent/watcher.py`, `state_store.py`) | `.xcore/state.json`, working directories, the processes' loaded version | `check_once`, `watch_forever` | the record goes stale in every way a run can fail; the Hub moves during a tick; crashes; a full disk; an operator's deploy in the middle of a tick | the record is never ahead of the host; host, record and supervised processes converge | `Watcher` |
| `GarbageCollector` (`agent/gc.py`) | `.snapshots/`, cache root | `collect_snapshots`, `collect_cache`, `force_restart` | runs beside deployments of the same or another process; groups computed from names; order by mtime | nothing a rollback needs is taken away; quotas per plugin | `SnapshotGC`, `Watcher`, `MarketplaceRunner` |
| `MarketplaceDeploymentRunner`, `MarketplaceWatcher` (`agent/marketplace_*.py`) | state per slug, working directory per version, local report, fleet view | stages, GET retries, two reports, the tick | lost reports, retries, a record that cannot be written, the operator's run beside the watcher and under its collector | reports tell what is on the host; convergence | `MarketplaceRunner` |
| watch-sources, resolve-sources (`watch_sources.py`, `resolve_sources.py`) | `.xcore/watch-sources-state.json`, trees of the sources | a tick source by source, the restart of the container, the boot | one record written at the end of many merges; exit on update; the boot works from pins | what is recorded as up to date is; trees end in sync; no endless restarts | `WatchSources` |
| `PluginResolver` (`plugin_resolver.py`) | cache directories with a marker file | `resolve` for marketplace and git sources | crash in any fetch; two processes; mutable refs | what is returned is the source asked for, whole | `PluginResolver` |
| Supervisors (`agent/systemd_supervisor.py`, `docker_`, `kubernetes_`, `supervisor.py`) | the units' processes | start, stop, restart, healthcheck with retries | a unit that dies or is started between steps; a rollout that outlives its step; a rollout of no replicas; commands without a timeout; the retries of a check; a rollback after a restart | a completed plan's processes run what it installed; a deployment ends unless a command hangs | `SupervisedInstall` |
| Provisioners, notifiers (`agent/*provisioner.py`, `notifier.py`) | none | one shell command each | raise, or swallow their errors | a failure rolls back | steps of `InstallDriver` and `SupervisedInstall` (partly) |
| Packer (`packer/builder.py`) | the working tree, `manifest.json` in it, the packaging view, the artifact | plan, inspection, digest, manifest, copy, prune, seal, publish | edits while it hashes and copies; leftovers of a failed build; two definitions of what is packed | what an agent accepts is one state of the tree; it accepts what was built undisturbed; nothing secret or resolved later is sealed | `Packer`, over `InstallPlan` |
| Scaffold (`scaffold.py`) | none | the steps of `init-plan` | ids made of prefixes and names | the plan loads and runs in the order written | `Scaffold` |
| `InstallPlan` (`schema/install.py`) | none | graph validation, `execution_order` | marks of a depth-first search | dependencies come first; only unsound plans are rejected | `InstallPlan` (graph only) |
| `HubClient`, `MarketplaceClient` | session token | HTTP calls | timeouts, answers lost after taking effect | seen through their outcomes | in the runners' modules (partly) |
| CLI (`cli.py`) | none | one command per flow | which processes share which directories | seen through the processes it starts | partly |
| Crypto, plugin signing (`crypto.py`, `agent/plugin_signing.py`) | none | tree digest; ciphers, signatures | what a digest covers | the digest is of what is sealed | digest in `Packer`, verdicts are inputs (partly) |
| Manifest schema (`schema/manifest.py`) | none | field formats | — | — | no |

Who calls whom: `build_artifact` loads the plan as `_install` does. Both runners build an `InstallDriver` per run and call its
`rollback()`; the driver calls a `Supervisor` for the steps that name a unit. Both watchers build a runner per tick, then write their
`StateStore`, collect snapshots and cache, and call `force_restart` (whose effect
is modelled in `Watcher`). `DeploymentRunner` calls `PluginResolver` for sources of the manifest;
the container-side commands call it for sources of `install.yaml`. Shared state:
`project_root`, `.snapshots/`, the cache root and the resolver cache, none of
which has a lock.

## 3. Modules

### AtomicDeploy — what an executor promises

The abstract specification. `live` is what each directory is known to hold,
`scope` what the deployment installs, `protected` what it must leave alone when
it aborts. `Begin`, then one of `Commit` (every directory in scope holds the
version, no other changed), `Abort` (nothing changed but `scope \ protected`),
`Break` (nothing changed but `scope`). It has no steps in between: nobody asks
what is on disk while it runs.

### Deployment — what a run promises its caller

The second abstract specification, of `DeploymentRunner.run()`: one step from `Begin`
to one of four ends. It `returned` (the version is on the host); it was `refused` (all
of it, or nothing, has changed); it was `rolled_back` (nothing has changed if the plan of
the version takes a snapshot in every step that installs, `Protected`; otherwise the host
may be old, new or torn); or it is `broken` (the host may be torn). `DeploymentRunner`
implements it; `Watcher` takes a deployment for one such step.

### InstallDriver — `install_driver.py`, driven by `pipeline.py:_install`

A directory is abstracted to the version it holds, `Absent` or `Torn`; an `.env`
to absent, partial, incomplete or complete. A plan is a sequence of steps:
`install` (install_plugin, install_extension), `write_env`, `skip` (changes nothing
here, cannot raise), and the `Effects` `prepare`, `provision`, `start`, `stop`,
`restart`, `healthcheck`, which may raise and whose action on the directories is
`Effect`: none. What they do to processes is `SupervisedInstall`'s.

| Model | Code |
|---|---|
| `host`, `env`, `snapshots` | the filesystem; `snapshots` in the order made, an entry becomes `Absent` when collected |
| `records`, `undo` | `InstallDriver._snapshots`; the position of `rollback()` in it, from the end |
| `plan`, `version`, `step`, `pc` | the loop of `_install`, and the call inside the step |
| `before`, `deploys` | history; bound |
| `Begin`, `Finish` | a run reaching `_install`; its return |
| `Raise` | `except Exception` of `_install`: `driver.rollback()` |
| `InstallRefused`, `HalfSnapshot` | source missing in the artifact; the copy to `.snapshots/` failing before its record is appended |
| `InstallBegin`, `SnapshotBefore`, `Wipe`, `Copy` | `snapshot_before`, `rmtree(target)`, `copytree` and the signature after it |
| `WriteEnv`, `Seed`, `CheckRequiredEnv` | `write_env`: exists / template missing / created; `write_text`; required values |
| `UndoRemove`, `UndoRestore`, `UndoEnd` | the loop of `rollback()`: remove the target, copy the snapshot back if it is there |
| `Crash` | the process dies between or inside these calls |
| `OperatorEdits` | the operator completes an `.env` between deployments |

Every filesystem call that can stop halfway is a step of its own; a failing one
may leave what was there, a torn tree, or the finished one. Faults of `rollback`
itself ("undo_io") and crashes are switched by `Faults`.

### SupervisedInstall — the supervisors under InstallDriver

Extends `InstallDriver` with one process per unit. `loaded[u]` is what the last process
to load has of each directory (`Loads`) or `NotRunning`; `phase[u]` is `"off"`, `"due"` (a
new pod is asked for), `"starting"` (loaded, not ready) or `"ready"`; `attempt` the count of
`healthcheck()`. systemctl and docker have acted when they return. kubectl only changes
what a Deployment asks for, and `Settle` does it later.

| Model | Code |
|---|---|
| `Start`, `Stop`, `Restart` | the supervisor's commands; a running unit is not started again; a failed `systemctl restart` may have ended it |
| `ScaleUp`, `ScaleDown` | `kubectl scale` to 1 or 0 replicas, which returns before the pod is there or gone |
| `RollOut` | `kubectl rollout restart`: a new pod is due; of 0 replicas, nothing |
| `Healthcheck`, `Passes` | one attempt: ready (or, for `rollout status`, 0 replicas); not ready, with or without attempts left; the command missing or timed out, which ends the check |
| `Settle` | a new pod loads what is there by then; a process becomes ready; a pod scaled down ends |
| `DoNothing` | `NullSupervisor`, which the command line's runners use |
| `Prepare` | prepare and provision: a command that may fail |
| `Change` | a process dies (a pod is then made anew), or somebody else starts it, at any moment |
| `Deploys` | the driver's other actions, with the units as they are |

A restart of systemd or docker is taken to have loaded the code when it returns; a pod
that is still ending after its Deployment was scaled up again serves nobody and is not followed.

`Succeed` and `Fail` are `InstallDriver!Effect` with `Done` or `Raise`, so that
every behaviour of the module is one of `InstallDriver` (`DrivesAsInstallDriver`,
proved).

### SnapshotGC — `gc.py:collect_snapshots` beside InstallDriver

Extends `InstallDriver` with a collector: `Scan` lists `.snapshots/`, groups by
name, orders by mtime and picks all but `Keep` per group; `RemoveBegin` /
`RemoveEnd` remove one snapshot in two steps (`ignore_errors`: it may stay);
`Abandon` is the death of the collector. A "watcher" collector runs only between
deployments of its own process (`Quiet`, `Alone`); a "process" collector
(`xcore-agent gc`, a watcher of another slug) runs at any time. `Segment` is the
part of a directory's id that `rsplit("-", 2)` groups by.

### DeploymentRunner — `pipeline.py`, `state.py`

One action per stage, in the order of `run()`; `TRANSITIONS` is the table of
`state.py`, and every action goes through `Transition`, as the code does.
`artifact` is what the Hub handed out (right, or with one of nine flaws: a wrong signature,
ciphertext, compression, digest or project, and `manifest.json` or `install.yaml` missing or
invalid, which are errors of different kinds),
`tree[v]` what is in `workdir/extracted` of version `v`, kept from run to run.
An exception is a `DeploymentError` (`outcome = "failing"`, handled by
`HandleError`) or another one (`"escaped"`). `told` records what the Hub
received, `tried` that a failure report was attempted. `Install` is one step:
success; roll-back to `ROLLED_BACK`; or a rollback that raises. What the second leaves is the
host as it was for a version in `Protected`, which is what `ImplementsAtomicDeploy` licenses for plans
whose installs take snapshots, and any of `Leftovers` for the others: `snapshot: false` is the
default. `Abstract` maps a run to `Deployment`: all stages are a stutter of it but the
first, and the ends of `run()`, by exception or death included, are its ends.

### Watcher — `watcher.py`, `state_store.py`, `gc.py`

`check_once` as `Poll`, `Compare`, `Deploy`, `Truncate`, `Write`, `Collect`,
`Restart`. The record is written by truncating and writing one file, hence two
steps and `Corrupt` between them; the file may fail to open (it stays as it is) or to be
written (it stays truncated, as after a crash), and the collector may fail to read a
directory: each ends the tick. `Deploy` is a whole run with four ends
(installed and reported; failed and restored; failed after installing; rollback
raised or without a snapshot); its record is kept by these ends only, which are those of
`Deployment`. `Restart` is `force_restart`: nothing without a supervisor, the
default; under systemd and docker the process has loaded when the command returns; under
Kubernetes it is `rolling` until `Load`, which is also how a process comes up by itself.
`Publish`, `ManualDeploy` and `Crash` are the environment. A deploy by hand happens at any
moment, in the middle of a tick too: no lock is there to prevent it. What the collector
removes is left to `SnapshotGC` and `MarketplaceRunner`.

### MarketplaceRunner — `marketplace_pipeline.py`, `marketplace_watcher.py`, `marketplace_client.py`

One slug and two possible processes, `"watch"` and `"manual"`, interleaved step
by step over the shared host, record and working directories. `place` is the working
directory of a run: `<slug>/<version>`, or `<slug>/latest` for an operator who names no version,
whose version is known once the artifact has come. `GetAgain` is
`_get_with_retry` (three attempts); `WriteReport` is the local JSON report,
`ReportToHub` the fleet report that may be lost (`called` says that it was tried); `Truncate`,
`Record`, `Collect`, `Restart` conclude the watcher's tick. The record may fail to open or to be
written. `Collect` removes the other working directories, so that a run in another
process may lose a part of its tree while it unpacks or installs (`Collected`). A step that
raises leaves the host as it was if the plan takes snapshots, and any of `Leftovers` if
not. A `setting` chosen in `Init` says which troubles a behaviour may meet, whether the plan
takes snapshots and whether there is a supervisor, so that one run covers several environments.

### WatchSources — `watch_sources.py`, `resolve_sources.py`

A tick goes source by source: `CheckVersion`, `Fetch`, `Merge`, then
`CheckEnd`, `Truncate`, `Write`. `GitSource` is the assertion a git source runs
into. `file` is the record on disk, `state`, `dirty`, `updates` the tick's own
copy. The file may fail to open or to be written, which ends the tick with its updates
unrecorded; the record is taken to outlive the container. `StartAgain` and `Boot` are the container's restart, with or without
`resolve-sources`; `built` is what its pins resolve to. `Merge` sets the tree to
the new version: `copytree(dirs_exist_ok=True)` merges, so that files deleted
upstream stay behind; the model does not tell that apart.

### PluginResolver — `plugin_resolver.py`

`LookUp` (the marker is there, a directory without it must go, or nothing),
`Remove`, `Fetch`, `Extract`, `ExtractRest`, `Mark`, `Copied`, per process; a
tree is two files so that readers, removals and fetches can meet in the middle.
`Outcome` is the check for a git source's subdirectory: a revision that lacks it (`lacks`) is an
error after the marker was written, and stays one for every later call.
`Key` is the directory name (`mkt-` prefix as a Boolean). `Update` moves a
mutable ref on. `overlapped` records that two calls for one directory have been
under way together.

### InstallPlan and Scaffold — `schema/install.py`, `scaffold.py`

`visit()` as an explicit stack of frames (`VisitStep`, `VisitDependency`,
`Return`), after the checks of `ValidateGraph`. `Cyclic` is an independent
reference definition (a set of steps each depending on one of the set). `Scaffold`
has the steps `init-plan` writes, as functions of its lists of plugins and
extensions; a name is a sequence of parts, so that `install_` + `ext_bus` and
`install_ext_` + `bus` are one id here as in the program.

### Packer — `packer/builder.py`, `crypto.py`, `cli.py`

Extends `InstallPlan`: a build first loads the plan. A file is known by the plugin
or extension it is in and by how the packer treats its name (`Kinds`); a content
is a number, fresh with every edit, 0 where there is no file.

| Model | Code |
|---|---|
| `tree`, `manifest` | `source_root`; `source_root/manifest.json` |
| `hashed`, `package`, `todo` | the digest's input; the packaging view; files still to be read or copied |
| `artifact`, `hub` | the output file; what the Hub stores |
| `moment`, `edited` | history: the tree when `manifest.json` was written; whether this build was disturbed |
| `Build`, `LoadPlan`, `ValidateSourceTree`, `Inspect` | `build_artifact` up to the listing of `compute_tree_digest` |
| `Read`, `WriteManifest` | the digest, file by file; `manifest.json` |
| `Copy`, `Prune`, `Seal`, `Publish` | `_prepare_packaging_view`, `seal_directory`, `publish` |
| `Break` | any exception or the death of the process: `manifest.json` stays, be it half written |
| `RemoveManifest`, `Edit` | the developer |
| `Survives`, `Counted`, `Verifies` | `_prune_to_manifest_only`; `_non_manifest_relpaths` and `rglob`; the agent's `_verify_manifest` |

`Survives` and `Counted` are translated apart because the code has them apart: one
decides by the names at the top of a directory, the other by the path of a file.

The definitions marked *Mutant* in the modules are variants of the definition
below them with a plausible bug; `PROJECT.json` ("mutants") says which property
each of them breaks. They are used nowhere else.

## 4. Runs, bounds and what they show

Each run is a module `MC*.tla` and a `.cfg`. State counts are distinct states.

| Run | Instance | States | Result |
|---|---|---|---|
| `install` | 2 directories, 1 `.env`, 1 unit, 3 kinds of supervisor, 2 versions, 2 plans, 1 retry, 1 change of a process, 2 deployments, crashes and failing rollbacks | 499,552 | pass |
| `gc` | 2 directories with distinct name parts, 2 versions, Keep 1, both collectors, 2 deployments, crashes | 417,122 | pass |
| `gc_names` | the same, name parts equal, the watcher's collector, no crash | — | `KeepsPerDirectory` violated |
| `runner` | 2 versions, one of which takes snapshots, 2 sources, 2 runs, 10 kinds of artifact | 39,416 | pass |
| `runner_reported` | the same | — | `FailuresAreReported` violated |
| `watch` | 3 versions, 2 plugins, 3 kinds of supervisor, 3 troubles of 11 kinds, 2 publications | 1,782,976 | pass |
| `watch_restart` | systemd, one failing restart only, 3 publications | — | `ProcessesFollow` violated |
| `market` | 3 versions, 2 agents, 4 settings | 358,650 | pass |
| `sources` | 2 sources, 3 plans, 3 container modes, 2 troubles, 2 publications | 459,224 | pass |
| `sources_git` | plans with a git source, no trouble | — | `Synced` violated |
| `resolver` | 2 processes, 3 sources (one with a subdirectory its second revision lacks), 2 revisions, 2 faults, 4 calls | 775,883 | pass |
| `plan` | all 2-step plans over 3 ids, all ordered 3-step graphs, all 4-step graphs, scaffolds of up to 2 plugins and 2 extensions; 14 working trees of 1 plugin and 1 extension; 3 builds and edits | 451,101 | pass |

**install.** Asks whether the executor is all-or-nothing. `RollbackRestores`: a
rollback that ran to its end leaves every *protected* directory (its first
install takes a snapshot) as the deployment found it. `InstalledWhole`: a
completed plan leaves its version in its directories and nothing else changed.
`EnvNeverOverwritten`: no step of the agent changes an `.env` it found.
`ImplementsAtomicDeploy`: the driver refines `AtomicDeploy`, crashes included.
`ServesWhatItInstalled`: when a plan that restarts a unit after its last
installation completes, the unit's process runs what was installed, be it that it died
meanwhile, was slow, or was rolled out while the plan went on. `EndsOrHangs`: plan, health check and
rollback come to an end, unless the deployment waits for a start, stop or restart command,
which nobody gives up. `Update` seeds an `.env`, mixes steps without and with snapshots, restarts and
checks; `Twice` installs a directory twice (its records undone in reverse) between `stop` and
`start`. Two deployments suffice for a deployment to start from the leftovers of any end of
another; nothing but the disk and the processes passes from one to the next, and the first may
leave them in any state a failure produces. One retry is one attempt more than none, and one
change of a process falls between any two steps. Deadlock is off: the bound on deployments
ends a behaviour.

**gc, gc_names.** Asks what a collector may take away. `KeepsPerDirectory`: a plugin
loses a snapshot only while `Keep` of its own
stay. Keep 1 with two directories and two deployments is the least for a quota to be exceeded
and for one group to take from another's. With distinct name parts it holds; with equal ones
it does not. `RollbackRestores` is not checked here: beside the collector of another process it does
not hold, since that takes a snapshot a rollback needs (section 8). Beside a watcher's own collector, which runs
between its deployments, it holds (`CollectedRollback`, section 6). The runs look at no process
(`Units` is empty). Deadlock is off, as in `install`.

**runner, runner_reported.** Asks what reaches the install stage and what the Hub
is told. `InstallsOnlyVerified`: the requested version, genuine, whole, with all
sources merged, whatever an earlier attempt left. `RefusesOnlyFlawed`: a retry
never rejects a good artifact for its own leftovers (the bug `pipeline.py:220-229`
recounts). `HubNotMisled`: success is told only by a run whose version is on the
host; a rolled-back run never tells it, and has left the host as it was if its plan takes
snapshots. `ErrorsBecomeFailures`: a handled error
ends in a terminal state. `ImplementsDeployment`: to its caller the run, sixteen stages with two
kinds of exceptions and a death between any two, is the one step of `Deployment`. Of the two versions one
takes snapshots, so that both ends of a rollback are met. Two runs are one attempt and its retry, over the same
or another version's working directory.

**watch, watch_restart.** Asks whether record, host and processes agree.
`RecordNeverAhead`: while versions only go up and nobody deploys by hand, a
readable record names no newer version than the host has, so a failure is always
retried. `RestartedOnRecord`: what a tick has restarted runs, or is being rolled out to, the version
*deployed* and recorded, even when the Hub moved on. `Converges`: after any failures that a later
tick can see, host, record and, where there is a supervisor, processes settle on the Hub's
version. Its premises are named: the troubles a tick can never see again (`NotRetried`), and
what may hang for ever (`MayHang`). `ProcessesFollow`, that processes always do, is violated.
Deadlock is checked: the loop never stops. Two publications
move the Hub forward and back or twice forward; three troubles cover a failure while
recovering from another and one more.

**market.** As `runner` and `watch` for a slug, with processes interleaved.
`ReportsTellTheHost`: undisturbed, a local report states what happened to the
host; of a rollback, if the plan takes snapshots. `FleetViewTrue`: while reports arrive and plans
take snapshots, the fleet view is the host. `Converges`: host and record end on the published
version, with or without snapshots, unless the record was truncated and could not be written.
`FailuresEndReported`: a run failing with a `DeploymentError` ends in FAILED or ROLLED_BACK, with
its report written and the marketplace called, unless it dies or cannot write the report, and
then the state is final at least. The four settings: `Watched` is the watcher
alone under everything but its death, `Unprotected` the same without snapshots and supervisor;
in `Reported` the runs end with a report that arrives (four troubles exceed
the three GET attempts by one); in `Beside` an operator deploys beside the watcher, and either may
die, under which `FailuresEndReported` and the types are checked.

**sources, sources_git.** Asks whether the record of watch-sources may lie.
`UpToDateIsReal`: a source the next tick would skip holds the marketplace's
version whole, after any failed fetch, half merge, failed write of the record or crash. `InSync`: without git
sources the trees end in sync. `SettlesDown`: with `--exit-on-update`, the
container does not restart for ever, even with `resolve-sources` at its start; only a `git` that
hangs in that boot can keep it there.
Two sources are the least for one to fail after another was merged.

**resolver.** Asks what a marker promises. `ReturnsSource`: what `resolve()`
returns is of the source asked for, of one revision, complete. `ResolvedForGood`:
a marked directory does not change. Both have as their premise that no two calls
for *one* directory have overlapped (different directories may). Four calls are
enough for fetch, failure, retry and a reader.

**plan.** Asks of plans: `DependenciesFirst` holds at every moment of the sort, not just its
end; `RejectsOnlyUnsound` says that it rejects just the plans the reference definition
calls unsound; `ScaffoldRuns`, that what `init-plan` writes is refused only for a clash of
ids, and else runs as written. All graphs on four nodes include every way in which
two cycles, a diamond and a tail can meet. Asks of builds: `AcceptedIsOneMoment`: whatever
is edited while files are hashed and copied, an artifact the agent accepts is the tree of one
moment. `AcceptsOwnBuild`: an agent accepts what was built undisturbed, whatever earlier builds
left. `NothingElseSealed`: no excluded file and no code of a sourced item is ever
sealed. `BuildEnds`: a build terminates. The trees have one or two files of each kind the packer
treats differently, next to the minimal project: files do not interact but through the moments
at which they are read. Three builds and edits are a build disturbed twice, or a retry
disturbed once. Plans and trees are checked in one run, each on its own: a build of the former ends
after the sort (the version asked for is another one), the latter have a sound plan.

## 5. Fairness

* `SupervisedInstall`: weak fairness of `BoundedRun`, the driver's own steps on the disk, health checks,
  prepare and provision. A health check and a provisioner's command are given up after their
  timeout. Start, stop and restart commands have none, and are not fair: `EndsOrHangs` allows
  for a deployment that waits for one.
* `DeploymentRunner`: weak fairness of `HandleError`, one Hub call with a timeout. A fetch from
  git or a step of the plan may hang, so that nothing is assumed of the other stages.
* `Packer`: weak fairness of the build's steps, straight-line code on local files; the files a
  build reads and copies are those it has listed, so that edits cannot keep it busy.
* `Watcher`, `MarketplaceRunner`: weak fairness of a tick's steps, per process, but for those that
  may hang (`MayHang`: git in a deployment of the Hub flow, a supervisor's command):
  `watch_forever` catches every `Exception`, sleeps a fixed time and polls again, and requests
  and provisioners have a timeout; the runners of the daemons have no supervisor in their plans' steps.
* `WatchSources`: the same, and the container is started again when it exits,
  which is what `--exit-on-update` is documented for. Git at the boot may hang.
* `Crash`, `Begin`, `NewRun`, `Build`, the units' own steps (`Change`, `Settle`, `Load`),
  publications, troubles, operators and whoever edits have none anywhere.
* `InstallDriver`, `SnapshotGC`, `PluginResolver`: none; only safety is checked.

No strong fairness is used, and no fairness of a *successful* outcome: troubles
stop because their number is bounded, not because an action is forced to succeed.

## 6. Proofs

Eight modules hold the proofs, each next to the module it is about; `CompositionProofs` is
about the two that run the executor beside something else, `SupervisedInstall` and
`SnapshotGC`, and `PackerProofs` also about the plan the packer loads (`InstallPlan`). Every
safety property that a passing run checks is stated by a theorem.

| Module | Theorem | States |
|---|---|---|
| `InstallDriverProofs` | `TypeCorrect` | `Spec => []TypeOK` |
| | `InductiveInvariant` | `Spec => []IInv` |
| | `RollbackCorrect` | `Spec => []RollbackRestores` |
| | `InstallCorrect` | `Spec => []InstalledWhole` |
| | `Refinement` | `Spec => ImplementsAtomicDeploy` |
| | `EnvKept` | `Spec => EnvNeverOverwritten` |
| `CompositionProofs` | `DrivesDirectories` | `SupervisedSpec => InstallDriver's Spec` |
| | `SupervisedRollback`, `SupervisedCommit`, `SupervisedRefinement` | the above of a supervised deployment |
| | `SupervisedTypeCorrect` | `SupervisedSpec => []SupervisedTypeOK` |
| | `ServesCorrect` | `SupervisedSpec => []ServesWhatItInstalled` |
| | `GCTypeCorrect` | `GCSpec => []GCTypeOK` |
| | `CollectedRollback` | `GCSpec => [](collector = "watcher" => RollbackRestores)` |
| | `CollectedRefinement` | `GCSpec /\ OwnCollector => ImplementsAtomicDeploy` |
| | `KeepsCorrect` | `GCSpec => []KeepsPerDirectory`, if `DistinctSegments` |
| `DeploymentRunnerProofs` | `TypeCorrect`, `InductiveInvariant` | `Spec => []TypeOK`, `Spec => []IInv` |
| | `InstallCorrect` | `Spec => []InstallsOnlyVerified` |
| | `ReportsCorrect` | `Spec => []HubNotMisled` |
| | `RetryCorrect` | `Spec => RefusesOnlyFlawed` |
| | `Refinement` | `Spec => ImplementsDeployment` |
| `WatcherProofs` | `TypeCorrect`, `InductiveInvariant` | `Spec => []TypeOK`, `Spec => []IInv` |
| | `RecordCorrect` | `Spec => []RecordNeverAhead` |
| | `RestartsCorrect` | `Spec => []RestartedOnRecord` |
| `WatchSourcesProofs` | `TypeCorrect`, `InductiveInvariant` | `Spec => []TypeOK`, `Spec => []IInv` |
| | `UpToDateCorrect` | `Spec => []UpToDateIsReal` |
| `PackerProofs` | `PackerInvariant` | `PackSpec => []PackInv` |
| | `OneMomentCorrect` | `PackSpec => []AcceptedIsOneMoment` |
| | `OwnBuildCorrect` | `PackSpec => []AcceptsOwnBuild` |
| | `NothingElseCorrect` | `PackSpec => []NothingElseSealed` |
| | `PackTypeCorrect` | `PackSpec => []PackTypeOK` |
| | `PlanCorrect` | `Spec => [](TypeOK /\ DependenciesFirst /\ RejectsOnlyUnsound)`, of any plan |
| | `DependenciesFirstCorrect`, `RejectsOnlyUnsoundCorrect` | the same in `PackSpec`, as the run checks them |
| | `ScaffoldRunsCorrect` | `PackSpec => []ScaffoldRuns`, if `ScaffoldedBackwards` |
| `PluginResolverProofs` | `InductiveInvariant` | `Spec => []IInv` |
| | `ReturnsCorrect` | `Spec => []ReturnsSource`, if `DistinctKeys` |
| | `ResolvedForGoodCorrect` | `Spec => ResolvedForGood` |
| `MarketplaceRunnerProofs` | `TypeCorrect`, `InductiveInvariant` | `Spec => []TypeOK`, `Spec => []Inv` |
| | `ReportsCorrect` | `Spec => []ReportsTellTheHost` |
| | `FleetViewCorrect` | `Spec => []FleetViewTrue` |

They hold for every set of directories, files, units, versions, sources and well-formed plans,
for any number of deployments, ticks, builds, edits, publications and troubles. Assumptions
are on constants only, named where the constants are declared, and TLC evaluates each in a
passing run: `PlansAssumption` (an install step names a directory, a write_env step a file,
a supervised step a unit; that is how `pipeline.py` builds the calls), `MarkersAssumption` and
`SupervisorsAssumption` (markers are not values), `FaultsAssumption` and `BoundAssumption`,
`RunnerConstants`, `WatcherConstants`, `WatchSourcesConstants`, `InputsAssumption`,
`PackerConstants` (`NoManifest` is no manifest), `ResolverConstants`, `GCConstants`,
`MarketplaceConstants`.

Three theorems have a hypothesis on the inputs besides, because what they state is false
without it:

* `DistinctSegments`: the ids of no two directories end in the same dash-separated part. The
  collector groups snapshots by that part; `MCSnapshotGC_names` has two that do, and a counterexample
  (section 7).
* `DistinctKeys`: no two sources share a cache directory, whose name has no origin (section 8).
* `ScaffoldedBackwards`: the steps of a scaffolded plan each depend on earlier ones.
  `Scaffold!InstallSteps` writes them so; that it does for every list of plugins is a fact about a
  concatenation, which would need induction over data. `MCPacker` runs it on its lists.

**The executor.** `RollbackRestores` speaks of the end of a rollback only; the step before it
may be anything, so that it is not inductive. `IInv` adds:

* `TypeInv` is `TypeOK` with the executor's position per label (`AtStep`) and that
  records name snapshots that exist (`OnDisk`).
* `OldestIsBefore`: the *oldest* record of a protected directory stands for the tree
  the deployment found. A later record of the same directory may stand for anything
  (the plan installed it in between): the oldest is visited last, and wins.
* `SnapshotsRecorded`: each install step with a snapshot that has begun left a record.
  With `Protected` (the first install on the directory takes one) it yields
  `ProtectedRecorded`: while a protected directory is being replaced, there is a
  record that undoes it.
* `PendingOnly`: a protected directory without a pending record is as it was.
  Going forward, all records are pending; going back, those `rollback()` has still to
  visit. At the end none is, which is `RollbackRestores`.
* `RestoringAbsent`: between removal and restoration the directory is absent, so that a
  record without a snapshot ends in the right state.
* `PrefixInstalled`: the directories of executed steps hold the version, the others
  what they held; at the end of the plan that is `InstalledWhole`.
* `WithinScope`: nothing outside the plan has a record or has changed; that is what
  `Break` needs when the process dies or the rollback raises.

Each conjunct has its own preservation lemma, one step per action. `Refinement` maps `Begin`
to `Begin`, `Finish` to `Commit`, `UndoEnd` to `Abort`, `Crash` and a failing undo to `Break`,
all else to a stutter, because the mapping shows `before` while the driver works.

**The processes.** `DrivesDirectories` maps every supervised step to a step of the driver or
none; with it, all of the executor's theorems, `IInv` above all, are facts about
`SupervisedSpec`. `ServesInv` says of each step `r`, already done, that
restarts a unit after the last installation: if its restart is over (systemd; or the unit is
starting or ready; or a health check after `r` succeeded), the process, if there is one that is
not ending, has the version. By `PrefixInstalled` whatever loads after `r` loads the version; a
pod that is due comes up only by loading, and a health check that succeeds saw no pod due.

**The pipeline.** `IInv` says for each stage what has been checked so far (`Checked`), that
there is a tree to merge into (`HasTree`), what the host holds (`HostFollows`: after ROLLED_BACK what
it held before for a version in `Protected`, else perhaps a torn tree) and what the
Hub was told (`HubHears`). Nothing is said of the working directory before the extraction, which is why
leftovers of an earlier attempt do no harm. `Refinement` needs `HostFollows` only.

**The daemon.** `InOrder`: the Hub's version, the tick's copy of it, the record and the host
follow one another while versions only go forward. `Delivered`: from the end of a deployment
to the end of its tick the host holds the tick's version, the record once written names it, and the
processes restarted so far run it or are being rolled out, unless somebody deployed by hand.

**watch-sources.** `Honest(r)`: a record lies between the pins and the marketplace, and where it
equals the marketplace the tree holds it whole. The empty record is honest (so that a lost or
half-written file does no harm), the file is, and the tick's own copy is, because the tick
merges a tree before it notes it (`FetchesNewer`, `StillToCome`).

**The packer.** `Age` puts the contents a file can have in the order in which it has them. An
edit only moves a file forward in this order, hence for each file hashed ≤ moment ≤ packed, file
by file, whatever the interleaving (`HashInv`, `WrittenInv`, `CopyInv`). An agent accepts when
first and last are equal, which leaves the moment no choice. That no content comes back (`Edit`)
is what the argument, and the property, rest on: a digest could not tell.

**The plan.** `PlanInv` is the invariant of the depth-first search. `StackInv`: the marks in
progress are the nodes of the stack, each once. `FrameInv`: the dependencies a frame has passed are
done, but the one it has just descended into, which is the node of the frame above.
`OrderInv`: what is ordered is what is done, each step once and after its dependencies.
`StepsInv`: the steps the outer loop has passed are done. A step found in progress has the
frames from its own upward as a cycle (`StackIsCycle`), hence a rejected plan is not sound. That a
sorted plan has no cycle is shown by its least element: of a set each of whose steps
depends on one of the set, the one first in the order would depend on an earlier one.
In a scaffolded plan (`WrittenOrder`) no step has a dependency left to visit when its turn comes.

**The resolver.** `CacheInv` holds until two calls for one directory overlap: a call that is
fetching has found no marker, what it has extracted is what it has fetched
(`CallInv`), hence a directory with a marker is whole and of one revision (`MarkedIsWhole`), and no
call touches it again. Nothing is said of a directory without a marker, which is why what a
dead call left there does no harm.

**The collector.** `GCInv`: as long as the only collector is the watcher's, `IInv` of the executor
holds. The collector of a watcher moves only between deployments (`Quiet`: `check_once` deploys, then
collects, in one sequence), where `IInv`
says nothing of what snapshots hold (`CollectsAtRest`); every step of the driver
preserves `IInv` as before, and `NextRefines` carries over to `CollectedRefinement`. `KeepsCorrect` is about any collector: of a group, which
under `DistinctSegments` is one directory's (`ScanKeeps`), all but `Keep` are chosen; a snapshot
taken later is nobody's choice (`DriveKeeps`), and one whose removal fails or is abandoned is
only one more that stays (`RemovalKeeps`).

**The marketplace flow.** `RunInv` reads off where a run is how it went: it has not
reported before it is over, only a run that succeeded is recorded. `HostInv`, while nobody else
deploys and the process lives: the working directory holds the run's version from its
extraction to the installation, nothing fails after the installation, and the host has the
version exactly from then on; a run rolled back without snapshots (`LeftAsItFell`) is exempt. `FleetInv`: the Hub knows what was there before the run
until it is told how the run went.

**Only model-checked**: all liveness (`Converges`, `InSync`, `SettlesDown`, `BuildEnds`,
`EndsOrHangs`, `ErrorsBecomeFailures`, `FailuresEndReported`), since temporal reasoning under
fairness is beyond the prover, and what `Scaffold` writes (`ScaffoldedBackwards`, above).

## 7. Divergences found

Four runs show the code doing something else than its own documentation says. Each is
listed in `PROJECT.json` ("findings") with both lines.

1. `agent/pipeline.py:130` — `run()` reports failures for a `DeploymentError` only. A
   resolver error, an `httpx` error, an `OSError` or a validation error leaves the run
   in a non-terminal state and unreported, although `pipeline.py:133-137` gives such
   silence as the reason the report exists.
2. `agent/watcher.py:80` — the record is written before `force_restart`. A supervisor that
   raises ends the tick; the next one finds the version recorded, and the remaining
   plugins keep running the old code for ever.
3. `agent/gc.py:61` — `rsplit("-", 2)` takes the last dash-separated part of a plugin's id
   for the id: `demo-plugin` and `auth-plugin` share one quota of snapshots.
4. `watch_sources.py:129` — a git source raises an `AssertionError` outside the per-source
   `try`; sources after it are never checked, and what was merged before it is not
   recorded.
## 8. Known limits of the code, and premises they impose

Properties carry the premises below because the code promises no more; each was
confirmed by a counterexample, or follows from the lines named in "hazards".

* `snapshot` defaults to off: a directory whose first install takes none keeps the
  failed version, or a part of it, after a rollback, although `docs/pipelines.md:127-129` says that a
  failed deploy "leaves the host on the previous known-good version". What the modules say of a
  roll-back has the snapshots as its premise: `Protected` in `AtomicDeploy`, `Deployment` and
  `DeploymentRunner`, `snapshots` in `MarketplaceRunner`.
* The records of a rollback are in memory. After a crash, the next deployment takes the
  torn tree for the state to return to.
* A run whose notification fails after the install stage is FAILED with the new version
  on the host (`HubNotMisled` says what is still true).
* `state.json` is truncated in place and read without tolerance: a crash or a full disk between the
  two ends every later tick, for the Hub flow (`NotRetried`) and for a slug (`record = Corrupt`).
* A failure after the record was written (the collector, a restart) is not made up for by
  a later tick: the version is recorded.
* The watchers' supervisor is none by default, and then no process is ever restarted:
  `Settled` speaks of processes only where there is one.
* Commands of a supervisor and git have no timeout: one that hangs holds its deployment or tick
  for ever (`EndsOrHangs`, `MayHang`).
* A revert at the Hub after a run that failed in notify, and a manual deploy, leave a
  record that names what the Hub says while the host has another version. A deploy by hand in the
  middle of a tick may change what the tick restarts and records (`RestartedOnRecord`); two
  installations at one time may leave the host torn.
* A collector of *another* process may take away the snapshot of a deployment in progress
  (snapshots are ordered by the mtime of the trees they were copied from, so that the newest record
  need not be the youngest snapshot), and a watcher's cache collection the working directory of another process's run,
  of which it then installs a part (`Collected`; `Undisturbed` is the premise).
* Snapshots are ordered by an mtime that `copytree` took over from the source tree; the
  quota may keep an older snapshot of a newer build.
* `resolve-sources` at boot puts the pins back over what watch-sources merged, whose record
  stays (`Forward`). The record is taken to outlive the container; where it does not, every start
  is one without a record.
* `run()` of the marketplace flow reports in `except DeploymentError` and at its end: an `httpx` error,
  an `OSError` or a rollback that raises ends it without a call, although `docs/marketplace.md:70-71`
  says that every run makes one (`"escaped"` in `FailuresEndReported`).
* The resolver cache has no lock; two calls for one directory may interleave
  (`overlapped`). Its key has no origin: the same tag of a fork shares a directory.
* The runners that the command line and the watchers build use `NullSupervisor`: start, restart
  and healthcheck steps of a plan do nothing there, and what runs is the old code until
  `force_restart` (`ServesWhatItInstalled` is of the other supervisors).
* A rollback restores directories, not processes: after a step behind a restart fails, the
  processes run the new code over the old directories, or are stopped. What
  `docs/pipelines.md:127-129` says of the host holds of protected directories only.
* `start` leaves a running unit as it is: only `restart` has it load what was installed. A plan
  of `init-plan` has `start`.
* `kubectl rollout restart` without a health check returns before anything has changed; of a
  Deployment with 0 replicas it starts nothing, and `rollout status` then succeeds.
* A git source without its subdirectory leaves its marker behind: `resolve()` fails for it until the
  directory is removed by hand.
* A directory named `x.template` in a sourced item survives pruning and is not counted by the
  digest, and a link to a directory is copied but not counted: no agent accepts such an
  artifact, although `builder.py:641` says that the two "can never disagree about what actually
  gets sealed". `AcceptsOwnBuild` names both cases.
* `manifest.json` stays in the tree after every build, and the next one refuses to start until
  it is removed (`Inspect`, `RemoveManifest`).
* The sums of embedded plugins and extensions in the manifest are compared with nothing; what
  protects them is the digest of the whole.
* A plugin `ext_bus` beside an extension `bus` gives a plan with one id twice, which is refused.

## 9. Not modelled

* *Manifest schema, field formats of install.yaml and of the scaffold's YAML*: no state; the plans
  and the sources they allow are inputs.
* *Ciphers, HMAC, signing*: pure functions of bytes; their verdict is an input (`flaw`, `forged`).
  The digest is modelled by what it covers. `sign_installed_plugin` writes next to the tree that
  was just copied, and is part of `Copy` of `InstallDriver`.
* *What the operator's commands do* (provisioners, prepare): outside; a step that may raise.
* *HTTP mapping, URLs, headers, option parsing, log output, `InMemoryHubClient`*: left out.
* *Data*: a tree is a version, not files, but in `PluginResolver` (two files) and `Packer` (files by
  kind); digests are modelled by what they tell apart.
* *Docker*: `docker compose` is to these steps what systemd is; no separate kind.

## 10. Plan

Done, in this order: the executor and its abstract specification; the Hub's pipeline; its
daemon; the collector beside the executor; the container side; the resolver cache; the plan's
sort; the marketplace flow; the supervisors and processes over the executor; the packer and the
scaffold over the plan; the pipeline over its abstract specification `Deployment`; the proofs of
section 6.

Next: `Watcher` over `Deployment` by a second mapping, so that its one-step `Deploy` is related
to the same abstract specification as the runner; the `MarketplaceRunner` over it likewise; and
what of `FleetViewTrue` remains when an operator deploys beside the watcher.

## 11. Running it

    tlasany InstallDriver.tla
    tlc -workers 2 -config MCSupervisedInstall.cfg MCSupervisedInstall.tla
    tlc -workers 2 -config MCPacker.cfg MCPacker.tla
    tlapm InstallDriverProofs.tla

A run marked *violated* in section 4 ends with the counterexample that shows the
divergence. The longest run takes about two minutes,
the proofs of all eight modules a few minutes from nothing.
