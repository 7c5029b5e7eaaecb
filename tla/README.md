# genv, modelled in TLA+

genv keeps a machine in step with a spec file: `genv.json` declares packages,
services, files and environment for each target, `genv.lock.json` records what
genv has done, and the commands move the machine from the one to the other.
This directory holds TLA+ models of the parts of that which are hard to test,
the TLC configurations that check them on small instances, and proofs, checked by
TLAPS, of what must hold on every instance.

All paths below are relative to the repository; line numbers are those of the
commit the models were written from. `PROJECT.json` maps every definition to its
lines.

    tlc -workers 2 -config CommandsRace.cfg MCCommands
    tlapm CommandsProofs.tla

## 1. The system

### 1.1 Components

| component | state it keeps | operations |
|---|---|---|
| lock mutation mutex (`internal/genvfile/lockmutex*.go`) | sidecar file `<lock>.mutex`, its inode, the flock on it | `LockMutation`, `acquireMutex`, `releaseMutex` |
| lock and spec files (`internal/genvfile`) | `genv.lock.json`: target stamp, tracked packages, services, files, environment, receipts, pending restart records; `genv.json` | `ReadLock`, `WriteLock`, `Write`, `WritePrivate`, `BackupForeignLock`, in-place rewrites |
| tracking commands (`main.go`: add, adopt, remove, disown, scan) | none of their own; a staged spec, a copy of the lock | the commands |
| editing commands (`internal/commands`, `internal/genvfile/rewrite.go`, `internal/migrate`, `internal/export`, `internal/profile`) | the documents: `genv.json`, profiles, snapshots | add, remove, env, shell, service, migrate, export, profile |
| composition, merging, validation (`internal/compose`, `internal/schema`) | none | load and select modules, merge defaults and targets, validate, name owners |
| reconciler (`internal/resolver/resolver.go`) | a plan per apply | `Resolve`, `LoadLiveSet`, `ReconcileWith`, `ExecuteApply`, `FillMissingInstalledVersions` |
| foreign-lock gate (`internal/lockgate`) | reads the stamp of the lock | `CheckStrict`, refusal, `--force-new-lock` |
| upgrade (`internal/upgrade`, `ExecuteUpgrade`) | a plan, versions before and after, errors | `BuildUpgradePlan`, `RunUpgrade` |
| restart follow-through (`main_service_restart.go`, `internal/service/changes.go`, `internal/verify`) | decisions, failed services, pending records in the lock | `runRestartPhase`, `recordPendingActions`, `clearPendingActions`, `Health` |
| updates worker and timer (`main_updates*.go`, `internal/service/scheduled*.go`) | an OS job; the worker is a run of upgrade | `_updates-run-once`, `updates enable`, `disable` |
| service plan (`internal/plan`) | an order of the services | `Build`, `topoSort` |
| service supervisor (`internal/service`) | unit files, agents and tasks of the OS, the services section of the lock | apply, remove, start, stop, restart |
| files applier (`internal/files`, `main_files.go`) | links, directories, rendered templates, backups, the files section of the lock | `Apply`, `AdoptAll`, `Status` |
| environment and shell (`internal/env`, `internal/shellcfg`, `internal/profilebackend`) | fragments and the lines that source them | `applyEnvVars`, `applyShellCfg` |
| external packages (`internal/external`) | the installed files, their backups, the receipt in the lock | resolve, verify, judge, install, undo, adopt, remove |
| hooks (`internal/hooks`, `hook_lifecycle.go`) | none | run a hook with a timeout |
| pull, completion, search, output | none | conversions and fetches |

### 1.2 How they interact

* Every command is a process of its own. Processes meet only in the two files, in
  the sidecar mutex and on the machine.
* The mutex covers the lock file, not the spec: a command that changes the lock
  takes it, reads the lock, works (possibly for minutes), writes the lock, and
  gives it back. `apply`, `upgrade` and the worker hold it for their whole run; `add`
  and `adopt` only for the append at the end; `remove`, `disown` and `scan` from
  before they read the lock.
* The spec is read at the start of a command, changed in memory (staged), and
  written whole when the command gets there.
* The restart phase runs inside the upgrade's mutex and makes its own
  read-modify-writes of the lock (pending records).
* The documents become one environment before anything else happens: composition
  picks the modules of the target, merging overlays target on defaults, a profile lies
  over a legacy document. Apply hands that environment to its parts one after the
  other: packages and external packages, files, environment, shell, services. Each
  part compares it with its section of the lock and with the machine.
* adopt works on files before it takes the mutex, so it runs beside an apply.
* The package managers and the service supervisor are external programs: they fail,
  partly succeed, and are used by people behind genv's back. So are start-up
  files, targets of links, units and installed binaries: the user edits them.

### 1.3 What is hard, and what makes it correct

`PROJECT.json` lists the hazards line by line. In short:

* **The mutex** is a file that its holder deletes. Correct: one holder at a time,
  whatever is unlinked, created again, refused or killed; no leftover file;
  somebody gets in while anybody waits.
* **The commands** are long read-modify-write transactions over files and a
  machine that cannot roll back. Correct: no command undoes another's change to
  the lock; an entry leaves the lock only on purpose; genv uninstalls only what it
  tracks, and never loses track of what it installed; a successful apply has
  made lock and spec agree; a killed apply is picked up by the next one.
* **The restarts** replace binaries under running services. Correct: stop in
  reverse dependency order, start in order over dependencies that came back,
  restart nothing on a guess, say something about every service left on an old
  binary, keep a record of what is in flight and clear it only when it happened.
* **The service plan** must be topological, deterministic and refuse cycles.
* **Files**: a link, directory or template replaces what is there, through a backup
  whose name is chosen before it is used, while an adoption may be at work.
  Correct: no bytes of the user's are lost, nothing is replaced without consent, a
  second apply has nothing to do, a dry run foretells a run.
* **External packages** replace binaries one by one and find out afterwards whether
  they work. Correct: a failure undoes all of them, the old ones can be recovered
  wherever the command is killed, nothing unverified runs unasked, receipt and
  disk agree.
* **Composition** must be the union of the documents, whatever the order of modules
  and their requirements, and refuse exactly the disagreements; what `validate`
  accepts, `apply` must be able to compose.
* **Edits of the spec** must do what they say to one target and nothing to the
  others, though a target inherits, overrides and deletes; a migration must tell
  every machine what it was told before.
* **Services**: definition on disk, definition loaded and process running may be three
  different ones after a failed call. Correct: they converge, an idle apply bounces
  nothing, what leaves the spec is unloaded or known to have been let go of.
* **Fragments** share start-up files with the user. Correct: a shell that starts after
  an apply sees the spec, the user's lines stay, nothing is sourced twice.

## 2. The modules

| module | models | role |
|---|---|---|
| `Mutex` | what `LockMutation` promises | abstract specification |
| `LockMutex` | `lockmutex.go`, `lockmutex_unix.go`, `lockmutex_windows.go` | detailed specification; implements `Mutex` |
| `Lists`, `ListTheorems` | the loops that filter a list | operators and their theorems |
| `Reconcile` | `resolver.go`, `writeLockAfterApply` | pure operators |
| `Commands` | add, adopt, remove, disown, scan, apply, upgrade over spec, lock, machine and mutex | composes `Reconcile` with the mutex that `Mutex` promises |
| `CommandsProofs` | | proofs about `Commands`, and about the operators of `Reconcile` |
| `UpgradeRun` | upgrade, worker, restart phase | a run at a time, inside the mutex |
| `ServicePlan` | `internal/plan/plan.go` | the algorithm whose orders `UpgradeRun` starts and stops services in |
| `Files` | `internal/files`, `main_files.go` | apply and adopt over a small tree, system call by system call |
| `FilesProofs` | | proofs about `Files` |
| `External` | `internal/external`, its callers in `main.go` and the resolver | install, upgrade, adopt and remove of one recipe |
| `ExternalProofs` | | proofs about `External` |
| `Compose` | `internal/compose`, `schema/merge.go`, the rules of `validate.go` it rests on | Resolve step by step, checked against the union as a set |
| `ComposeProofs` | | proofs about `Compose` and `ServicePlan` |
| `SpecLife` | `internal/commands`, `genvfile/rewrite.go`, `migrate`, `export`, `profile`, `schema` | every command that writes a document |
| `GenvfileProofs` | | proofs about `LockMutex` and `SpecLife`, the two models of `internal/genvfile` |
| `Services` | `internal/service`, `applyServices` | applies and imperative commands over four supervisors |
| `ServiceProofs` | | proofs about `Services` and `UpgradeRun` |
| `Fragments` | `internal/env`, `internal/shellcfg`, `internal/profilebackend`, their callers | apply of the two sections over the start-up files |
| `FragmentsProofs` | | proofs about `Fragments` |
| `MC...` | | instances for TLC |

### 2.1 `Mutex`, `LockMutex`

A process is at a label between two system calls: `OpenFile`, `FlockExclusive`
(blocks while another descriptor locks that inode), `SameFile` (both stats and the
comparison), `StaleUnlock`/`StaleClose` (the retry loop), then `Unlink`,
`Unlock`, `Close` on unix, and `Unlock`, `Close`, `RemoveSidecar` on windows. Which of the two
builds runs is the variable `unix`, chosen in `Init`. `path` is the inode the
sidecar's name refers to; inodes that nothing names and nobody has open are used
again, as a file system does. `CallFails`, `StatFails` and `Crash` are the
faults; the kernel drops a dead process's descriptors and flocks. On windows a
remove fails while anybody has the file open.

### 2.2 `Reconcile`, `Commands`

`proc[p]` is the record of the command that process p runs: its arguments, the
spec as it will write it (`staged`), its copy of the lock (`lf`), the entries it
makes, its plan. Each action is one access to a file, the mutex or a manager:

| command | steps, in the code's order |
|---|---|
| add | `AddStage`, `AddInstall`, `WriteSpec`, `LockMutation`, `ReadLock`, `WriteLock` |
| adopt | `AdoptStage`, `AdoptQuery`, `AdoptCheck` (outside the mutex), `AdoptPrepare`, `WriteSpec`, `LockMutation`, `ReadLock`, `WriteLock` |
| remove | `RemoveStage`, `LockMutation`, `ReadLock`, `RemoveUninstall`, `WriteSpec`, `WriteLock` |
| disown, scan | `...Stage`, `LockMutation`, `ReadLock`, `WriteSpec`, `WriteLock` |
| apply | `LockMutation`, `ReadLock`, `ApplyPlan`, `ApplyRemove`\*, `ApplyInstall`\*, `WriteLock` |
| upgrade | `LockMutation`, `ReadLock`, `Upgrade`, `WriteLock` |

`Return` is the deferred unlock and the end of the process. `May(fault)` guards the
ways in which a step does not succeed: a failing install, uninstall, inventory,
version query, hook or file access, a declined confirmation, another failing part
of an apply (`other`: files, services, environment), a kill (`Crash`), an edit of
the spec (`EditSpec`), an uninstall behind genv's back (`ByHand`). `mine` is
history: which copies genv installed, and for which target.

`Reconcile` holds what apply computes between those steps: the manager a package
resolves to, which managers are asked for their inventory, the plan, and the lock
after it. A name under a manager is the package's id; a version constraint is the
set of versions that satisfy it.

### 2.3 `UpgradeRun`

One run at a time (the run holds the mutex), any number of runs one after another,
each in one of three modes: `text`, `json`, `unattended` (the worker). The state
between runs is the machine (versions installed and available, services running,
services running an old binary) and the lock (recorded versions, pending
records). A run goes through `Begin` (plan, outdated filter, batching, the worker's
deferrals), `UpgradeAction`/`SkipElevation` per command, `WriteLock...`,
`DecideFrom...` (evidence and decisions), `RecordPending` per service, `Stop`,
`Start`, `ProbePasses`/`ProbeFails` (health checks), `Clear`. `Crash` may strike
between any two, a killed package command having done any part of its work.

### 2.4 `ServicePlan`

`Build` and `topoSort` as the loop they are: `Refuse` (a service that requires
itself or no live service), `Edges` (counts and the first ready services), `TakeReady`
per iteration, `Finish`. `PlanInit` is any table of declarations. A name is a number, in
the order of `sort.Strings`; the sorted ready list is the set of its members. A
requirement that is named twice keeps both entries, in the list and in the
dependents, as in the code. The stop order is the reverse of the start order.

### 2.5 `Files`

`fs[p]` is the node at a path: nothing, a file (whose bytes, which version, whether its
mode is the declared one), a link, or a directory; one directory `Dir` has an entry
`Child`, and `Dir` may be a link into the sources, so that `Child` names a source.
`bak[p][k]` are the names `backupPathFor` can make within one second. An apply goes
through the entries (`Look` decides with `Verdict`, then `MakeDir`, `RemoveTarget`,
backup, link or `Write`, `Perm`), adopt through its own (`Seed`, `Copy`, swap,
`Record`). The two interleave; each step may fail or be the process's last. The
user edits sources and spec in between. Entries: links (plain, managed, merge),
templates, directories, with and without backup and mode; runs with and without
`--force`, `--backup`, dry. `kept` is history: the user's bytes that no run was
told to discard. Whether apply and adopt were ever at one target at the same time is
`raced`: there the first-free backup name is a race, recorded in section 5.

### 2.6 `External`

One package, its recipe (direct, archive or script; version constraint, tag pattern,
channel, verifiers, destinations that may depend on the version) and three paths, one of
which needs sudo. A command goes through `ResolveRelease`, `Download` (with the
verifiers that vouch, and the schemes of the URL it began with, `url`, and of the one
the last redirect led to, `via`), `Judge` (the policy for the three modes: interactive,
`--yes`, unattended, which is told `url` only, engine.go:101), per file `Clear`,
`Backup`, `Swap`, then `Detect`, and `Finish` or `Undo`/`PutBack`; removal through
`Inspect`, `Uninstall`, `Take`, `Delete`; both end in `Record`. The bytes of a file are
whose they are and which version they report. Every call may fail, the process may be
killed before any, and the user may replace a file, the recipe or the provider's list
between commands. `broken` says what kept an undo from being complete, `astray` which
paths a kill, a failed write, a failed undo or a recipe with new destinations led out of
the receipt, and what scripts installed, of which there is no list: the properties
except exactly these. The transactions over an archive's files are counted in
`job.begun`, and `job.had` has those that found something to back up. A removal moves
files into directories of its own, which nobody looks into again after a kill: `Kill`
empties `taken`.

### 2.7 `Compose`

`Resolve` as the loops it is: the closure of the modules is loaded breadth-first
under the limits on depth, number and bytes (`Load...`), selected depth-first with an
explicit stack (`Visit...`), folded into the accumulator that refuses conflicts and
claims of one path for two uses (`AddNext`, `AddRefused`), and the result checked
against the watch targets and the service plan. `validate` does it for every target
and with every module, then `apply` for the active one. Paths and keys are
sequences of segments, so that the rewriting of a module's assets is what it is
in the code. The reference definitions (`Closure`, `AllLive`, `Disagree`) say the
same as sets, without order.

### 2.8 `SpecLife`

A document has a version, lists (package, file, hook; absent or listed), named
entries (env, alias, service; possibly a tombstone), predicates on hosts if it is a
legacy one, defaults and targets if it is portable. Every command is an action that
reads, edits in memory, validates, and writes back what its serialisation keeps:
`add` and `remove` rewrite the text in place, the others marshal (omitempty).
`Migrate` turns predicates into targets; an export copies its assets, then writes
snapshot and report, with a fault between any two; a profile is created from a
template, edited by the user, and merged over the base. Expected effects are stated
over the merged environment of every target, not over the document.

### 2.9 `Services`

A unit is what the supervisor knows by a name: its definition on disk (`file`), the one
the supervisor holds (`loaded`), the one its process was started with (`running`). Four
platforms: systemd, launchd, Windows tasks, and a Linux without `systemd --user`. An
apply takes the names in the code's order, each through the calls of its backend
(template or generated unit, brew, scheduled task, command); then it unloads what left
the spec and notes the lock. `StartService`, `StopService` and `RestartService` are the
imperative commands. Calls fail, queries (is-active, list) and the daemon-reload after a
removal among them, and processes are killed; the user edits spec and templates, a
unit's process ends, a unit is unregistered, the day changes. A start that reports
success leaves the definition running or nothing (`StartOf`): no supervisor waits for
the process to stay up, and a plist need not run at load. A generated plist is labelled
with the service's raw name and called by its slug: launchd does not know the units of
names in `Renamed` by the label genv calls (`Known`). `cut`, `loose` and `installed` are
history: units on which a call was cut short or that were written for a declaration the
lock did not take over (`Forgotten`); units that a change of identity, an ignored
failure (`bootout`, `stop`, `daemon-reload`) or such a label took out of the lock's
reach; and for whom a unit was installed. A declaration is a record of words, names and
templates over any set of strings (`Texts`, `Forms`); the assumptions on the constants
say just that, and that no name occurs twice.

### 2.10 `Fragments`

A start-up file is a sequence of lines of which only what genv can tell apart
matters: the user's, a marker, a block's begin and end, a line that sources a
fragment of this or another home. An apply does env, then shell, each `Render`
(fragments of every backend of the host) and `Inject` (the start-up files), then
`Finish` writes the lock sections that succeeded. The user edits the spec and
the start-up files, the host changes, the lock is lost; calls fail and the process is
killed. `ReplaceOrAppend` is what the posix backend does to its block,
`ReplaceBetween` what the PowerShell backend does to its own.

### 2.11 What the models abstract

* `--skip-packages`, profiles, external packages, track-only managers, cache
  cleaning, `--dry-run` and specs older than schema version 8 are left out. A
  spec is a table of declared packages for each target; the order in the file is
  abstracted.
* The lock's target and operating-system stamps are one value.
* Apply's read of the spec is part of its plan step: both happen under the mutex,
  and an edit between the two is an edit before or after the step.
* What apply does besides packages is one fault, `other`, which makes the run fail.
* In `UpgradeRun` which packages the filters and constraints leave is any subset;
  a package's version is a number; a service that starts loads what is installed.
* `Files`: the entries of a merge directory are one link each; sources are edited only
  while no apply runs; what a template renders to is a version of its source's bytes.
  `Dir` is named by directory entries only, and its `Child` by merges and templates only
  (`SpecsAssumption`): the tree has one directory that may become a link, and an entry
  that links `Dir`, or one in it, elsewhere would need a second.
* `External`: one package; an archive's files are its destinations; the release list
  is any short one; what the network does is a failure or a set of verifiers that vouch.
* `Compose`: a list or map walked in sorted order is walked in one fixed order; a
  document is a regular file, a link, a directory or missing; a resource's value is a
  model value with the asset it names.
* Where the code tests one condition after another and more than one can hold, the
  model has `IF ... ELSE IF`: the `CASE` of TLA+ does not say which true guard is taken.
* `SpecLife`: the text of a document is its content, the `$schema` key and empty blocks;
  recipes are valid; modules add nothing; two processes that edit at once are the
  matter of `Commands`.
* `Services`: a health check after a restart, edits during a run, login and reboot, and
  an imperative command that overlaps an apply are left out; a command line is the
  sequence of its words. A process that dies after its start is one that never ran.
* `Fragments`: an edit of the spec during an apply counts as one after it; start-up
  files are edited between the two rewrites of an apply; quoting, fish and the
  existence of `.profile` are left out. What a document declares is finitely many
  variables and entries (`DocumentsAssumption`). No PowerShell profile begins with a
  marker of one block inside another (`RcsAssumption`, `Apart`); nothing the model's user
  or genv does brings that about.
* Output and log records are left out, the exit status is kept.

## 3. The runs

Every run passes.

| run | question | bounds | states |
|---|---|---|---|
| `LockMutex` | mutual exclusion, no leftover file, refinement of `Mutex`, progress | 3 processes, 3 inodes, 2 faults, both builds | 47,466 |
| `CommandsRace` | do concurrent commands lose anything, can they all be stuck? | 2 processes, 2 ids, 1 manager, 3 commands of any of the 7 kinds, 2 faults of 8 kinds, symmetric | 1.45 million |
| `CommandsAlone` | does a sequence of commands, with kills, converge? | 1 process, 1 id, 2 managers (1 without an adapter), 2 targets, 2 versions, 3 commands, 3 faults | 2.17 million |
| `UpgradeFaults` | is the restart phase right under every fault? | chain of 3 services, 2 packages, 2 versions, batching, 2 probes, 3 faults of 9 kinds | 577 thousand |
| `UpgradeFollowThrough` | is nothing forgotten when only the restart phase fails, and does every run end? | the same chain, 3 versions, no batching, 1 fault | 432 thousand |
| `ServicePlan` | is a plan a start order, the same one every time, and a reported cycle a cycle? | every graph over 4 services: every set of requirements, two lists with duplicates, tombstones, undeclared names | 335 thousand |
| `Files` | does applying lose, take or misreport anything beside an adoption and edits? | 2 specs of 4 targets and 4 sources, 2 applies with any options, 1 adoption, 1 fault, 1 edit (2 of these three together), 3 backup names | 1.62 million |
| `External` | is a failed or killed installation undone, is everything verified, is the receipt true? | 9 recipes, 3 disks, 3 release lists, 3 commands, 1 fault, 1 edit, redirects | 3.30 million |
| `Compose` | is the composition the union of the documents, whatever their order? | single documents, pairs of modules with 18 contents each, every graph of requirements over 3 modules, each limit at 3 | 128 thousand |
| `SpecLife` | does every command that writes a document do what it says, and nothing else? | 15 documents, 4 profiles, 2 machines, 3 commands, 1 fault | 86,637 |
| `Services` | do unit files, supervisor and lock converge, and is nothing bounced or forgotten? | 4 platforms, 2 names (1 unlike its slug), 3 templates, 3 commands, 1 fault, 2 edits | 1.75 million |
| `Fragments` | do new shells see the spec, and do the user's lines stay? | 6 hosts, 4 documents, 3 applies, 1 fault, 2 edits | 1.27 million |

Why the bounds are enough. Every hazard of the mutex needs a holder, a waiter
on its inode and a third process that creates the file anew, so three processes;
three inodes are never all in use when a file is to be created. A lost update
needs two commands, and a third to notice it; a second id shows that a command does
not disturb what it is not about; commands are symmetric in their processes. The
foreign-lock gate needs two targets, drift two versions, a lock entry that cannot be
uninstalled a manager without an adapter. The restart phase needs a transitive
dependency (three services), a package watched by several services and one
watched through a dependency (two packages), all three kinds of health check, and
runs after runs, which the fault bound limits and no run bound does. Four services
have every shape that matters to the sort: a cycle of two with a service that
depends on it and one that does not, a diamond, two services freed by one.
Idempotence, a retry and a dry run need two applies; for External and the
supervisors a third lets an installation, a failure and a retry follow one
another. Three backup names are one more than two processes can take before the second
ends. Two contributors are enough for a conflict, three for a cycle behind a
selection or a module required from two sides. Two machines tell an edit of a target
from one of the defaults. Two names tell a service from its neighbour and one
that was renamed from one that was removed.

`CHECK_DEADLOCK FALSE` is said where a bound on commands, runs or releases lets the
system come to rest, and where `Build` or `Resolve` has returned. `LockMutex` checks
for deadlock; of `Commands`, `SomebodyCanGoOn` says the same of the
commands under way.

### 3.1 Properties

A run checks a few conjunctions, named for what they promise; the parts are
definitions of their own, each stated above its definition with the lines it is about.
A type invariant is a conjunct of one property of each module; those of `LockMutex` and
`ServicePlan` are proved instead.

| module | property | parts |
|---|---|---|
| `LockMutex` | `MutualExclusion`, `NoLeftoverSidecar`, `RefinesMutex` | |
| | `Progress` (liveness) | |
| `Commands` | `SnapshotIsCurrent`: from its read to its write, a command holds the mutex and its copy is the lock on disk | |
| | `NoOrphan`: nothing genv installed is installed and untracked | |
| | `SomebodyCanGoOn`: while a command is under way, one of them can take a step | |
| | `TakesOnlyWhatItMay` | `ForgetsOnlyOnPurpose`, `UninstallsOnlyLocked`, `RemoveUninstallsFirst` |
| | `ApplyIsTrue` | `TypeOK`, `AppliedMatchesSpec` |
| | `ApplyResumes` | `AdoptsWhatIsThere`, `ForgetsOnlyOnPurpose` |
| `UpgradeRun` | `DoneIsTrue` | `TypeOK`, `DoneIsFresh` |
| | `RecordSpansTheGap` | `StopIsOnRecord`, `ClearIsConfirmed` |
| | `StopsAndStartsInOrder` | `StopsClientsFirst`, `StartsOverLiveDependencies` |
| | `RestartsForAReason` | `NeverRestartsOnAGuess`, `LeavesStoppedAlone` |
| | `FailureExitsNonZero`, `DeferredIsNotUpgraded`, `FollowsThrough` | |
| | `RunEnds` (liveness) | |
| `ServicePlan` | `OrdersDependenciesFirst`, `CycleIsReported`, `FirstOfAllOrders` | |
| `Files` | `NothingIsLost`: the user's bytes are on the disk, somewhere, unless a run was told to discard them | |
| | `OnlyByConsent`: what a step replaces, the spec or an option allowed it to; a dry run changes nothing | |
| | `ApplyIsTrue` | `TypeOK`, `CleanApplyIsOk`, `SecondApplyIsIdle`, `DryRunForetells` |
| `External` | `OnlyVouchedFor` | |
| | `FailureIsUndone` | `RollsBack`, `OldIsKept`, `RemovesOnlyItsOwn` |
| | `ReceiptIsTrue` | `TypeOK`, `ApplySettles`, `Accounted` |
| `Compose` | `SelectsTheClosure` | `TypeOK`, `DependenciesFirst`, `ExactlyTheClosure`, `CycleIsReal` |
| | `ComposesTheUnion` | `RefusedOnlyIfTheyDisagree`, `UnionOfDocuments`, `LikeMergeTarget`, `OwnersDeclare` |
| | `ValidatedCanBeApplied` | |
| `SpecLife` | `EditIsFaithful` | `SpecReadable`, `EditDoesWhatItSays`, `LegacyEditNeverRefused`, `AddKeepsTheText` |
| | `MigrationIsFaithful` | `MigrateKeepsEveryHost`, `MigrateNeverRefused` |
| | `SnapshotIsFaithful` | `SnapshotIsComplete`, `SnapshotIsTheTarget` |
| | `ProfileIsAnOverlay` | `MergedIsReadable`, `ProfileOverlays` |
| `Services` | `ApplyIsTrue` | `UnitsOK`, `AppliedIsCurrent`, `NoOrphan`, `StatusAgrees` |
| | `TouchesOnlyWhatIsDue` | `AppliesSettle`, `SparesTheOthers` |
| | `AnswersAreTrue`: started is what its template says, stopped is down, restarted runs nothing older than what its supervisor holds | |
| `Fragments` | `NewShellsSeeSpec` | `TypeOK`, `ShellsSeeSpec` |
| | `RecordedWasWritten` | |
| | `BlockIsAllThatChanges` | `AppliesSettle`, `UsersLinesKept`, `SourcedOnce` |

Definitions marked `Mutant` are plausible bugs: put in place of the definition
that follows them, they break the property `PROJECT.json` pairs them with. A
conjunction has a mutant for each part that code can break.

Definitions marked `VIOLATED` state what a document or a comment of the repository says
and the code does not do; section 5 says how to see it.

### 3.2 Fairness

* `LockMutex`: weak fairness of each process's own steps. The kernel runs a process
  that can run, and a holder finishes its command. Nothing is assumed of which
  waiter an flock wakes, so `Progress` is deadlock freedom: one waiter may be
  overtaken for ever.
* `UpgradeRun`: weak fairness of a run's steps. Commands and probes return: probes are
  bounded by their context's deadline (`internal/verify/health.go`). Upgrades of
  interactive runs have no timeout in the code: that the package manager returns is
  an assumption.
* `Commands`: weak fairness of the next step of a command under way, and of its
  return, in `LiveSpec` only. `CommandsEnd.cfg` (33 thousand states, not one of the
  runs above) checks `CommandsEnd` under it: every command ends. Package managers
  end, one way or the other; nobody has to begin a command. With finitely many commands
  weak fairness of the acquisition is enough: the last waiter finds the mutex free.
* The other modules have no liveness property: one process works through a finite
  list, and what could keep it from ending is an external program.

## 4. The proofs

* `GenvfileProofs`, on the mutex, for every set of processes and inodes, both builds and
  any number of faults: `TypeCorrect`, `Exclusion`, `Refinement` (the detailed mutex
  implements `Mutex`). The inductive invariant `IInv` adds to the type invariant that no
  two processes hold the flock of one inode, and that a process that is inside still has
  the inode the path names: mutual exclusion alone is not inductive, because it does not
  say why a process that finds its inode under the path is alone. The second conjunct
  rests on the order of release: only the process inside unlinks, and it does so before
  it unlocks. `NoLeftover` states `NoLeftoverSidecar`, from `LInv`: while nothing has
  failed, whenever the path names an inode some process is still going to remove it. A
  waiter counts only if it has that inode open, so `LInv` adds that nobody on the way
  round the retry loop does.
* `CommandsProofs`, for every set of processes, packages, managers, targets, kinds of
  commands and faults. It begins with what `Reconcile`'s operators return for every
  spec, lock and inventory (`PlanLemma`, `LockAfterApplyLemma`). Five invariants, each
  on top of the ones before:
  - `Ind` (`NoLostUpdate`, which states `SnapshotIsCurrent`) adds which commands come to
    write the spec: before the mutex add and adopt, after it the others, at the same
    program point. `Frame` is the argument once and for all: a step that is inside only
    with the mutex and a current copy, and leaves mutex and lock of whoever is inside
    alone, keeps `Ind`; each action is shown to be such a step.
  - `Sound` has the types of what a command carries, and how far an apply has come with
    its plan: what is planned and not queued any more is installed, adopted or failed
    (`CarriesOut`); what is queued for removal and not yet uninstalled is still in the
    lock. From it follow, without any hypothesis, `ApplyMatchesSpec` (`ApplyIsTrue`),
    `NothingIsForgotten` (`ForgetsOnlyOnPurpose`) and `OnlyTrackedIsTaken`
    (`UninstallsOnlyLocked`). `Ind` is needed beside it because a plan speaks of the
    copy, and the theorems of the lock on disk.
  - `Uninstalled` (`NothingIsTakenInPassing`: all of `TakesOnlyWhatItMay`): when a
    remove comes to write the spec, the copy is gone, or an add that installed it again
    still waits to record it. Assumes no kill and no failing write of the spec: an add
    that dies between its install and its record leaves the remove with neither.
  - `NotThere` (`ApplyTakesUp`, `ApplyResumes`): what an apply has yet to install and
    the lock does not know is not on the machine. Assumes that inventories answer and
    that no add runs beside the apply: add installs before it takes the mutex, so an
    apply may find its package there and unrecorded.
  - `Recorded` (`NothingIsOrphaned`, `NoOrphan`): what genv installed is in the hands of
    a command on its way to record it, or in the lock, and nobody who has uninstalled it
    is about to drop it. Assumes one manager, no kill, files that can be written, no
    forced apply; without any one of these there is an orphan (section 5 has the
    manager's).

  The assumptions on constants are `CommandsAssumption` (the free mutex is no process, ids
  are finitely many, there is a version) and `ReconcileAssumption`.

* `ServiceProofs`, on the upgrade run, for any packages, managers, services and
  requirements between them, health checks, policies, and any number of runs and
  faults. `Ind` follows the
  phase loop by loop: what holds of the services a loop has visited (on record; down; up
  and on what is installed; or failed), that the rest is in its queue, and that outside
  the phase nothing of it is left. None of the promises is inductive alone: each is
  about a single step and true because of loops that ran earlier. Theorems: `DoneIsDone`
  (`DoneIsTrue`), `RecordsSpanTheGap` (`RecordSpansTheGap`), `EveryRestartHasItsReason`
  (`RestartsForAReason`), `OrderOfStopsAndStarts` (`StopsAndStartsInOrder`, over chains
  of any length), all without hypotheses; and
  - `FailuresAreTold` (`FailureExitsNonZero`), if records can be written: the text
    report names a record it could not write in place of the failure (section 5);
  - `DeferredPackagesStay` (`DeferredIsNotUpgraded`), if no manager batches: a batch
    command still names the packages taken out of its action (`UpgradeDeferredBatch`);
  - `NothingIsLeftUnsaid` (`FollowsThrough`), if no command, version query or lock write
    fails and nothing is killed: any of these leaves services unreported (section 5).
    Batches, and failing stops, starts, records and probes, are covered.

* `ComposeProofs`, on the plan, for every finite set of services and any requires lists:
  `PlanTypeCorrect`, `StartOrder` (a plan is a topological order of all live services),
  `CyclesAreReported` (a cycle is reported if and only if there is one, with the
  services it blocks). The inductive invariant adds `Counts` (each count is the number
  of list entries whose service is not placed yet, and is zero exactly for what is ready
  or placed), `Earlier` (what is placed stands after what it requires) and
  `NoneOfTheBlocked` (no member of a self-blocking set is ready or placed). Without
  `Counts` a duplicate in a list could free a service early. `FirstOrder`
  (`FirstOfAllOrders`) adds `Smallest`: where an order of the requirements parts with
  what is placed, the plan has the smaller name, because what the order has there has
  all its requirements placed, so it was ready and the smaller one was taken. All assume
  that the names are a finite set of numbers.

* `ComposeProofs`, on the selection, for any repository: `SelectionIsClosure`
  (`SelectsTheClosure`): a command reads nothing outside the closure of its selection
  and composes exactly the closure, each module once and after all that it requires; a
  cycle is reported only if there is one, and nothing that has one is composed. The
  closure is the least of the sets of modules that hold the selection and what their
  members require, so the inductive invariant need not name it: `Within` says that the
  search stays in each of these sets, `Covered` that every selection is done, being
  visited or to come. What makes a module come after all it requires is `Chained`: the
  recursion's stack is a chain of requirements, and what a frame has passed is selected,
  but for the one the next frame visits. The stack is also the cycle when one is
  reported. Assumed is what a repository is (`TreesAssumption`: finitely many modules,
  each with a size, lists of declarations, maps whose entries carry their name), which
  TLC checks of every tree of the runs. `CompositionIsUnion` (`ComposesTheUnion`), on
  the same invariant: what a contributor says is a set of facts, who declares what in
  which block. `UnionInv` has the accumulator hold the facts of the contributors that
  have been added, no more and no less: each resource with the value they give it, all
  its owners, each destination with its claimant (`Gathers`). One declaration keeps this
  or finds two facts that clash (`Outcome`), and the rest is the loops: the declarations
  of a kind, the kinds of a contributor, the contributors in the queue, whose set is the
  closure when the queue is empty. From it follow all four parts: the union, refusal
  only where two documents disagree, the merge of target over defaults as what a root
  without modules says, and owners that declare what they own. Services with a unit
  relative to a module are excepted, as in the property (8 in section 5). TLC checked
  `SelectInv` and `UnionInv` as invariants of the run before they were proved.
  `ValidationIsKept` (`ValidatedCanBeApplied`) compares two resolutions, the one that
  `validate` made of a target and the one that `apply` makes later, with any number of
  other targets between them. Past its loading a resolution is a function of the
  documents and the target: `Ahead` takes one configuration (recursion, selection, queue
  and accumulator) to the next, `Fails` says what stops it, and each action is shown to
  be one or the other. So there is for a target that was validated a set of
  configurations that begins with its first one, that `Ahead` does not leave and in which
  nothing `Fails` (`Good`), and `apply` stays in it. The loading before it is not a
  function of the target, as `validate` reads all the documents first; that it cannot
  fail the second time (`Loadable`) is because `apply` reads some of the documents that
  were sound then and within the limits together. The byte limit is what needs an
  argument: the bytes read are counted as the members of a set (`Weight`), which grows
  with the documents read.

* `ExternalProofs`, for every recipe, verifier chain, release list, set of paths and any
  number of commands, faults, kills and edits. `NothingUnvouched` states
  `OnlyVouchedFor`. What is put in place was decided on several steps before, in
  `Judge`; the inductive invariant says that the decision still stands at every step
  from there to the last file (`Allowed`), because the recipe changes only between
  commands and a command's mode, verdicts and two schemes do not change. Of the scheme the
  bytes finally came by it says only what `Download` refuses: a redirect to plain HTTP is
  in the model, and that the policy does not see it is 14 in section 5. `FailuresAreUndone`
  (`FailureIsUndone`) and `ReceiptsAreTrue` (`ReceiptIsTrue`) rest on a second
  invariant, `Sound`. Neither promise is inductive: `RollsBack` speaks of the end of an
  undo and needs to know, at every file before it, which backup belongs to whom.
  `Undoable` says so (a transaction that found a file has it in the backup, one that
  found none will leave none), `Unchanged` that the paths of no transaction are as they
  were, `SetAside` where a removal has put each file, and `Books` that what is genv's
  and not astray is in the lock. They assume that no recipe names a destination twice
  (`DestinationsDiffer`): the code does not refuse it, and then the second file's backup
  replaces the first one's (section 5).

* `FilesProofs`, for any specs, trees, options, backup names, applies, adoptions,
  faults, kills and edits: `NothingLost` (`NothingIsLost`), `Consent` (`OnlyByConsent`)
  and `TypeCorrect`. That the user's bytes are on the disk is not inductive: a
  replacement is decided on in `Look` and takes up to six system calls, between any two
  of which the other process runs. The invariant says of a process at work (`Ready`)
  that what is at its target is absent, or agreed to be discarded, or on its way to a
  backup name that has been chosen and is still free; and of the tree (`Layout`) that
  only `Dir` is a directory or a link into the sources. `ApplyActs` and `AdoptActs` say
  which paths and backup names a step of one process may change; as long as the two are
  not at one target (`raced`) those are not the ones the other relies on. They assume
  `SpecsAssumption` (section 2.11) and `TreesAssumption` (the trees a run begins with
  are trees of this kind). `CleanApplyIsOk`, `SecondApplyIsIdle` and `DryRunForetells`
  compare whole runs with what status computes from all entries at once, and are left to
  TLC.

* `FragmentsProofs`, for any documents, hosts, start-up files, faults, kills and edits:
  `ShellsHaveTheSpec` (`NewShellsSeeSpec`), `Recorded` (`RecordedWasWritten`),
  `OnlyTheBlockChanges` (`BlockIsAllThatChanges`) and `TypeCorrect`. The first half is
  about the two rewrites of a start-up file, whatever the file holds: after
  `ReplaceOrAppend` the last line of the block for its fragment is this host's, and
  stays so when the other part takes its turn at the same block (`PosixLemma`); after
  `InjectProfileLine` the part's block has its line, or no end, and the other part's is
  as it was (`ProfileLemma`; this is where blocks that overlap would break it, hence
  `Apart`). The second half is the invariant of the apply (`Sound`): a part that is over
  has written and sourced its fragments on all backends of the host, one under way on
  all but those in its queue, one to come has the lock's section untouched. `fresh` is
  only true because of what the part before has left in place. And `ShellsSeeSpec` would
  fail without the last conjuncts, `Blank` and `NoneBesides`: where the lock records
  nothing of a part there is no fragment, so that a part which is skipped has nothing to
  remove; unless a kill, a lost lock or another host (`forgotten`) has left one.

  `OnlyTheBlockChanges` has three parts. That the user's lines stay, and none of genv's
  is doubled, is true of each rewrite by itself, whatever the file holds: every rewrite
  takes out one stretch of lines (`IsSplice`), in which there is nothing of the user's
  (`InjectedKeepsUsers`), and puts in a line for a fragment only in the place of one
  (`InjectedCounts`). That applies come to rest is not: the first rewrite must have left
  what the second finds nothing to change in, also after the other part had its turn
  (the block is `Neat`, or `Tight`), and a second invariant (`Settling`) must say that a
  run injects only where a line is needed and has recorded, at its end, all that the
  spec says.

* `GenvfileProofs`, on the documents, for any documents and profiles, machines, exports,
  commands and faults: `EditsAreFaithful` (`EditIsFaithful`), `MigrationsAreFaithful`
  (`MigrationIsFaithful`), `SnapshotsAreFaithful` (`SnapshotIsFaithful`) and
  `ProfilesAreOverlays` (`ProfileIsAnOverlay`). The inductive invariant `SpecInv` is
  short: what is on disk has the form of a document and is read back (`Readable`), and
  an export under way or over has the snapshot, assets and bundle that `ExportInv`
  relates. The work is in what one step does to a document of any shape.
  - Writing: a document that is marshalled says the same to every target, an empty array
    over a non-empty default excepted (`RewrittenSays`), and what is patched in place
    has the array that was wanted, because `CanRewriteInPlace` compares it afterwards; a
    legacy document whose version has been raised is one that is read back
    (`LegacyWritten`), and after an add only packages differ, so the text stays
    (`AddedWritten`). `AskedDoes` says of each of the four kinds of edit what it makes
    of the environment, whether the target inherits, overrides, or deletes.
  - Migration: what `Bucketed` puts into defaults and targets is, merged again, what the
    predicates selected (`MigratedSays`), in the order of the list; and it keeps every
    rule of portable documents (`MigratedValid`): no tombstone comes up that has no
    default, and a service that requires another finds it in the document.
  - Profiles: `Overlays` is about two lists without a key twice. A position of the base
    stays or gives its place to the profile's item of that key; what is new is appended.
    A key that both have is for the same machines, so filtering does not tell them
    apart, and the positions give the count (`OnceLength`).

  Assumed is that documents have the form that decoding gives them
  (`DocumentsAssumption`) and that the words of the commands are texts
  (`TextsAssumption`). Two definitions were corrected on the way. Of files a legacy
  document may have a target twice, and a profile then overrides the last one only
  (`Stays`). And the merge of two documents without packages has none in memory, which
  `Valid` refuses below version 5; the packages of a legacy document are always written
  (schema.go:190 has no omitempty), so `MergedIsReadable` is about what would be
  written.

* `ServiceProofs`, on the services, for any names, templates, declarations, failures,
  kills and edits, on each of the four platforms: `ServicesApplyIsTrue` (`ApplyIsTrue`),
  `ServicesTouchOnlyWhatIsDue` (`TouchesOnlyWhatIsDue`) and `ServicesAnswersAreTrue`
  (`AnswersAreTrue`), all that the run checks. They rest on one inductive invariant,
  `SInv` (`ServicesInvariance`). What the properties say holds at the end of a command;
  the invariant says what makes it so at every call before.
  - `Positions` says of each place in the middle of a service's turn what has been done
    to its unit (`AtWritten`: the wanted file is there; `AtOut`: the job is out of
    launchd; ...), `Answered` what a start or restart will be able to answer: of a start,
    that the unit is what its template says or `cut`; of a restart, that nothing older
    runs of it than what the supervisor holds. Nothing says that it runs.
  - `Supervision` is about all units at any time: the supervisor is behind a unit's file
    only if the unit is `cut`, or is the one being worked on. Without it an apply that
    finds a template's file unchanged and skips the reload could not be right.
  - `NotesAreTrue`: a plain command's unit says what the lock notes of it, so that
    skipping a service whose entry agrees is right. The exceptions are `cut` and a
    command under way that has written the unit and not yet the lock (`Overtaken`).
  - `Visited`: whom the apply has been through with is current, and stays so although
    others are worked on. Two names may have one unit of the user's naming: `Twin` and
    `Swept` say exactly when one takes the other's.
  - `SettledIn` and `AgainIn` carry this from the end of one apply to the end of the
    next: the lock notes the spec and every service is fine, so every call finds nothing
    to do, but for `enable --now` of a systemd unit that is down.
  - `Orphans`: what genv installed and is still there is claimed by a declaration, or the
    lock entry that removal goes by names it, unless it is `loose`. A step that removes
    has to say, of each way it may go wrong, that the unit has become so.

  A command touches one unit at a time (`Touched`). For each of the 16 kinds of steps a
  lemma says what it does to the run and to that unit (`...Effect`); then each conjunct is
  shown for that unit, and for all others at once (`OtherFine`, `OthersStay`,
  `UnitTurn`). TLC checked `SInv` as an invariant of the run, and of instances with
  other declarations, before it was proved. Two definitions were corrected on
  the way: `Shares` left out two services of one brew formula, and `cut` a unit that
  `service start` writes for a declaration which is taken back before the next apply.

* `ListTheorems`, for every list: what `Keep`, `Distinct`, `ToSet`, `SetToSeq`, `Min`
  and `Max` return. The library's induction theorems take an operator as a parameter,
  which the provers cannot instantiate; `SmallestOf` and `SetInduction` say the same of
  a set of numbers, from the well-foundedness of `<`, and that is how what a recursive
  function computes is proved here. The loops that filter a list are `Keep`, with a set
  where `SelectSeq` has an operator, for the same reason; those that drop what they have
  seen are `Distinct`.

Checked by TLC only: liveness (`Progress`, `RunEnds`; the provers do not do liveness
under fairness), `SomebodyCanGoOn` (ENABLED) and `ApplyIsTrue` of `Files`.

## 5. Where code and documents disagree

Shown by TLC: each of these configurations checks one property marked `VIOLATED`, on an
instance like those of the runs, and ends with a sequence of legal calls that breaks it
(`tlc -config FilesNeverAbsent.cfg MCFiles`). They are not part of the runs above.

1. `CommandsLostAdd`: two concurrent `genv add`: the one that writes the spec last
   staged it before the other wrote (main.go:716), so a package whose add exited 0 is
   not in the spec, and the next apply uninstalls it.
2. `CommandsRestamped`: `genv add` for another target stamps the lock with that
   target without looking at the stamp that is there (main.go:548, SCHEMA.md:88); the
   lock is no longer foreign, and the next apply uninstalls what belonged to the first.
3. `UpgradeDeferredBatch`: a package deferred by the worker leaves the action's list
   and stays in its command when the manager batches (main_service_restart.go:460).
4. `ServicePlanTombstone`: a service that requires a tombstoned one is refused
   (internal/plan/plan.go:86), and with it the spec (internal/compose/compose.go:170);
   the comment at plan.go:61 says that it is not an error.
5. `FilesNeverAbsent`: a target that is replaced by a link is absent between the rename
   that sets the old file aside and the one that puts the link there
   (internal/files/linkat.go:70), "without ever leaving target absent" says line 9.
6. `ExternalRecipeIdentity`: filling in the templates of an archive's destinations
   writes into the recipe itself (internal/external/engine.go:64, template.go:27), so the
   digest in the receipt is not that of the recipe in the spec (engine.go:514).
7. `ExternalTransaction`: an install that is called transactional (engine.go:53) and that
   fails while it deletes its backups undoes itself without those already deleted: a
   destination is left empty (engine.go:160).
8. `ComposeIdentical`: two modules in one directory that declare a service with the same
   relative unit are refused although they are identical (internal/compose/compose.go:845,
   README.md:228).
9. `ComposeValidated`: `genv validate` accepts a spec without modules whose target apply
   refuses (main_compose.go:187, against the comment at compose.go:88).
10. `SpecLifeRemoveRemoves`: an array that `genv remove` empties over a non-empty default
    is not written, omitempty (internal/schema/schema.go:287), so the package stays
    (README.md:267).
11. `SpecLifeExportIsWritten`: the snapshot of a version 10 document is a version 8
    document (internal/export/export.go:98), so a target with fields of version 9 or 10
    cannot be exported (README.md:236).
12. `ServicesRemoved`: a portable service removed from the spec stays running on Linux
    and Windows (internal/service/supervisor.go:443, README.md:364).
13. `ServicesLabel`: the same sentence on a Mac. The plist of a generated job has the
    label `genv.<name>` (internal/service/service.go:279-298), `bootout` and `print` name
    `genv.<slug>`; for a name unlike its slug, such as `apps/web`, removal deletes the
    plist and launchd keeps the job.
14. `ExternalPlainHttp`: "Plain HTTP is never eligible for scheduler execution"
    (docs/external-releases.md:122). The policy looks at the scheme of the asset's URL
    (internal/external/engine.go:101); with `allowInsecureHTTP` the download follows a
    redirect from there to plain HTTP (internal/external/download.go:55), and the bytes,
    vouched for by every verifier, are installed unattended.

Known divergences and limits, read in the code while modelling and not kept as
configurations. Where a property has to except one, its comment or this list says so.

Packages and restarts:

* A locked package without a version, removed by hand, is never asked for: only
  managers of unlocked packages are listed (resolver.go:708), so the re-queueing that
  CHANGELOG.md:377 describes does not happen.
* One failing command makes the worker skip the restarts for every package it did
  upgrade (main_updates_worker.go:224). `UpgradeFollowThrough` has no failing command, so
  it says nothing of that case; `UpgradeFaults` has, for the other promises.
* A command that has installed or uninstalled and then cannot write the spec or the lock
  leaves them behind the machine (main.go:953), which no record undoes. `NoOrphan` and
  `TakesOnlyWhatItMay` are therefore checked with files that can be written
  (`CommandsRace`); lost lock writes are in `CommandsAlone`, where an apply makes up for
  them.
* internal/plan/plan.go:41 gives as the reason of the stop order that a service must
  stop before the services that depend on it; the code, rightly, does the reverse.
* A first apply with one failed install writes packages without a stamp
  (main.go:2010); the retry on the same host is refused as foreign.
* An id tracked under two managers: remove uninstalls the copy of the last entry and
  drops both (main.go:894). And a package that an apply installs again, its version
  having drifted, may resolve to another manager: the old copy stays (resolver.go:822).
  `NoOrphan` is therefore checked, and proved, with one manager.
* A version query that fails after a successful upgrade counts as "unchanged", not as
  "could not be established" (resolver.go:550). `UpgradeFollowThrough` leaves that
  fault, batching and failing commands out.
* `upgradeEvidenceFromLock` lets the lock on disk overrule the versions the run
  carries, also when its own lock write was lost (main.go:4869).
* `clearPendingActions` reports a record cleared when the write that clears it failed
  (main_service_restart.go:335).
* Pending records are written after the upgrade, only for services about to be
  restarted (main_service_restart.go:144, :163), although lockfile.go:124 says
  before; a kill before the phase, or a deferral, leaves none.
* A pending record left by a kill is settled only if a watched version moves again;
  re-running `genv upgrade`, as main_service_restart.go:358 advises, does not.
* Only the worker reports leftover records (main_updates_worker.go:167), README.md:397
  promises it of the next run.
* A service whose record could not be written and which then fails to start leaves the
  text command's exit status at success (main.go:4777). `FailureExitsNonZero` is
  checked without that fault.

Files:

* `backupPathFor` chooses a name outside the mutex and renames onto it later: an apply
  and an adoption of one target within one second can take one name. `NothingIsLost`
  excepts runs in which the two were at one target at the same time (`raced`).
* A link whose source is turned into a merge directory, with the target inside it, links
  the source to itself. The layering of a merge directory is not idempotent, and
  its status disagrees with its apply.
* A template's target that is a link to equal content is left alone by apply and
  reported "wrong type" by status (internal/files/template.go:113).
* `copyFile` is not atomic: an adoption killed while it seeds the source leaves a
  short file, which the retry trusts.
* `mergeLockedFiles` tells entries apart by source, target and kind, `fileContentHashes`
  by target alone.
* A dry run does not foresee errors, nor whether an entry is created or updated
  once a directory above it has been replaced.

External packages:

* A kill between a backup and its swap, and the retry after it, which deletes a
  `.genv-backup` before it makes its own: the original is gone. `OldIsKept` is about one command.
* Between the two renames of a swap the destination is absent.
* An archive recipe may name a destination twice (only sources are compared, archive.go:117):
  the second file's transaction deletes the first one's backup (engine.go:440), and a failure
  after it cannot bring the original back. Found in the proof; no run has such a recipe.
* The third pass of a removal may delete some files and fail at others.
* An upgrade whose destination is templated with the version leaves the old file, out of
  the receipt (`astray`).
* A failed upgrade of a script recipe runs the uninstaller and loses the previous version.
* A package adopted without ownership can never be removed by genv.
* The documents require an acknowledgement even with `--yes`; the code refuses.
* The release list is given up at the first eligible release whose tag does not match.
* A file of the user's at a destination is replaced, and later deleted, without consent.
* The hash is checked before the rename; a file changed in between is not seen.

Composition:

* `claimDestination` claims a service's plist source as if it were a destination.
* `shell.source` entries of a module are not rewritten relative to it; `CleanPath` does
  not expand `~`.
* Duplicates within one document are refused only where there are modules;
  unknown tombstones in modules are not checked; without modules the service plan is not built.
* The owner of a hook is always named as `targets.<t>`.
* The fingerprint leaves out scheduled tasks, backups, hosts and hook timeouts.
* Services with units relative to a module (`RelativeUnits`) are excepted from
  `RefusedOnlyIfTheyDisagree`, `UnionOfDocuments` and `OwnersDeclare`: see 8.

The documents:

* `migrate` refuses a portable document of version 9 or 10, and makes a target `linux`
  that no machine is classified as.
* `profile.Merge` compares versions as strings; a portable profile is ignored or makes
  the merged version portable; a base item is hidden by a profile's item for another
  host (`SameMachines`).
* `genv init` overwrites a spec it cannot read; edits go to the base spec also while a
  profile is active; a hand edit between a command's read and its write is lost.
* The comparison for "nothing but packages changed" forgets adapters; the test for
  duplicates in a legacy document ignores hosts; `FilterForHost` drops updates and adapters.
* An export overwrites assets in place before the snapshot is written; with `--out` in
  the spec's directory it overwrites the spec.
* An array emptied over a non-empty default (`Inexpressible`): see 10.
* The bundle of a composed spec is made from the effective one (compose.go:1102-1137),
  which drops `shell.source`; documents of `SpecLife` have neither modules nor sources.

Services:

* start, stop and restart of a portable service are refused where README.md:364 says
  "skipped, not an error".
* A renamed service with the same template deletes the unit it has just installed; two
  templates with one label take turns; two services of one brew formula are one.
  `Shares` excepts them.
* A changed identity leaves the old unit behind, out of the lock (`loose`); so does a
  label unlike its slug (13).
* A kill or failure between writing a unit and the call that loads it is never made up
  for: the next apply finds the file unchanged (`cut`). Failures of `systemctl restart`,
  `daemon-reload`, `bootout` and `stop` on removal are ignored: a `daemon-reload` that
  fails after the unit's file is gone (supervisor.go:268, service.go:401) leaves the unit
  in systemd and out of the lock (`loose`).
* A start that reports success need not leave anything running: `enable --now` and
  `bootstrap` return before the process has come up (service_test.go:144,
  supervisor_test.go:296), and a user's plist may lack RunAtLoad. No property says that
  a service is up after an ok, only what runs if something does.
* An is-active query that fails counts as no (supervisor.go:219): a template that
  changed then restarts nothing, and the old process stays (`cut`).
* A generated systemd unit that changed is enabled again, not restarted; command lines
  are compared joined with blanks (`SameText`).
* One error keeps the whole services section of the lock as it was; `service start`
  before the first apply leaves a unit the lock does not know of. A unit written for a
  declaration that the lock has not taken over stays when the declaration is taken back:
  the next apply compares with the lock and skips (service.go:153). `cut` excepts it.
* `start` of a launchd job that is loaded and dead says ok; `start` of a service with
  a generated unit runs its command beside it.
* A daily or weekly task is registered again every day.
* A unit of the user's own with the same name is overwritten, and deleted on removal.
* A failing schtasks query counts as registered; `removeLocked` returns no error where
  there is no supervisor.

Environment and shell:

* A part that is empty in the spec and in the lock is not looked at: fragments left
  by a killed apply, a lost lock or another shell stay (main.go:2067, :3153).
  `ShellsSeeSpec` excepts it (`forgotten`).
* Start-up files are written in place, not by rename: a kill half-way loses lines.
* A second `# genv env` block is never updated; with the marker deleted, the fragment is
  sourced twice; a user's own line that sources `shell.sh` right below the block is
  taken for genv's.
* A PowerShell block without an end is never repaired (`Halved`); lines inside a block
  are replaced.
* On Windows without a PowerShell the lock records the environment as applied.
* status compares spec and lock only, not the files.

## 6. Plan

Done: the modules of section 2 with their runs; proofs of all safety properties of the
mutex, the commands but `SomebodyCanGoOn`, the upgrade run, the services, external
packages, the service plan, the documents, the fragments and the composition, and of
`NothingIsLost` and `OnlyByConsent` of the files applier.

Next, in this order:

1. One more proof: `ApplyIsTrue` of `Files`.
2. `AtomicWrite`: `WriteLock` (sync, rename, sync of the directory) and
   `WritePrivate` (rename only) over a file system that may lose what was not synced.
   Abstract specification: a register whose reads return a whole written value.
3. `Timer`: `updates enable` and `disable` against a run of the worker.
4. Apply as a whole: the parts in their order over one lock, with a fault between them
   (today each part is a module and the others are its fault).

Not modelled, and why:

* completion, search, output, logging, version, self path: presentation, or
  conversions without state that others depend on.
* The adapters build command lines and parse the output of external programs; the models
  take the answer, or its failure, as given.
* Host and target detection reads the machine once; the models choose the result.
* pull fetches a directory with git, and what it does on failure is git's.
* The parts of schema validation that check a field by itself; the rules between parts
  of a document are in `Compose` and `SpecLife`.
* The text of unit files, plists, fragments and task definitions, but for what is compared.
* Power failure: what a rename without a sync leaves is planned (2).
