# TLA+ models of axiom-graphd

This directory holds TLA+ models of the parts of axiom-graphd that have state
worth checking, TLC configurations that explore them on small instances, and
TLAPS proofs of the properties that matter most for every value of the
constants. Paths below are relative to the repository root (`src/`).

    tlc -workers 2 -config Publication.cfg MCServe           # one run
    tlapm PublicationProofs.tla                              # one proof module

`PROJECT.json` maps every definition that models code to its source lines, and
lists the runs, the mutants each property is known to catch, the findings, the
hazards and the theorems.

## 1. The system

axiom-graphd keeps a code graph of registered projects up to date. One daemon
per Axiom home walks each project, analyses the files that changed, stores the
facts in SQLite, and publishes immutable *generations* that other processes
read through a pointer file. Around it are a durable job queue, an installer, an
updater, a bootstrapper of managed repository files and a migrator from the V1
layout.

| Component | State | Operations | Talks to |
|---|---|---|---|
| instance lock (`axiom-graphd/src/instance_lock.rs`) | `run/daemon.lock`, `run/daemon.owner.json` | acquire, stale-claim recovery, Drop | every mutating command and the daemon take it |
| watch loop (`axiom-graphd/src/serve.rs`, `lifecycle.rs`) | baselines of the watched roots, the shutdown token | startup pass, polling turns, the 30 s fallback, transient retries, one-shot `build` and `reconcile` | ingests hints, runs a pass per project, publishes the catalog |
| reconcile pass (`serve.rs`, `payload.rs`) | none durable of its own; one pass in memory | recover lanes, inventory, analyse, acknowledge, publish both lanes | store, export, analyze |
| hints (`hint_runtime.rs`, `commands/changed.rs`) | files of `incoming-changes`, receipts | submit, ingest | producers beside the daemon; job rows |
| solution registry and catalog (`commands/solution.rs`, `runtime.rs`, `catalog_runtime.rs`) | rows of solutions and projects, host metadata, catalog lane | register, remove, publish the member vector | the pass, readers of several projects |
| store (`graph-store`) | SQLite: files, graph rows, solutions, publish_outbox, published_generations, jobs, the schema ledger | open and migrate, file observation and acknowledgement, replacement of a file's facts, intents, the writer actor | opened by the pass and by every operator verb |
| export (`graph-export`) | per lane: `.staging/`, `generations/`, `current.json`, a guard file | stage, seal, install, move pointer, recover, load under guard, collect, archive | the pass writes, readers read |
| instance guards (`platform/src/guard.rs`) | `admission.lock`, `data.lock` | plans of publisher, collector and reader, bounded wait | retention of `graph-export/src/gc.rs` |
| job queue (`graph-queue`, `commands/queue.rs`) | rows in `jobs`: state, attempt, fence, lease, ready time | claim, start, heartbeat, commit, fail, cancel, reclaim, `queue retry`, `queue cancel` | workers and operators |
| admission (`graph-queue` enqueue, schedule, budget, barrier, pressure) | pending intents, running keys, in-flight batches, dirty generations | coalesce, order with aging, admit, acknowledge, verify freshness | between watch and queue |
| watch (`graph-watch`) | debounce windows, poll baselines, the sticky recovery state, the inventory | native and polling backends, normalisation, debounce, reconcile with loss recovery, inventory walk | wakes the loop |
| migration (`migration`, `axiom/src/migration_runtime.rs`) | destinations, backups, staged copies, `journal.txt`, plans | plan, apply, restore, resume, roll back | takes the instance lock, a transaction lock and the lane guards |
| ecosystem update and install (`axiom/src/update/ecosystem_runtime.rs`, `axiom/src/install`, `axiom/src/skills`) | versioned payloads, the core pointer, the skills pointer, one journal per update | plan, apply, verify, recover, roll back | stops and starts the owned service |
| uninstallation (`axiom/src/install/ecosystem_uninstall.rs`) | a recovery record | plan, apply, retry, release the root for an install | removes the service, files and pointers |
| per-user service (`axiom/src/service`) | LaunchAgent definition, launchd's label, the process, `service-v1.json` | install, start, stop, uninstall, drain and reinstall of an update | launchd, update, uninstall |
| host configuration, content bundles (`host_runtime.rs`, `package_runtime.rs`, `skills/install.rs`) | host configuration files, version directories, pointers, receipts | plan and apply, verify round trip | maintenance lock; the MCP process |
| managed bootstrap (`axiom/src/bootstrap`) | managed blocks in repository files, ownership manifest, backups, journal, lock | plan, apply, roll back | people who edit the same files |
| executable replacement (`axiom/src/update/native_apply.rs`) | executables, backups, one journal | replace, roll back | no caller yet |
| distribution update channel (`axiom/src/update`) | fetched bundles | resolve, verify, fetch | no caller yet |
| analyzers, encodings, path and configuration checks, rendering | none | pure functions | |

### What is hard in it

* **Two processes at once.** The lock recovers a claim whose owner is gone with
  system calls that other starters interleave with. Readers load a lane while it
  is published. People edit sources, destinations and backups while a pass or a
  migration runs.
* **Crashes between durable effects.** A pass makes about a dozen
  durable effects, in SQLite and in the file system, without a common transaction. A
  migration saves its journal at phase boundaries and after each cutover, and
  restore and rollback only at their end. An update moves two pointers and a service,
  and its rollback has to tell from the disk how far it got.
* **Old transactions.** A rollback may name any earlier update, after installs,
  other updates and other rollbacks have moved the pointers.
* **Late answers.** A worker may come back after its lease expired and the job was
  reclaimed, cancelled or retried by an operator. A host process may answer the
  previous request when the next one waits.
* **Checked, then used.** Plans are compared, digests taken and records read before
  the lock that protects them, or before the write they allow.
* **Losses that must be noticed.** Watch events are dropped, coalesced, split and
  delayed; the queue holds hints back and gives up counting them above a mark.
* **Other releases.** Binaries that ship different migrations open one database.
* **Eventually.** Failed passes must be retried until the lanes show the source;
  missed edits must reach the catalog; low-priority work must run; an
  interrupted migration must be resumable; a shutdown must end.

The list with source lines is `hazards` in `PROJECT.json`; section 4 names the moments
that no property covers.

### What makes each component correct

| Component | Properties |
|---|---|
| instance lock | one owner at a time; an owner's lock file is not removed by others |
| queue | at most one live lease per job; only the newest claim commits; leases are bounded; a cancellation is not overtaken; an eligible job can be claimed |
| pass and store | a clean file has the facts of what was observed; a published payload is one inventory; a pass that ends well has published the store; the lanes converge to the source |
| export | a lane, once readable, stays readable; a guarded reader is not disturbed; the lanes implement a snapshot register |
| migration | previous bytes stay recoverable; other people's bytes are not overwritten; the journal tells the truth; the pointer is last; an interrupted application completes |
| update, install | pointers name payloads that are in place; what a journal says of pointers and service is true; nobody else's pointer is overwritten; pointers move while the owned service is down |
| daemon | accepted hints become jobs, once; the catalog is one cut of the lanes and catches up; an error ends the loop only for a lasting cause, or when an entry vanishes inside the loop's own snapshot; a shutdown completes |
| admission, burst | freshness is never faked; a dirty scope is scheduled; no class starves; a burst loses no path and holds none too long |
| watch | no change is lost between the editor and the inventory, which converges, but for a path that polling cannot tell of |
| store | one lineage of migrations whatever releases open it; what is counted as applied is what is durable |
| guards | what a reader copies stays; a writer shuts new readers out; no wait exceeds its bound |
| bootstrap, host and content applies | only approved bytes are replaced; a half-finished run can be undone; what is active was placed whole, under the lock |
| uninstall | edited files survive; a file goes only under the plan that approved it; a stopped removal can be taken up again |
| import | two graphs are never mixed; the daemon's generation is kept; a pointer has its generation |
| service | foreign definitions are kept; what is started is current; a removed service is gone |
| executables | the last exchange can be taken back |

## 2. Modules

    run               module     extends                                    proofs
    instance_lock     MCWriter   InstanceLock, Daemon, Import               InstanceLockProofs
    job_queue         MCQueue    JobQueue                                   JobQueueProofs
                                 Admission, Burst, Store                    IntakeProofs
    publication_clean MCSource   Publication (SnapshotRegister)             PublicationProofs
                                 Watch                                      IntakeProofs
    publication       MCServe    Publication                                PublicationProofs
                                 Service, RoundTrip, Guard                  ServeProofs
    migration         MCRetire   Migration                                  MigrationProofs
                                 Uninstall                                  UpdateProofs
    update            MCHost     Update                                     UpdateProofs
                                 Bootstrap, Operator, Replace               ApplyProofs

Each MC module sets the modules of one part of the system side by side. A variable
`focus`, chosen initially, says which of them a behaviour is about; the others keep
their initial state, so the state count is the sum and not the product, and an
invariant of one says nothing untested of another. Only `MCRetire` changes the
focus, from a completed migration to the removal. `MCInstanceLock`, `MCJobQueue`,
`MCPublication`, `MCMigration` and `MCUpdate` instantiate one module for the
violation runs. Components that share state are one module: Publication has the
pass, the tables, the lanes and the readers; Daemon has the loop, the inbox, the
registry and the catalog. No module declares a RECURSIVE operator, so each can be
proved about.

Where one module abstracts another's inside, both say so: Daemon has one file per
project and publishes in one step what Publication does in fifteen; Uninstall has
install, update and rollback as one step each, which Update takes apart; Import
has the engine's effect on two files, which Migration takes apart file by file.

### InstanceLock

`pc[p]` is where process p stands in `DaemonLock::acquire` or in `Drop`; `lock` is
the creator of the file at the lock path (on Windows the holder of the open
handle); `record` is the pid in the owner record and `seen[p]` the pid that
`recover_stale_claim` read. One action is one system call that another process
can observe, so the window between reading the record, looking at `/proc` and
unlinking is there, and so is the window between truncating and writing the
record. A pid is never reused (process incarnations run once). `Platform` picks
the `cfg` branch; `SerialStarts` says that an init system starts one daemon at a
time.

### JobQueue

`job[j]` is the row; `leases` is every lease ever handed out, because a worker may
present any of them at any time; `token` is the cancel token; `accepted` is
history. Each exported operation on a row is an action with the guards in the
code's order; a rejected call leaves the row alone and is no step. Instants are
relative to the clock (`left`, `wait`), which is exact because the code compares
instants only with now. `MaxFence` stands for `i64::MAX`, so the overflow check
of `next_fence` is reached.

### Publication and SnapshotRegister

One project, its two lanes, one pass at a time (the instance lock), and readers.
`source` is the working tree; `row`, `facts`, `eventSeq`, `outbox`, `published` are
the tables; `pointer`, `installed`, `staged`, `pending`, `strays` are the directories
of each lane. The pass walks through `recover`, `inventory`, `analyze`/`ack`, then
`begin`/`manifest`/`rename`/`commit`/`bump` (staging both lanes),
`lock`/`install`/`point` for each lane, `mark` and `record`, one action per durable
effect, and `Crash` may follow each. `result` says how the last pass ended: well,
with an error the foreground loop retries (`WorktreeBusy`,
`source-analysis-invalid`), or with one that ends the process.

A generation is named by the digest of its contents, so the payload itself
stands for the name. A supported file contributes its facts, another one only
its path. The walk is one step: an edit during it is an edit before or after.
The order in which dirty files are analysed is left open. Removing a directory
tree is one step. `Generations` is large enough never to block: the desired
generation grows by at most one per inventory that finds a difference or per
rebuild, and differences come from the first inventory and from edits.

`SnapshotRegister` is the promise to readers: each lane shows one whole
generation after another, never nothing again, and does not change while it is
pinned. `Publication` implements it with `View` and `Pinned` as the mapping.

### Migration

`dest`, `copy`, `stage` tell destinations, backups and staged copies apart by hash
only: the bytes the plan recorded, the new ones, anything else, or no file.
`saved` is the journal on disk and `mem` the one of the run. `apply_journaled`
(fence, backup, stage, verify, cutover, complete), `restore` and
`rollback_journaled` are one action per file and per save. A failing save and an
unreadable file on the normal path have the durable effect of a crash. A refused
fence and failing I/O are `Fault` steps; expiry and a changed source clear
`authorised`. A check and the write it guards are one step: the window between
the hash comparison and the rename is not modelled. The native adapter, which
only creates, is the special case where `Previous` is "absent" everywhere.

### Update

`axiom update apply`, `axiom update rollback` and `axiom install apply`, which share
`apply_ecosystem`. `core` and `skills` are the two pointers, `coreFile` and
`skillDir` the payloads they name, `service` the owned service, `journal[t]` the
journal of update t. A core pointer record names the transaction that wrote it and
either one component (`apply_install`) or both (`write_core_pointer`); the
`part` of a record is what tells the ids `<txn>-<component>` and `<txn>` apart. The
maintenance lock leaves one operation at a time: `pc`, `txn`, `ver`, `mem` are where it
stands, and `mem = NoJournal` is an install. One action is one durable effect or
one service call, each may fail, and `Crash` may follow each. The two recoveries
(`Undo...`, `FailJournal`) and the six cases of `rollback` (`Back...`, `Redo...`) are
translated branch by branch, the drain that only some of them make included.
Payloads are compared by digest, so a file is absent, partial, whole or
damaged; `Damage` changes a file by hand. A bundle is its version. The plan of an
apply is not state: a plan whose recorded pointers are no longer on disk is
refused before the first effect. A drain or a reinstall that fails may have
stopped the service.

### Daemon

`proc.at` and `pass` are where the running pass stands: hints, then per project claim, inventory,
analysis and publication, then the catalog and the marking of jobs. Beside it run the
producers of hints (check, count, stage, rename), the editor, readers that hold a
guard, `solution register` and `remove`, signals, crashes. The loop has the startup
pass before its baselines, polling turns, the fallback timer, and the retries of
transient errors; `build` and `reconcile` are passes without a loop. The snapshots that
the loop takes by itself, for its baselines and on every turn, may fail because an
entry vanishes under them (`SnapshotFails`), which nothing retries. A source
is a version number: 0 has no input, `Unparsed` ones fail the analysis. `MaxEvents`
bounds what the environment does in one behaviour.

### Import

`axiom migrate`: the review of either legacy place into a plan, and the runs of apply
and rollback over a target that is a generation and its pointer. The stale check,
the owned-journal check and the one-hour limit are guards. The daemon publishes and
people change the legacy places between two runs.

### Admission and Burst

Admission is a decision layer over rows that its caller keeps; the caller is what
the crate's documentation describes: it records a change with its sequence,
generation and intent together and credits a scope with the target of the row it
ran. Times are relative (age, ticks to ready), and ages are told apart up to
`MaxAge`, above the largest wait at which aging still changes the order. Burst is the
debouncer in front of the pressure tracker, with the scan that overflow asks for.

### Store

`LedgerNext` is what an opener does between `open` and its first query, statement by
statement; openers are binaries of releases that ship different migrations.
`ActorNext` is the writer thread: bounded queue, one transaction per mutation, drain
on shutdown, a failing COMMIT and a panic.

### Watch

The backend's queue, the drain with its bound and its errors, polling by snapshots,
pairing of renames, the sticky recovery state, `bind_backend`, `absorb`, `reconcile`, and
an inventory walk that reads path by path while the editor works. The classes of the
input policies are three sets of paths, and `Fold` is the comparison of a host
without case. The caller, which the crate leaves open, does what the outcomes are
documented to mean and the tests show: it re-reads the paths of an Apply; it confirms those
of a Bounded rescan, keeps the batch and submits the same hints again (`Resubmit`, as
`reconcile.rs`:725 does); it runs a FullScan and acknowledges it. A batch that was confirmed
once may be given up for `require_full_scan` (`RequireScan`). `Decision` alone says
which paths a batch asks for; a path it dropped would be neither in the batch nor about to be
read, and `NothingIsLost` would say so. `ahead` names the one thing that polling cannot
tell: a path that was looked at while it differed from the last poll. If it turns back before
the next poll, that poll finds no difference, and the row keeps what was there in between.
With native events `ahead` stays empty unless the backend polled before.

### Service, RoundTrip and Guard

Service: the definition, launchd's label, the process and the record, one action per
effect, with kills between any two, refusals by launchctl, logins and hand edits. The
update's drain, move of `current` and reinstall are here from the service's side.
RoundTrip: three requests over a transport whose reader thread fills a bounded
channel. Guard: three processes, each a publisher, a collector or a reader in turn, over
two advisory locks that the system releases at death; the back-off of the bounded
wait is counted in retry intervals.

### Uninstall

`recovery` is the recovery record on disk; `ops` has, per process, what it read of it
before it had the lock, which is the point of the module. `payload` is kept per version
and kind, as installed, edited or gone. Install, update, rollback and `service install` are one
step each with the checks of the record that they make, or do not make.

### Bootstrap, Operator and Replace

Bootstrap: one repository, three managed files, two processes that approve and apply
plans beside a human; the check under the lock, backups, intent, each write with its
read-back, and both rollbacks. Operator: `host apply`, which compares before it locks,
and `skills apply` or `specs apply`, which compare after. Replace: `native_apply` and
`rollback_native_apply` over one shared journal; `fs.write` may be cut short, `fs.rename`
may not.

## 3. Runs

A property of a run is often a conjunction of named parts, each with a comment of its
own in the module; an invariant's first part is mostly the type invariant, left out
below.

| Property | Parts |
|---|---|
| `HomeIsOwnedOnce` | `SingleOwner`, `OwnerKeepsClaim` |
| `HintsAreKept` | `AcceptedHintIsKept`, `TargetsAreDistinct`, at most three retries in a row |
| `ImportedGraphIsWhole`, `ImportKeepsItsWord` | `ImportedPointerHasGeneration`, `OneGraphIsImported`; `LiveIsKept`, `ReadyIsReviewed` |
| `LeasesAreExclusive`, `ResultsAreCurrent` | `OneLiveLease`, `LeaseIsBounded`; `AcceptedIsNewestClaim`, `CancelIsNotOvertaken` |
| `ChangeIsCovered`, `BurstIsHandled` | `CleanIsCurrent`, `DirtyIsScheduled`; `BurstIsAccountedFor`, `WaitIsBounded` |
| `LedgerIsSound` | `LedgerIsOneLineage`, `OpenedIsMigrated`, `RefusalHasCause` |
| `PublicationFollowsTheInventory` | `CleanFileIsIndexed`, `PublishesTheInventory`, `GuardedReaderIsUndisturbed` |
| `LanesAreARegister` | `StaysReadable`, `ImplementsRegister` |
| `ServiceIsAccountedFor`, `CommandsAreOwned` | `RemovedIsUnregistered`, `ServiceIsRecorded`; `ForeignDefinitionIsKept`, `StartedIsCurrent` |
| `MigrationIsRecoverable` | `PreviousIsRecoverable`, `RolledBackIsClean`, `AppliedIsWhole`, `PointerIsLast` |
| `RemovalCanBeTakenUp`, `FilesGoAsApproved` | `StoppedRemovalResumes`, `RemovedIsGone`; `EditedFilesSurvive`, `RemovalIsApproved`, `ServiceGoesFirst` |
| `ClosedJournalIsTrue`, `PointersMoveSafely` | `RollbackRestores`, `FinishedUpdateIsWhole`; `PayloadsBehindPointers`, `OnlyOwnPointersAreReplaced`, `PointersMoveDrained` |
| `ApplyEndsOrIsReversible`, `OnlyApprovedBytesChange` | `InterruptedApplyIsReversible`, `NextPlanIsAccepted`; `EditsSurvive`, `RollbackRestoresAll` |
| `ContentIsPlaced`, `ApplyIsApproved` | `ActiveContentIsPlaced`, `ApplyHoldsTheLock`; `ReviewedConfigIsReplaced`, `ActivationIsApproved` |

| Run | Instance | Shows |
|---|---|---|
| `instance_lock` | lock: 4 processes, Linux, serial starts. Daemon: 2 projects in 2 repositories, 3 versions one of which does not parse, 2 hints, an inbox of 1, 4 events. Import: 2 graphs, 2 plans, 1 change by others, 1 death | single owner; hints kept and counted once; catalog a cut that catches up; bounded retries; shutdown; one graph imported, the daemon's kept |
| `instance_lock_race` | 3 processes, concurrent starts | **violation** of `SingleOwner` |
| `job_queue` | rows: 2 jobs, 2 workers, 3 fences, leases of at most 2 ticks, 3 attempts. Intents: 2 scopes, 1 slot, 2 changes. Burst: 3 paths, mark and buffer of 2. Store: 3 releases of which 2 fork, 2 openers, 3 mutations | lease exclusion, no stale result, bounded leases, cancellation; no faked freshness, no stranded change, no starvation; no lost or late hint; one lineage, durable is what is counted |
| `job_queue_eligible` | 1 job | **violation** of `EligibleCanBeClaimed` |
| `publication` | lanes: 2 files (the one that is not analysed appears by an edit), 2 contents, 2 edits, 1 crash, shutdowns, 1 reader. Service: 2 generations, 2 acts of the user, 1 refusal, 1 kill. Host: channel of 2, deadline of 2 ticks. Guards: 3 processes, 2 generations, patience of 3 | indexing, payloads, readers, the register; owned, current and removable service; answers within the deadline and in order; pinned generations, closed door, bounded sleep |
| `publication_clean` | passes: 2 files, valid, invalid and blank contents, 3 edits, 1 full rebuild. Watch: 3 plain paths (two that fold together), an ignored and a secret one, drains of 2, 3 touches | an ok pass has published the store, convergence; no change lost and the inventory converges, but for what polling cannot tell |
| `publication_stale` | 2 files, 2 edits, shutdowns | **violation** of `OkPassIsPublished` |
| `publication_dangling` | 2 files, 1 edit, 1 crash | **violation** of `NoDanglingPointer` |
| `migration` | a replaced, a derived and a created file; 1 crash, 1 fault, 1 change by others, 2 rollbacks. Removal: 2 processes, 2 versions, 2 activations, 2 reviews, 1 death, 1 edit | recoverability, truth of the journal, pointer last, resumption; approved and unedited files only, service first, resumable removal |
| `migration_resume` | the same plan, 2 crashes | **violation** of `ApplyCompletes` |
| `update` | ecosystem: 2 transactions (each an update or an install), 2 versions, 1 damaged file. Repository: 2 processes, 2 templates, 1 human edit, 1 death, 1 I/O error. Operator: 2 processes, 2 servers, 2 versions of 2 revisions, 3 plans. Executables: 2, with 2 artifacts, deaths anywhere | payloads behind pointers, truth of both closing states, ownership of pointers, drained moves; approved writes, reversible applies; placed and approved content; undoable exchange |
| `update_interrupted` | the same ecosystem | **violation** of `InterruptedUpdateCanRollBack` |

**Bounds.** Three processes are needed for the lock race (one that leaves its
record, two that start); four let a takeover be taken over. Two workers and three
fences give a lease of a vanished worker, its successor, and a third claim at the
fence limit; two jobs show that a lease of one never counts for the other. In a
pass, two files distinguish an acknowledged file from one that is still dirty, two
contents an old from a new generation, and two edits a change before and one after
the inventory; one crash can fall after each durable effect, the restarted pass
then runs to its end. One reader suffices because readers only interact with the
writer. Three migrated files separate a file before the one at hand, a file
without a source, and the pointer. Two transactions give a rollback of the older one
after the newer has moved the pointers; two versions an update to another version
and one back to a retained directory. Four events of the daemon's environment are
enough for an edit, a hint, a crash and a removal in any order, and an inbox of one is
full with the first hint. Two scopes with one slot are a high class that keeps coming
back and a low one that waits. Three releases are one prefix and two that disagree
about the second migration. Two removals, one death and one edit let a retry race the
removal that finishes. Three participants of the guards are a writer, the reader it
waits for and one that comes later. The proofs remove these bounds for the
properties they cover.

**Deadlock** is checked except in the two lock runs, where every process has run or
the environment's events are used up. A run whose module can rest says so with an
action of its own or by an operation that stays possible.

**Fairness.** `publication_clean` assumes that a pass which can take a step takes
one (it never waits for anybody: a lane guard is tried, not awaited), and that
the next pass starts as long as the last one did not end the process. The
foreground loop justifies that (`serve.rs` 178-253): a retryable failure is retried
up to three times, and the 30 s fallback starts a pass in any case. Every other
failure ends the daemon, and a service manager is optional, so nothing is assumed
then; the property asks for convergence only while the daemon keeps running.
The watch half assumes that the caller, once it has something to do, does it, and
starts its backend. It also assumes of the caller that a batch which is bounded again and
again is at last given up for a required scan; the repository has no such caller yet, and
without the assumption `InventoryConverges` fails (section 4). `migration` assumes that a run continues until it ends and that the
operator applies the plan again; nothing is assumed of a removal. `instance_lock`
assumes of the daemon that a pass and the loop go on (both are one thread that never
waits for another process), that the 30 s timer elapses, and that a reader lets go of
a guard (`load_snapshot` holds it for one load). `job_queue` assumes that the engine
takes the next intent when a slot is free and that time passes; with one slot the engine
as a whole never waits for a particular scope. Crashes, faults and edits are never
assumed to happen or not to happen.

## 4. Findings

Each is a violation run whose property states what a comment of the code says.

1. `instance_lock_race`: two starters on Linux can both own the home. One reads the
   record of an owner that then stops; the other creates a new lock file; the first
   finds the old pid dead and unlinks the new file (`instance_lock.rs`:222).
2. `job_queue_eligible`: `is_claimable_at` accepts a RETRY_WAIT job whose delay is
   over, `claim` refuses it, and nothing moves it to PENDING (`claim.rs`:126). Only
   `queue retry` by an operator does.
3. `publication_stale`: a pass that is stopped after it acknowledged its files and
   before it published leaves no work to count. If both lanes have a pointer, the
   next pass ends well without publishing (`serve.rs`:862). The next edit or a full
   rebuild repairs it.
4. `publication_dangling`: a crash between sealing and renaming a staging directory
   makes recovery install it under its `pending-` name and point at its digest
   (`recovery.rs`:190). The live lane is published over by the same pass, the
   checkpoint lane is not when nothing is new.
5. `migration_resume`: a resumed run saves phase `fence` before it re-enters the
   cutover; interrupted there, later runs start over and refuse the files already
   cut over, and rollback refuses because the cutover has not started
   (`apply.rs`:998).
6. `update_interrupted`: `apply_ecosystem` lets `apply_install` replace the core pointer
   by a record of one component before it writes the combined one. An update that
   dies in between has a prepared journal that rollback refuses (`pointer-changed`),
   and the open journal refuses every later update (`install/apply.rs`:565).

### Seen while modelling

Without a run of their own, because no document of the repository promises otherwise
or because the run leaves exactly these moments out (the property says so).

* **Publication and pass.** After a crash or a reader's contention the two lanes may
  name different generations until the next publication. The intent of an event
  sequence that was interrupted is kept when the sequence is used again. A reader that
  holds a lane guard at the wrong moment, an empty project and a failure of the first
  pass each end the daemon (`catalog_runtime.rs`:105, `serve.rs`:1162).
* **Daemon.** `serve.rs`:671 marks jobs that were recorded after the scan. Jobs of hints
  have a kind that no pass marks, so `solution remove` is refused until `queue cancel`.
  The watch snapshot fails with Internal when any entry below a root, except under `.axiom`,
  vanishes between `read_dir` and `metadata` (`serve.rs` 270-286). The `?` of line 212 (197
  for the baselines) is outside the match that retries, so a rename by an editor or a build at
  that moment ends the daemon, although line 238 says "Editor writes/renames can be
  transient. Retain the valid publication and the writer". `FatalStopHasCause` names the
  case as an exception of its own.
* **Queue and intake.** `queue retry` leaves terminal states that the transition table
  calls final. The aging bonus is bounded, so a class further apart than the bonus
  starves. `budget.rs`:281 looks at the byte cap before it adds a file. Two polls that
  find a path as it was do not see what happened between them, so what was read of it in
  between stays in the inventory until a hint or a scan: the exception of `NothingIsLost`.
* **Reconciler.** Submitting the hints of a bounded batch again, as `reconcile.rs`:725 does,
  does not end for a rename that changes case only, for a symlink, and for a new path that
  is gone again: the answer is Bounded every time, and the other paths of the batch are
  never applied. Only `require_full_scan` gets out of it. A batch in which nothing is to be
  applied returns `Apply` of nothing even when it names symlinks (`reconcile.rs`:513), and
  secrets ask for nothing in any batch, against "a path withheld by the input policy or
  absent from the known inventory produces a bounded rescan request instead of a silent
  no-op" (`reconcile.rs` 25-28); no row is owed for either, so nothing is out of date.
* **Store.** `verify` reads the rows and the version in two statements and may refuse a
  compatible database while another opener migrates; the second of two concurrent
  migrators fails on CREATE TABLE; a connection of an old binary is not stopped by the
  migration of a newer one. After a failing COMMIT every later mutation fails, and
  `with_connection` sees the uncommitted change.
* **Migration.** A write that succeeds and whose check fails is not restored. A crash
  during a rollback leaves the journal at its old phase. A rollback removes the
  generation before its pointer. "ready" of an already complete plan does not look at
  the target, and of two plans of one snapshot that both completed, one's rollback
  empties the other's target.
* **Update.** A rollback of an active update that dies between its two restores is
  refused when it is tried again. A rollback of a finished update under a later prepared
  one leaves the later one open. The restoration of a failed apply moves the pointers
  without draining the service it may have started.
* **Uninstall.** The record is read before the lock and written back after it
  (`ecosystem_uninstall.rs` 493-540): a retry that read it before another one finished
  turns a finished record incomplete, and both uninstall and install are then refused.
  Update and rollback do not look at the record (`ecosystem_runtime.rs`:269, 420). A
  service installed after `service_removed` was noted stays.
* **Service.** An install over a loaded service fails at the bootstrap (`runtime.rs`:80),
  although `startup.rs` calls a second run a no-op. A death between definition and
  record leaves a definition that no command owns; one after the bootout leaves a
  recorded definition whose removal launchctl refuses until the next login.
* **Host and content.** `host_runtime.rs` compares (393) before it locks (421). A receipt
  written before an install that dies uses the plan up (`package_runtime.rs`:478), and
  a half-placed version directory blocks its version (`skills/install.rs`:724).
* **Bootstrap.** A read error counts as an absent file (`apply.rs`:529). A file that fails
  its own verification is not undone (:598), and the journal says "rolled back" whatever
  the rollback came to (:600). The lock of a dead process is never recovered.
* **Executables.** A rollback writes the destination in place, although the module's
  documentation names the staged rename as the only mutation. A repeated replacement
  takes the new bytes for the previous ones.

## 5. Proofs

Eight modules, checked by TLAPS, without assumptions other than the named ASSUMEs
of the modules and the hypotheses `SafeEnvironment` and `Undisturbed` where they are stated. Every safety property of a
passing run, invariant or action property, has a theorem of its own, so that what a
run shows on its instance holds for every value of the constants:

| Run | Theorems | Module |
|---|---|---|
| `instance_lock` | `HomeHasOneOwner` (in a `SafeEnvironment`); `ImportedIsWhole`, `ImportsKeepTheirWord`; `AcceptedHintsAreKept`, `EveryHintCountsOnce`, `CatalogsAreCuts`, `FatalStopsHaveCause` | InstanceLockProofs |
| `job_queue` | `LeasesExclude`, `NewestWordCounts` | JobQueueProofs |
| | `BurstKept`; `ChangesAreCovered`, `BarrierIsHonest`; `LedgerStaysSound`, `AppliedIsDurable` | IntakeProofs |
| `publication` | `PublicationIsFaithful`, `LanesImplementRegister` | PublicationProofs |
| | `PinnedStays`, `DoorIsClosed`; `VerdictIsEarned`; `ServiceHasItsRecord`, `CommandsTouchTheirOwn` | ServeProofs |
| `publication_clean` | `UndisturbedPassIsPublished` (in an `Undisturbed` environment) | PublicationProofs |
| | `ChangesAreNotLost` | IntakeProofs |
| `migration` | `MigrationsRecover`, `OthersBytesSurvive` | MigrationProofs |
| | `RemovalsResume`, `RemovalsAreApproved` | UpdateProofs |
| `update` | `JournalsCloseTrue`, `PointersAreSafe` | UpdateProofs |
| | `ExchangeCanBeUndone`; `PlacedContentIsActive`, `ReviewedIsReplaced`; `ApplyIsReversible`, `ApprovedBytesChange` | ApplyProofs |

Each proof has the same shape: an inductive invariant, one lemma that `Init`
establishes it, one lemma per action (or per group of actions that change the same
variables) that a step keeps it, and the property from it. TLC checked the
larger invariants on small instances before they were proved.

**InstanceLockProofs** proves `TypeOK`, `SingleOwner`, `OwnerKeepsClaim` for any set
of processes in a `SafeEnvironment`: a platform without takeover (Windows and
the systems without `/proc`), or serial starts. `SingleOwner` is not inductive. The
strengthening says that the lock file belongs to whoever is past opening it
(`ClaimIsOwn`), that the record names an owner until it is dropped
(`RecordFollowsOwner`), that serial starts leave one process acquiring
(`OneStarter`), that what it has seen is the owner if there is one
(`SeenIsOwner`), and that nobody holds the claim when a process is about to
unlink it (`TakeoverIsAlone`). With concurrent starts on Linux the last two fail,
which is finding 1.

The same module proves what runs under that lock. *Import*: while an apply runs the
target holds what its plan imports or nothing (`TargetIsOwn`), the generation before the
pointer (`PlacedInOrder`), all imported bodies are one graph, and a pointer without its
generation was left by a rollback that is at work or died (`DanglingIsHalfUndone`).
*Daemon*: `DaemonInv` says where the process can stand with what in its hands: a receipt is
written only behind a committed job (`ReceiptFollowsCommit`), each extra pass of a burst
follows a transient error of its own (`BurstsAreShort`), and the projects a pass has been
through have the outcome that their lane shows (`OutcomesAreLanes`), which makes the
catalog a cut. That the projects of a pass come in order, with a least next one
(`LeastExists`), follows from the well-foundedness of the naturals (`WFMin`), not from an
induction.

**JobQueueProofs** proves `TypeOK`, `OneLiveLease`, `AcceptedIsNewestClaim`,
`LeaseIsBounded` and `CancelIsNotOvertaken` for any jobs, workers, limits and
durations. The invariant: no lease is ahead of the fence of its row; a fence of a
job is handed out once; a job with an accepted result is SUCCEEDED at that fence.
It is needed because the properties speak of leases only, and hold because fences
only grow.

**PublicationProofs** proves `TypeOK`, `CleanFileIsIndexed`,
`PublishesTheInventory`, `GuardedReaderIsUndisturbed`, `StaysReadable` and
`ImplementsRegister` for any files, contents, readers and numbers of edits, crashes
and rebuilds. `PassInv` relates the pass to the tables (what is acknowledged has
its facts, the dirty files left are `todo`, the file awaiting its acknowledgement
has the facts of its observed content) and to the lanes (a payload is installed
before the pointer moves, no reader is inside while the writer is). The refinement
proof maps `MovePointer` and `RecoverPoint` to `Show` or a stutter, `ReaderPoint`
and `ReaderRelease` to `Pin` and `Unpin` or a stutter, and the other steps to
stutters.

`OkPassIsPublished` is false in general (finding 3), and the theorem
`UndisturbedPassIsPublished` says when it is true: without crashes, shutdowns,
readers and files that are not analysed, the environment of `publication_clean`. TLC
refutes it when any one of the four is dropped, so no weaker hypothesis of this kind
would do. What remains are edits at any moment, analyses that are refused and full
rebuilds. `OkInv` says that outside a publication the lanes agree with each other, and
that what they do not show is owed: this pass has seen new work, or a present file is
dirty and the next one will analyse it, or there is no pointer yet.

**MigrationProofs** proves `TypeOK`, `PreviousIsRecoverable`, `RolledBackIsClean`,
`AppliedIsWhole`, `PointerIsLast` and `HumanBytesSurvive` for any plan and any number
of crashes, faults, changes by others and rollbacks. None of the first four is
inductive. `SafeInv` adds where an untouched destination can be (`DestRange`), that
a journal, in memory or on disk, records a backup exactly where it needs one
(`FlagsSound`), that from the cutover phase on every previous file has one
(`Backed`) and that the two journals agree on it (`Synced`), and what each loop has
done so far. The point is the window between a destination and its journal entry:
the backup is on record before the cutover phase starts, so a lost entry loses no
bytes. `PointerIsLast` needs in addition that, as long as nobody interferes, no
cutover is refused (`OrderInv`: whatever is not in place is staged), because a
refusal would start a restore. `HumanBytesSurvive` follows from the guards alone.

**UpdateProofs** proves `TypeOK`, `PayloadsBehindPointers`, `RollbackRestores`,
`FinishedUpdateIsWhole`, `OnlyOwnPointersAreReplaced` and `PointersMoveDrained` for any
transactions, versions and changes by hand. The invariant has one part per idea:
the operation's journal and the one on disk are of one update (`RunShape`); what a
journal calls activated is what its update wrote or found (`JournalsSound`); every
pointer, on disk or in a journal, has its payloads (`Payloads`), which needs that no
step takes a payload away (`FilesStep`); a pointer moves after its payloads and an
apply ends with both moved (`Moving`); while an operation has a journal both pointers
are the ones its update found or wrote (`Owning`); and the owned service is down
or up as the step requires (`Serving`). The properties are about the last step of an
operation only and say nothing of how it got there, which is why they need all of
it. A rollback establishes `Owning` from the guards of `MayRestore`, the heart of
the argument.

It also proves the removal, for any releases, activations and number of removals at
once. `RemovalInv` says that a plan's pointer was written and what it saw undone stays undone
(`PlanIsOld`); that a record, on disk or in the memory of a removal, is true as long as the
state is the one its plan saw (`RecordIsTrue`); what a removal may rely on at each of its
steps (`OperatorIsSound`); that a completed record has given up the pointer or stands where it
completed (`CompleteIsLast`); and that there is one way back along the activations that
were not undone (`History`), so that no rollback returns to the state of an older plan.

**ServeProofs.** *Guard*: the locks exclude, who holds which follows from where a
process stands in its plan (`GripFollowsStep`), and what a collector is about to delete is not
the pointer's and nothing is exposed meanwhile (`DoomedIsFree`). *RoundTrip*: a line in the
channel that would pass a step was said in answer to a request that was sent
(`ExpectedIsAnswered`), so every step passed so far was answered (`StepsAreAnswered`).
*Service*: unless somebody acted on the service while a command ran (`raced`), what a
command saw when it started still holds (`CommandSeesTheHost`), the record is about the
definition of the generation it names (`RecordIsAboutTheLabel`), and what is there is
recorded unless a command has not come that far (`PresentIsRecorded`).

**IntakeProofs.** *Burst*: no buffered path is older than the debouncer's clock
(`ClockIsOldest`), which turns the bound on the clock into one on every path. *Admission*: the
target of a row is a promise about the input its run reads, so who reaches the newest event
of a scope has seen it (`TargetIsSeen`), and who reaches the event of a barrier has seen what
was there at the request (`BarrierIsSeen`). *Store*: what an opener has read, statement by
statement, is still in the ledger and is what it ships (`OpeningIsSound`). The writer's mailbox
is the end of what was handed over (`MailIsTheRest`), and the rows of the database stand for
strictly increasing positions of it. *Watch*: an owed path is kept by something other than
the scan that is running, the batch that the caller holds until it is applied included, and
with polling a path of which the next poll would say nothing is known as the last one saw it
(`PathIsKept`). Every path of a batch is applied, stays in the batch, or is a link of which
no row is owed (`ReconcileStep`). Drains are proved for channels of any length;
what the pairing of renames computes is not needed, only that the path of a hint is
among the paths the batch decides about.

**ApplyProofs.** *Replace*: once the backup is written it is what the destination holds and no
earlier exchange counts (`RunIsPrepared`). *Operator*: the plan of an apply was reviewed, the
generation it was made over is still active, the receipt precedes the files and these the
pointer (`AdminInv`). *Bootstrap*: a file that nobody edited since the verification is what
the plan found or what the plan makes of it, and what it was is in memory and, in time, in the
backup (`FileInv`, per file of the lock's holder); behind a rollback files are restored, ahead
of it they can be (`RollbackInv`).

**What proving changed.** Two properties that TLC had passed were false of the models on
instances larger than the runs', because a history variable was too coarse. With two errors
(a write and the journal's own update), the journal of a failed bootstrap apply still says
"intent", and was taken for the one of a later apply of the same plan that has the lock and has
verified nothing yet: files now count as edited from the moment the lock is taken until they
are verified (`late`). With two deaths, a removal that read a
completed record before it had the lock went on from it after another removal had moved the
record on; the property now leaves out every removal that acts on an outdated record
(`rewound`), which is the window described under Uninstall in section 4. Proofs also made
explicit that marker values (`NoPlan`, `NoRecovery`, a request that is not a hint) are not in
the sets they stand beside, and that a watched project has a path.

**Only model-checked.** Liveness, which is out of the prover's reach with its
fairness: `PublicationConverges`, `InventoryConverges`, `ApplyCompletes`,
`ShutdownCompletes`, `CatalogCatchesUp`, `NoIntentStarves`. All violations. What folds
over sequences compute (the pairing of renames in Watch), since it takes an
induction over data. The lock on Windows is proved and not run.

## 6. Not modelled

* **Library code that nothing calls.** Store backup and repair, `graph-store` registration
  and unregistration (twins of `commands/solution.rs`), outbox replay, disk budget,
  archives, checkpoint export, control tokens, the distribution update channel with its
  trust state, the systemd and Windows service adapters. Each function is one
  transaction, one rename or a decision over values that its caller would pass; without
  a caller there is no order of calls to check. Where the documentation fixes the order
  (guards, debouncing, admission, executable replacement) the library is modelled.
* **Functions without state.** Analyzers, encodings, digests, shards, validation of
  documents, the building and sealing of plans, path and Unicode rules, argument
  handling, rendering and telemetry. Their results are data that the models do not look
  into. They are most of the repository's lines, a third of which are tests.
* **Inside the modelled parts.** File and byte caps of batches, priorities of job rows,
  text of managed blocks and host formats, definitions' rendering, the list of
  repositories of a bootstrap, pragmas of an opened database.
* **Trusted.** SQLite makes a transaction atomic and durable, the file system a rename
  atomic; advisory locks exclude and end with their process.

## 7. Plan

Theorems next:

1. The lane guards of Publication and the plans of Guard are two models of one
   protocol: state the guarded reader of Publication as an instance of Guard.
2. Daemon publishes in one step what Publication does in fifteen: relate the two by a
   refinement, as `SnapshotRegister` does for the readers.
3. The safety parts behind the liveness properties: that a step which fairness is
   assumed of is possible wherever it is needed, stated over the guards.

Models that would be worth having when the code gets callers: the fetch and trust state
of the distribution channel, and backup and repair of the store.
