# All The Context: specifications of the Core, its Edge and its installation

TLA+ specifications of the parts of All The Context whose correctness depends on
order, failure and concurrency, the TLC configurations that check them on small
instances, and TLAPS proofs of most of their safety properties for every instance.  Paths below
are relative to `packages/allthecontext/src/allthecontext/` unless they begin
with `docs/` or `tests/`.  `PROJECT.json` maps every definition to the lines it
models.

- [1. The system](#1-the-system)
- [2. Modules and code](#2-modules-and-code)
- [3. Runs](#3-runs)
- [4. Bounds](#4-bounds)
- [5. Fairness](#5-fairness)
- [6. Proofs](#6-proofs)
- [7. What the runs found](#7-what-the-runs-found)
- [8. What is not modelled](#8-what-is-not-modelled)
- [9. Plan](#9-plan)

## 1. The system

One **Core** process on the user's machine owns the vault, a single SQLite
database behind `CoreStore` (`storage.py`).  Import clients, MCP clients, a
dashboard and a capture scheduler write to it; `activity.py` is the barrier all
of them pass.  An experimental **Edge** (`relay/`), hosted elsewhere, can hold a
replica of the records the user marked "always available", forward requests to
the Core and take proposals for it.  The first release removes the Edge from
Core's product surface (`core/app.py` 1969-1999 answers its routes with a
tombstone) and starts no synchronisation, but the Edge is still built
(`apps/relay/Dockerfile`) and `edge_connection.py` still runs from the command
line and the acceptance tool, so both are modelled as they are.  A desktop
shell, an updater, a Windows recovery helper and the registration of shortcuts
install and replace the Core.

| Component | State it keeps | Operations | What makes it hard | What makes it correct |
|---|---|---|---|---|
| Activity gate (`activity.py`) | admission counts by owner, barrier owner and depth, closing fence, leases of worker threads | `activity`, `exclusive`, `activity_async`, `run_in_threadpool`, `shutdown_async` | asyncio tasks and threads share one owner; a task is cancelled or collected while its worker runs on | counts equal what is open; a barrier is alone; writers are not overtaken; shutdown sees no foreign worker |
| Core lifecycle and scheduler thread (`core/app.py`, `capture_scheduler.py`) | durable enablement, worker thread and generation, published status, closing fence | enable, disable, start, shutdown, cycle | unlocked windows between decide and publish, bounded and unbounded joins, a gate between worker and shutdown | one worker, an honest status, no worker after the store is closed, a shutdown that ends |
| Vault records (`storage.py`) | rows, versions, tombstones, user mutations, search index, supersession links, purge tombstones, source deletions, outbox | observe, approve, correct, change availability, delete, restore, restore a version, withdraw and revive captured items, delete/restore/rebuild/purge a source, purge a record | a dozen write paths over the same tables, each with its own subset of side effects; long legal histories | complete history, sound links, deletions that stand, a relay that follows, purges that leave nothing |
| Replication and Edge store (`sync.py`, `edge_connection.py`, `relay/service.py`) | replication log and delivery marks in Core; rows, deletions, checkpoint, applied fingerprints and purges in the Edge | push, apply one event, status, restore of an Edge disk | requests that arrive after their client gave up, lost answers, a purge that rewrites the log, an Edge restored from an old disk | the Edge holds a prefix of the log and finally all of it; a purge is final; no event is poison |
| Import operations (`import_operations.py`, `importers.py`, `storage.py`) | operation rows, content-addressed blobs, source records, cancel registry, worker threads | start, upload, parse, cancel, retry, recover | two imports of the same bytes, cancellations anywhere, a crash between any two transactions | nothing active without a thread; a finished operation stays; published sources keep their bytes |
| Capture ledger and planner (`capture.py`, `capture_scheduler.py`, `capture_runtime.py`, `registered_source_admission.py`) | source state, runs with leases, checkpoint with a pending page, staged events | begin, renew, stage, apply, commit, finish, recover | runs of two processes, expired leases, a crash between the sink and the ledger | a cursor never passes an unapplied event; nothing is applied out of order |
| Observation policy and source rebuilds (`memory_policy.py`, `ingestion.py`, `importers.py`, `storage.py`) | candidates, links, ingestion sessions; status, generation and publication binding of a source | submit, finish, evaluate; reprocess, publish | two threads on one source, writes without a fence, staged sessions left over by an earlier process, a newer parser, edits in between | each session decided once and whole; what the user did stands; a repeated import ends complete |
| Proposal queue of the Edge (`relay/service.py`, `sync.py`, `storage.py`) | queued proposals in the Edge, receipts and candidates in Core | queue, expire, pull, import, acknowledge | lost acknowledgements, retries with the same key, a full queue, a decommissioning between two steps | one import per proposal, nothing stays queued, nothing survives a decommissioning |
| Edge forwarding (`relay/forwarding.py`) | request rows with claim leases, answers in memory | enqueue, claim, answer, wait, cancel | lease expiry against a late answer, a restart between row and answer, a caller that gave up | an answer only from a claim that is current, every row gives its slot back |
| Edge claim, pairing, OAuth (`edge_claim.py`, `edge_connection.py`, `relay/oauth.py`, `relay/app.py`) | the claim key and challenge, the Core's bundle; clients, codes, token families | claim; authorize, exchange, refresh, revoke | a reply lost at any step of the claim, two holders of one refresh token | both sides end with one set of credentials; a family ends with the first reuse |
| Updater and cutover (`updater.py`, `windows_update_helper.py`) | state, journal, backups, credential, RunOnce entry, tombstone, executables, database | install, hand over, cut over, roll back, abort, guard a start, replay, retire | three programs (Core, start guard, helper) over the same files, a power loss or a failed write between any two | what serves is one whole version with every acknowledged write; the update is atomic and ends |
| Application registration (`application_install.py`) | three shortcuts, the uninstall key, a journal | install, upgrade and migrate, remove, recover, compensate | each step may fail or be the last before a crash; the user changes a shortcut meanwhile | nothing foreign is touched; the journal outlives what it describes; a repeated installation ends |
| Client lifecycle (`lifecycle_runtime.py`, `client_runtime.py`) | client events and deliveries | queue, deliver | retries | each event delivered |
| Retrieval (`retrieval.py`, `lexical_v3.py`, `set_selection.py`, `temporal.py`) | none of its own | search, select | floating point, text | only live, permitted records |
| Front ends, desktop, configuration, credentials, export, project continuity, dashboard, benchmarks | configuration files, caches | | I/O and presentation | |

How they interact: every request handler, import worker and capture cycle
enters the gate (`CoreActivityGate`), an update installation and the shutdown
take its barrier; import workers, the capture sink and the admin routes write
through `CoreStore` transactions; a write of a record appends to the
replication log in the same transaction; `EdgeSyncManager` posts that log to
the Edge, then pulls its proposals and answers its forwarded requests in the
same round; `CoreStore` serialises writers with `BEGIN IMMEDIATE`, so one action
of a storage model is one transaction.  An installation takes the gate, writes
the updater's state and leaves the machine to the helper, and the next start of
the Core reads what the helper left; the shell registers the new build.

## 2. Modules and code

| Module | Models | Correspondence |
|---|---|---|
| `ExclusiveBarrier` | the promise of the gate, abstractly | admissions of owners and one writer; a writer enters only when no other owner holds an admission, and nobody enters beside a writer |
| `ActivityGate` | `activity.py` | variables carry the names of the attributes; `blocks` adds the with-blocks and leases really open, so that the counters can be compared with something. One action per critical section of the condition: `EnterShared`, `EnterSharedWaits`, `WakeShared`, ... `Dispatch`, `WorkerDone`, `CancelAwait`, `TaskGone`, `ShutdownAcquire` |
| `ActivityGateProofs` | | proofs about `ActivityGate`, the refinement of `ExclusiveBarrier` among them |
| `CoreLifecycle` | `CoreCaptureScheduler` (`capture_scheduler.py` 1085-1364), the lifespan (`core/app.py`), the install handler | a worker is a generation number with a program counter; each lock section, gate call or file read is one step. The gate is reduced to its admissions and the owner of its barrier; who passes through it where is what `Quiesced` is about |
| `CoreLifecycleProofs` | | proofs about `CoreLifecycle` |
| `ContextRecords` | record, source and purge transactions of `storage.py` | one action per public write operation; `Rebuild`, `RestoreSource` and `Erase` act on sets of records in one step because the code does so in one transaction |
| `ContextRecordsProofs` | | proofs about `ContextRecords`: supersession; history, deletions, the user's barrier, the relay, purges |
| `Replication` | `replication.py`, `sync.py`, `edge_connection.py`, the event application of `relay/service.py` | Core's writes keep what the Edge can tell apart; `sync` is the thread inside `sync_now`, `late` the requests whose client gave up |
| `ReplicationProofs` | | proofs about `Replication` |
| `ImportOperations` | `import_operations.py`, the source states of `importers.py`, the blob and operation tables of `storage.py` | a worker per operation with a program counter whose labels are the calls between transactions; `caller` is a thread inside `cancel_operation` |
| `ImportOperationsProofs` | | proofs about `ImportOperations` |
| `ArchivePolicy` | the evaluation of an archive's observation in `storage.py`, the user's edits | a record is what it is and what it ever was (`past`, the archive identity index); the barriers, the target and the reopening are operators on the sequence of records |
| `SourceRebuild` | `_reprocess_source` and `_ingest` of `importers.py`, `update_source_import` and `publish_source_rebuild` of `storage.py` | extends `ArchivePolicy`; a worker is a thread with its generation and the source it read last; `Refused` and `Merged` are the fence of `update_source_import`; one action per transaction |
| `CaptureLedger` | `capture.py`: the runs, leases, pages, checkpoints and event commits of one source; the sink `registered_source_admission.py` | a runner is a process inside `CaptureCoordinator`; each ledger transaction, sink transaction and adapter call is one step |
| `CaptureLedgerProofs` | | proofs about `CaptureLedger` |
| `AtomicUpdate` | the promise of an update, abstractly | decided at most once, to the new version only while nothing runs; whatever starts afterwards is the version decided |
| `UpdateCutover` | `updater.py` (install, cancel, shutdown, guard, reclaim, retire), `windows_update_helper.py` | `disk` outlives a crash: state file, journal, directory, credential, tombstone, RunOnce entry, executables, database, backups; `core` and `helper` are program counters with the process's own copy of state and journal. Each file write is a step |
| `ForwardingBroker` | `relay/forwarding.py`, `answer_forward_request` of `sync.py` | `row` and `claim` are the table, `memory` the answers kept in the process, `caller` the MCP thread in `wait`, `work` and `late` the answers on their way |
| `EdgeOAuth` | `relay/oauth.py` | grants with their authorization and code, access and refresh tokens as the set of their generation numbers in a family; `presented` is a token loaded and not yet rotated |
| `ProposalIntake` | the proposal queue of `relay/service.py`, `pull_proposals` of `sync.py`, `add_edge_candidate` | `queue` is the Edge's table, `receipt` and `copies` Core's; `pulled`, `decided`, `lost`, `astray` are the batch and the reports on their way |
| `EdgeClaim` | `edge_claim.py`, `_connect_locked` of `edge_connection.py` | the Core's program counter and bundle, the Edge's claim row |
| `EdgeService` | `relay/app.py`, `relay/mcp.py`, `sync_now` | composes the four modules above: the guard of a call, revocation and decommissioning step by step, the Core's thread, restarts, lost and late messages, time |
| `EdgeServiceProofs` | | proofs about `EdgeService` and its four parts |
| `RegistrationPromise` | the promise of the registration | over shortcuts, key and journal alone: what is foreign stays, the journal goes last |
| `AppRegistration` | `application_install.py` | the files and the key are the surface, `record` the journal, `mem`, `muts`, `todo` the transaction in memory; every publication, deletion and journal write is a step that may fail |
| `InstallationProofs` | | proofs about `UpdateCutover`, the refinement of `AtomicUpdate` among them, and about its instance of `AppRegistration` |
| `MC<Module>` | | the model values and the symmetry of the runs |

Modules compose in two ways. `ActivityGate` implements `ExclusiveBarrier`
(checked and proved). `CoreLifecycle` keeps only the guards and counts of that
barrier and follows the threads that go through it: what is to be shown there
is that every cycle and request really asks the gate, at the right place, which
`Quiesced` says over their program counters.
`Replication` takes from `ContextRecords` the events each write appends;
`ContextRecords` checks with `RelayCurrent` that a relay which applies them in
order is right, and `Replication` checks that they arrive so. `EdgeService`
extends its four parts and adds the steps that go through several of them;
`UpdateCutover` implements `AtomicUpdate`, which is proved too. `ContextRecords`
lets the automation touch whatever records it may; `SourceRebuild` composes the
policy that chooses them (`ArchivePolicy`) with the generations of a source.
`AppRegistration` extends `RegistrationPromise`, which says what it owes to
others over the files alone.

Abstractions worth knowing:

- *Gate.*  The notify/poll machinery is a guard on the waiting step.
- *Lifecycle.*  The wake-up event only shortens a sleep, the process-wide
  scheduler switch is open, failure codes are left out, each installer installs
  once.
- *Records.*  A content is opaque; sensitivity, access lists, slots and text are
  left out; availability is "always" (replicated) or "core".  The outbox is kept
  per record.
- *Replication.*  Signatures verify, there is one vault, a content is named by
  the version that introduced it.  `Tainted` are records for which the repair of
  stored secrets may run.
- *Imports.*  One recognised provider, so a source starts under the requested
  service and the parser files it under the recognised one.  Rebuilds, deleted
  sources, source-only reprocessing, progress figures and staging files are left
  out.  The clean-up's own writes do not fail.  A row or a source is read and
  written in steps of their own (`CloseRow`, `WriteRow`; `SettleSource`,
  `DowngradeSource`), because the code holds no transaction over both.
- *Rebuilds.*  One archive source; a cancelled source is treated as a failed
  one.  An item is one dated statement with its provenance and slot; all items
  are such that the policy applies them.  The workers are threads without an
  import operation, whose trackers write the source's status.  Begin, submit and
  finish of a session are one step: their keys make them idempotent.  `overrun`
  is a history variable: a writer without a generation has changed the rebuild
  fields of the source.
- *Updates.*  One operation.  One helper runs at a time (it holds a file lock)
  and its reads do not fail, its writes and children do.  The guard reads the
  state in one step; a second Core that finds the first running does nothing.
  The binding to the source commit is the pair of identities in the state, with
  `Accepts` for its comparison.  A retirement that is tried again in a running
  Core counts as stopped in the refinement.  What the helper replays before it
  takes the journal's lock is one step with the reading (`Load`); a crash may come
  before and after every write of it.  Left out: a request to roll back
  after the commit, the reuse of a parent's process number.
- *Edge.*  Time is in sets: a request is expired, its lease lapsed, its row old.
  A rate limit and an unreachable Core are the choice of `Refuse`.  Batches come
  in any order, and a claim gives any `ClaimLimit` queued requests at most.  The
  limit of the proposal queue in bytes is left out: a submission it refuses
  changes nothing.  Grants in `held` were given before the behaviour begins.
- *Registration.*  One process at a time.  A file is its identity, a registry
  value the build that wrote it; the transactional registry (KTM) publishes and
  deletes the key at once.  An upgrade comes while no registration runs.
- *Capture.*  One source.  The clock is the step in which a live lease
  expires.  The adapter may return any page of the constant `Pages` at any
  time.  Attempts, error texts, acknowledgements to the provider and the
  scrubbing of payloads are left out.

## 3. Runs

Every run is a `.cfg` next to its MC module; `PROJECT.json` lists them with
their properties, and for each property a mutant: a plausible bug in the code
that makes the run fail.

| Run | Properties | What it shows |
|---|---|---|
| `activity_gate` (`ActivityGate.cfg`) | `Exclusion` `ShutdownQuiescent` `WriterPriority` `ImplementsBarrier` | with cancellations, dead tasks and worker upgrades an exclusive section is alone; the shutdown barrier leaves no foreign worker; a waiting writer is not overtaken; through its counts and owner the gate is an `ExclusiveBarrier` |
| `core_lifecycle` (`CoreLifecycle.cfg`) | `WorkersAccounted` `StoreOutlivesWorkers` `Quiesced` `StopsInTime` | two admin requests, an installation, the command line and the shutdown around up to three generations of worker, with failing cycles and thread starts: one worker and an honest status (`WorkersAccounted`), none after the store closed; no cycle and no half-done enable beside an installation or the shutdown (`Quiesced`); a stopped scheduler ends its worker and a shutdown completes (`StopsInTime`), unless a worker is stranded (section 7) |
| `context_records` (`ContextRecords.cfg`) | `VaultAccounted` `SupersessionSound` `RelayCurrent` `PurgeFinal` `UserBarrier` | two records that may supersede each other through every write of the vault, an archive source and a registered source; `VaultAccounted` is the history without gaps and the deletions with their tombstones |
| `record_deletions` (`ContextRecordsDeletions.cfg`) | `DeletionStands` `SourceUndoExact` | one record through long lives: automation undoes no deletion, a source undo restores only its own |
| `replication` (`Replication.cfg`) | `EdgeMirrors` | synchronisations that fail half way, requests that arrive after their client gave up, an Edge disk rolled back, purges that rewrite the log: the Edge holds a prefix of Core's history, all of it once it has caught up, and never what was purged |
| `replication_live` (`ReplicationLive.cfg`) | `CatchesUp` | no event is rejected for good: from any restored Edge the rewritten log replays to its end |
| `import_operations` (`ImportOperations.cfg`) | `Attended` `PublishedReadable` `TerminalStands` | two imports of the same bytes with a cancellation, a disconnect, faults, a retry and a crash with its recovery anywhere: nothing active without a thread, a complete operation names published data with its bytes, a finished operation stays so |
| `source_rebuild` (`SourceRebuild.cfg`) | `RebuildExact` `UserStands` `Recovers` | two threads reprocess one source under edits, faults, cancellations, heartbeats, restarts and newer parsers: an archive's records change by one whole session at a time and a rebuild leaves what its parser found; nothing the user changed, deleted or purged is undone; a source that is asked for again ends complete |
| `capture_ledger` (`CaptureLedger.cfg`) | `RecordsFollow` `CursorBehindApplied` `PendingStands` | two processes capture one source whose provider serves any page at any time, while leases expire, processes die between any two transactions, the user pauses, revokes or edits and the adapter comes and goes |
| `update_cutover` (`UpdateCutover.cfg`) | `ServedIntact` `RollbackReady` `ImplementsAtomicUpdate` `Settles` | one update from the first backup to its retirement, with writes of the Core before it stops, a power loss and two failing steps anywhere |
| `edge_service` (`EdgeService.cfg`) | `CountedOnce` `DecommissionFinal` `Paired` `RevokedUnserved` `FamilyEnds` `EdgeDrains` `PairsInTime` | the Edge with its clients, its owner and the Core's thread under lost and late messages, restarts and deadlines; one workload per initial state. `CountedOnce` is `HeldAnswer` for answers and `ImportedOnce` for proposals |
| `app_registration` (`AppRegistration.cfg`) | `ForeignKept` `JournalLast` `Settles` | installation, upgrade, recovery and removal under three failed steps or crashes anywhere and one change by somebody else |

`TypeOK` is proved for the modules that section 6 names.  That of `SourceRebuild`
holds on its instance above, which adding `INVARIANT TypeOK` to the cfg shows; the
runs spend their properties on what is harder.

Deadlock is checked for the gate and the update, where something can always
happen.  The other modules bound their histories (versions, events, runs,
generations, crashes), and a history that has used up its bound stops.

## 4. Bounds

Bounds appear only as guards on counters (`MaxNest`, `MaxGeneration`,
`MaxVersion`, `MaxEvents`, `MaxLate`, `MaxRollbacks`, `MaxCrashes`,
`MaxCancels`, `MaxRetries`, `MaxRuns`, `MaxWrites`, `MaxFailures`, `MaxClaims`,
`MaxTokens`, `MaxProposals`, `MaxCredentials`, `MaxFaults`, `MaxActs`,
`MaxRemovals`, `MaxRebuilds`, `MaxEdits`, `MaxMishaps`, and `faults` of an Edge
workload).

| Run | Instance | Why it is enough |
|---|---|---|
| `activity_gate` | two tasks (one the lifespan), two threads, two worker leases, nesting 2; one thread and one lease use exclusive sections | a conflict needs two owners; a third actor is needed for "waits behind", and the upgrade and priority rules need a reader, a writer and a bystander; nesting 2 distinguishes depth from a flag |
| `core_lifecycle` | two admins, one installer, the lifespan, the command line, three worker generations | two admins overlap enable with disable; the third generation is started while the first, abandoned by a bounded join, may still run |
| `context_records` | two records, one source, one content, versions to 3 | a supersession cycle needs two records; a create, a change and a reversal fit in three versions |
| `record_deletions` | one record, two contents, versions to 5 | create, delete by the source, restore, delete again, undo of the source |
| `replication` | two records, two versions, four events, one late request, one rollback | a purge in the middle of a log of another record's events, with a late request from before it |
| `replication_live` | one record, three versions, four events | every order of create, withdraw, restore and purge of a record; liveness is checked without symmetry |
| `import_operations` | two operations, one content, one chunk, one cancel, one retry, one crash | the conflicts are between two imports of the same bytes; with one chunk a blob is empty, incomplete or complete |
| `source_rebuild` | two threads, three items (two of one slot), three parsers of which the first leaves coverage incomplete, two edits, one requested rebuild, `MaxMishaps = 2` | an edit and a failure, two edits, two failures, or one stray write around any step; the parsers differ so that an item is new, gone, older and newer than what has its slot. Edits, faults and restarts count one; a heartbeat, a cancellation or a clean-up counts two, and none of them happens after an `overrun` |
| `capture_ledger` | two processes, three runs, one item, four pages: an upsert followed by its deletion, a page beyond a gap, an empty and a full page of a newer generation | a pending page survives two failed runs; the pages come in order, out of order, with a gap and again, within and across generations |
| `update_cutover` | two writes, one power loss, two failing steps | a write before and one after the first backup; a step of the cutover and one of its rollback or abort fail around a crash. With two power losses `Settles` does not hold (section 7) |
| `edge_service` | per workload: two calls of one client and one fault; a call through a decommissioning with two faults; an authorization and three generations of its tokens; two proposals with repeated keys with one fault; one proposal through a decommissioning with one fault; an unclaimed Edge with a proposal and two faults. `PerClient = 2` as in the code, `Global = 2` stands for 32, `ClaimLimit = 1` for 8, two claims for a request | the parts meet only in the identity of the client, the decommissioning and the Core's thread, which the workloads keep; both calls are queued together and a claim leaves one behind; a full queue is one of the reasons of `Refuse`, which needs no filling; two claims are a stale and a current one, three tokens a reuse after a rotation |
| `app_registration` | three shortcuts, two stamped values, two builds, one uninstall, one foreign change, three faults | a step fails, its compensation is interrupted and the recovery fails: three faults; a migration needs two builds and two values to be half stamped |

What the bounds cannot show, the proofs do (section 6) for every safety property
but those of `source_rebuild` and `app_registration`.

## 5. Fairness

Safety runs use `Spec` without fairness.

- *Lifecycle* (`FairSpec`): weak fairness of each step of a worker, an admitted
  request, an installation and the lifespan, because the operating system
  schedules every thread and no lock of the scheduler is held for ever; strong
  fairness of an enable at the control lock, because others may keep taking it.
  Requests, installations, the command line and the signal to shut down are not
  fair: they may never come.
- *Replication* (`FairSpec`): weak fairness of the start of a synchronisation
  (the worker in `edge_connection.py` tries again every 15 seconds for ever) and
  strong fairness of the read and of the request inside one, so that an attempt
  succeeds now and then although any single one may fail.
- *Rebuilds*: weak fairness of a step of some thread (the operating system
  schedules them) and of `Ask` without a rebuild: whoever wants the import asks
  again while it has not succeeded.  Rebuilds, edits, failures, cancellations
  and restarts are not fair.
- *Update*: weak fairness of the handoff, of a start with its guard and of the
  helper: a process that runs goes on, and a program that was left off is started
  again by the login or its user.  Neither writes nor cancellations are fair.
- *Edge*: weak fairness of the Core's thread (`SyncStep`, the same 15 seconds),
  of `Pair` (the user presses connect again after a failure) and of the deadlines
  of requests.  Callers, the owner, late messages and restarts are not fair, nor
  are the deadlines of proposals and of the claim.
- *Registration*: weak fairness of the steps of a call and of `Start`: the user
  runs the setup again, which registers whenever it runs from elsewhere than the
  installed program or the registered metadata is stale (`desktop.py:775-780`).

## 6. Proofs

`tlapm` on the eight `*Proofs.tla` modules checks everything below for every value
of the constants.  The assumptions are the named `ASSUME`s of the modules, which
TLC evaluates on the instances.  They ask that names of different kinds are
different (`DistinctAssumption`, `NullAssumption`, `KindAssumption`,
`NoneAssumption`, `ProcessAssumption`), that bounds are numbers, and that the
inputs the constants list (pages, workloads, parsers' findings, shortcuts) have the
form the code accepts.  No bound is used as anything but a number.

| Property of a run | Theorem | Inductive invariant |
|---|---|---|
| `Exclusion` `ShutdownQuiescent` `WriterPriority` `ImplementsBarrier` | `ExclusionCorrect` `ShutdownCorrect` `PriorityCorrect` `GateImplementsBarrier` | `ActivityGateProofs!IInv` |
| `WorkersAccounted` `StoreOutlivesWorkers` `Quiesced` | `WorkersCorrect` `StoreCorrect` `QuiescedCorrect` | `CoreLifecycleProofs!IInv` |
| `SupersessionSound` | `SupersessionCorrect` | `ContextRecordsProofs!IInv` |
| `VaultAccounted` `UserBarrier` `RelayCurrent` `PurgeFinal` `SourceUndoExact` `DeletionStands` | `VaultCorrect` `BarrierCorrect` `RelayCorrect` `PurgeCorrect` `SourceUndoCorrect` `DeletionCorrect` | `ContextRecordsProofs!HInv` |
| `EdgeMirrors` | `MirrorsCorrect` | `ReplicationProofs!IInv` |
| `Attended` `PublishedReadable` `TerminalStands` | `AttendedCorrect` `PublishedCorrect` `StandsCorrect` | `ImportOperationsProofs!IInv` |
| `CursorBehindApplied` `PendingStands` `RecordsFollow` | `CursorCorrect` `PendingCorrect` `RecordsCorrect` | `CaptureLedgerProofs!IInv`, `RInv` |
| `ServedIntact` `RollbackReady` `ImplementsAtomicUpdate` | `ServedCorrect` `ReadyCorrect` `AtomicCorrect` | `InstallationProofs!IInv` |
| `ForeignKept` `JournalLast` | `ForeignCorrect` `JournalCorrect` | `InstallationProofs!RegInv` |
| `CountedOnce` `DecommissionFinal` `Paired` `FamilyEnds` `RevokedUnserved` | `CountedCorrect` `DecommissionCorrect` `PairedCorrect` `FamiliesCorrect` `RevocationCorrect` | `EdgeServiceProofs!Inv` |

Each module has its `TypeCorrect` as well (`RegistrationTypes` for the registration).  The proofs have one
lemma per action; where an action leaves most of the state alone, frame lemmas
say once what that leaves of the invariant.

*Activity gate.*  `IInv` is the types, the finiteness of the set of open sections,
`Accounting` (each count equals the sections and leases its owner has open),
`LeaseInv` (what a lease in each phase holds) and `BarrierInv` (with a writer
inside, nobody else is counted).  Neither `Exclusion` nor `ShutdownQuiescent` is
inductive: that a writer is alone after a worker's upgrade or a task's death
depends on where the counts went.  The initial state maps to an initial state of
`ExclusiveBarrier` and every step to a step or a stutter
(`GateImplementsBarrier`).

*Lifecycle.*  Nothing in the state says that one worker executes; it follows from
who may be alive.  `WorkerInv`: the worker that is alive is the one `_thread`
names, of the latest generation, and the published status follows where it stands.
`ShutdownInv`: the fence is up before the join, and during the join only the
joined worker is alive; that is why closing the store is safe although a start
that was decided earlier may still come.  `GateInv` says which program counters
hold an admission or the barrier, and that with an owner of the barrier nobody is
admitted; `QuiescedCorrect` is read off it.

*Records.*  `SupersessionCorrect` follows from `TypeOK /\ SupersessionSound`.
Cycle-freedom is stated without recursion, by following links over a function,
and two lemmas carry the induction: a write that changes no link to a new target
keeps links sound (`SoundKept`), and one that links a record to a live target whose
chain does not contain it does too (`SoundLinked`).

*A record's life.*  The other properties of the vault share `HInv`, stated record by
record (`RecordSound`): the snapshots are gapless and the last one tells the row
(`HistoryOf`); a deleted row has its tombstone or is an untouched withdrawal
(`DeletionOf`); a record its user edited is deleted as an ordinary deletion
(`BarrierOf`); what a relay serves is live, replicated and current (`RelayOf`); the
ledger speaks of no version that was not reached (`LedgerOf`); a member of a source
deletion was that source's when it was deleted (`MembersOf`); a purge left nothing
(`PurgedOf`).  Two parts are there only because the others are not inductive:
`PrivateOf`, because a capture source withdraws its untouched records without an
event, which is right only as long as they were never replicated; and `LedgerOf`,
because a version that is used again would make an old mutation speak of it.  A
step writes few records, and `Framed` says what it leaves of the others: the purge
of one record blanks the references of others to it, so rows are compared up to
that.

*Replication.*  A purge rewrites the log while batches, late requests, an Edge and
its snapshot still hold what it said before.  `Copy` is what all of them keep: an
event is the one at its position, or one that a purge of its record has blanked
since, and it supersedes no record purged before it.  `EdgeOK` says of an Edge, at
whatever checkpoint, that its rows are what the last event of each record up to
there makes them, and that of each purge up to there nothing is left; it is stated
for the Edge and its snapshot alike, so a restored disk needs no argument.  `CoreOK`
says how the log tells Core's records: a purge is the last event that speaks of its
record, and a record whose last event is an upsert is live, replicated and as that
event has it.  `LogKept` is all that Core's writes do to the log, and `After` all
that an event does to an Edge.

*Imports.*  `Attended` and `PublishedReadable` are about the store, but what keeps
them is in the workers' hands: `WorkerOK` says, label by label, what a worker relies
on; `NameInv` and `SourceInv`, that a source is named only by operations that brought
the same bytes, and is filed at most once per operation.  A blob of a published
source is complete and referenced, so neither of the two clean-ups of section 7 can
empty it.

*Capture ledger.*  `CursorCorrect` and `PendingCorrect` are properties of single
steps, but the step that moves the cursor is safe only because the marker it
reads is its own.  `IInv` says why: runs are numbered as they begin and each
belongs to one process (`Numbered`, `OwnRun`), at most one is live (`OneLive`,
the theorem `LeaseCorrect`), a process past staging whose run is live finds a
marker (`Marked`), and a marker stands for all the events of some page
(`MarkerWhole`).  It is also why the branch of `commit_page_cursor` without a
marker (`capture.py:1740-1766`) is left out of the model: no run reaches it.
`RecordsCorrect` needs `RInv` on top: applied events lie behind the checkpoint
(`AppliedBehind`), what is left of a page follows it and one another (`InTurn`), the
sink is at most one event ahead of the ledger (`CandidatesOK`, `RecordsOK`), and the
process that holds the lease has in hand what the marker names (`RunnersOK`).  The
events a process has yet to apply are positions in its page, not a sequence that is
filtered: positions can be reasoned about without induction over sequences.

*Update.*  Three programs share files, so no program counter says what is true.
`IInv` tells five stages apart by the files alone: not begun, a journal that is not
bound (`Unsigned`), one that is bound and open (`Underway`), one that is terminal
(`Terminal`), and one that is retired (`Retired`).  Each says which processes may
run, what they hold in memory and what is installed.  `HelperInv` says how the
helper's copy of the journal stands to the file: equal except between a save and
the state's write, and never behind while it replaces or restores.  `ServedCorrect`
and `ReadyCorrect` are read off the stages.  For `AtomicCorrect` every step is mapped
to a step or a stutter of `AtomicUpdate`: the lemmas show that only the journal's
phase and its retirement touch the decision (`VersionDecided` gives that what is
installed is what was decided), that it is taken only with the Core out, and that a
step that decides nothing starts the decided version or stops one.

*Registration.*  `RegInv` is about what a call has yet to take back.  A shortcut that
is there is among the changes the call made (`muts`, the journal's `active` once a
compensation is written down), unless the journal is an upgrade's, which remembers
the build before it; a key the journal says it created is in `keyMade` until it is
deleted (`CallInv`, `JournalInv`, `Known`).  `JournalLast` needs all of it: that the
step which removes the journal finds nothing left depends on every step since the
publication, those of an earlier process included, whose journal alone tells the next
one what to undo.  `ForeignKept` needs that no identity the program keeps is a foreign
one (in `TypeOK`: the temporaries and `ids` hold `Files`) and that a foreign key has
foreign values only (`KeyInv`).  `AppRegistration` is an instance in `InstallationProofs`, and `SameSurface` carries
what it shows over to `RegistrationPromise`, which both modules extend; its assumption
is the hypothesis `R!PlansAssumption`: there is a shortcut, and none has the name of a
registry value, as in `_shortcut_plans` and `_migration_registry_names`.  That `todo`
holds names in the order of the plans is not stated: it is filtered with `SelectSeq`,
whose result needs induction; the invariant has what the steps use of it, that a
shortcut at work is one of the plans'.

*Edge.*  `Inv` has one part for each component, preserved by that component's
actions whoever takes them (`BrokerInv`, `OAuthInv`, `IntakeInv`, `PairingInv`), and
`ServiceInv`, which relates a disconnection and a decommissioning, step by step, to
what they have removed.  `PairedCorrect` turns on the acknowledgement: until it the
Core's credentials may be replaced, after it neither side changes them.
`CountedCorrect` needs that a claimed row carries the token of the latest claim, and
that a reported import was made or purged.

*Only model-checked:* liveness under fairness (`StopsInTime`, `CatchesUp`,
`Recovers`, `EdgeDrains`, `PairsInTime` and both `Settles`), which together with
`ENABLED` and induction over data is outside what the provers do; and `RebuildExact`
and `UserStands`, whose policy folds over the items of a parse (`FoldLeft`), so that
what it computes for every sequence needs induction.

## 7. What the runs found

These are behaviours of the code that a document or a comment contradicts, or
that a reader would not expect.  The modules have them; a property that denied
them would fail, and where a checked property would meet one, it names it as an
exception.

*Lifecycle.*

- A capture worker that passed its dispatch gate and queued behind an
  installation does not look at `_closing` again (`activity.py:199-202`).  If the
  shutdown takes the barrier first, it then joins, without a timeout
  (`capture_scheduler.py:1144`), a worker that waits for that barrier.
  `capture_scheduler.py:1325-1328` calls this expected convergence.
  `StopsInTime` excepts this stranded worker and nothing else.
- An enable between `_try_exit` and `_finish_worker` finds the thread alive,
  clears `_stop` and returns; the worker then leaves, and an enabled scheduler
  has none (`capture_scheduler.py:1159`).  `docs/protocols/CAPTURE.md:325-327`
  promises that the loop is kept or revived.

*Imports.*

- `delete_incomplete_source_blob` (`storage.py:2603-2626`) looks for references
  only when the blob is complete, then deletes the chunks in every case and the
  row only while it is incomplete.  The clean-up of an import refused because
  another is staging the same bytes (`import_operations.py:1046-1047`), or the
  recovery after a crash (`import_operations.py:165-167`), so empties a complete
  blob that no source names yet; the other import links it, and every retry fails
  to read it.  `docs/protocols/INGESTION.md:91-94` says that retry needs no second
  download.
- Two imports of the same bytes share a source: the parser of the second writes
  processing over what the first completed (`importers.py:2935`), and its failure
  or cancellation writes failed or cancelled (`importers.py:3030`, `3054`).
  `import_operations.py:1007-1008` says that a completed canonical source must
  not be downgraded, `importers.py:2919-2920` says so of the merge.
- A cancel of a finished import leaves a set event under its key, and a later
  retry is cancelled by it; through the key of a shared source it reaches the
  other import (`import_operations.py:257`).

*Rebuilds.*

- `request_import_cancel` (`storage.py:1901-1927`), `_mark_source_terminal`
  (`import_operations.py:993-1020`) and an ordinary worker that is still running
  write the metadata they read before without a generation, so they can take the
  publication binding of a rebuild away.  The next reprocess then publishes a
  decided session again: it withdraws every automatic record and evaluates
  nothing (`docs/protocols/INGESTION.md:196-199` says that cancellation and
  interruption leave the prior records in place).  After a reset to generation 0
  a rebuild uses a session key again, and a marker of one generation beside the
  publication of another strands the source.  `RebuildExact` and `Recovers`
  except what follows such an `overrun`; `UserStands` does not.
- A parser upgrade between publication and completion leaves a source that no
  retry completes: the retry has another session, which the publication refuses
  (`storage.py:3222-3239`), and a published generation is not replaced by a new
  one.  `docs/protocols/INGESTION.md:212-214` and ADR-101 say that a retry
  recognises the committed cutover and only finalizes the source.  `Stranded`
  in `Recovers`.
- The heartbeat of an ordinary import at its end writes the status complete
  again (`importers.py:2976-3015`); over a rebuild that has just claimed a
  generation, whose reload then finds a complete source and returns
  (`importers.py:2792`).  The source stays complete and in rebuild until it is
  asked for again.
- A purge bars only what the record is at its end (`storage.py:8317`): an item it
  was before comes back with the next rebuild.
- The replacement of a record by a newer item of its slot does not ask for user
  mutations (`storage.py:5093-5169`): a record that its user restored is
  overwritten by it, where `docs/protocols/INGESTION.md:203-205` says that a later
  rebuild does not replace that record.

*Records and replication.*

- `restore_record(version=v)` looks up an intent key that is never forgotten
  (`storage.py:7941-7949`): after a change, a second restore of the same version
  does nothing (docstring at `storage.py:7911`).
- The restore of a record whose capture source withdrew it leaves `expires_at`
  set (`storage.py:7795-7798`), so retrieval leaves it out (`retrieval.py:282`).
- A purge at the Edge learns which record the purged one superseded from its
  row, which an earlier withdrawal has already removed; the other record stays
  hidden (`relay/service.py:632-658`).  `docs/protocols/REPLICATION.md:41-43`
  promises that a purge removes the supersession references.
- A repair of stored secrets announces its purge under a scope that
  `replication.py:157-158` does not list (`storage.py:8299-8304`); the push stops
  at it for ever.  `Tainted` names the records this may happen to; it is all of
  them in `replication` and none in `replication_live`, whose `CatchesUp` it
  would break.

*Capture.*

- Recovery of a capture page that was served again after newer events commits
  its events once more and takes `capture_items` back to the older event
  (`capture.py:1648`; `docs/protocols/CAPTURE.md:134-135` says that a replay is a
  no-op at the ledger).  The records are right all the same (`RecordCurrent`).
- `renew_run` reads the clock before it waits for the write lock
  (`capture.py:1350`), while the model reads it in the transaction: within the
  busy timeout a lease that another process has seen expire can be renewed,
  unless that process has already recovered it.

*Updates.*  `Settles` excepts the behaviours in which a write failed or another
process wrote the state under the helper (`tally.disturbed`).

- `install` saves a state without identities (`updater.py:3835-3838`); the
  handoff then writes the bound identity behind its back
  (`windows_update_helper.py:2220-2250`).  The Core's copy is not read again, and
  every graceful shutdown (`persist_cancel_if_idle`, `core/app.py:473`) and
  `cancel` (`updater.py:3419-3432`) save it over the file: the helper then
  refuses its own transition and its abort.  `docs/DECISIONS.md:884-886` says
  that no updater operation can bypass the handoff's authority.

- When the Core does not exit in time, the helper aborts; if the Core's late save
  follows, the guard blocks every later start (`docs/DECISIONS.md`, ADR-195, on
  recovery from an abort).
- The seal of the terminal phase is set in memory before the journal is saved
  (`windows_update_helper.py:3296-3303`).  If the save fails, the rollback keeps
  a sealed journal in phase `rolling_back`, which every later helper refuses.
- A crash or a failed removal during retirement after `journal.json` is gone
  leaves a tombstone check (`windows_update_helper.py:3592-3597`) that wants the
  whole directory gone and blocks every later start; the comment at
  `updater.py:1819` expects the retirement to be retried.
- A crash in the middle of reclaiming a tree from before the binding blocks in
  the same way.
- The start guard promotes the pending identity without the helper's lock
  (`windows_update_helper.py:2062`), and the helper refuses its own transition.
- Two power losses, the second between Windows removing the RunOnce entry and its
  renewal, leave new executables with the records of the old build, which the new
  guard refuses (ADR-026, ADR-082).  `Settles` fails with `MaxCrashes = 2`.

*Edge.*

- Disconnecting a client from the Edge's own page (`relay/app.py:875`) ends its
  tokens and leaves its queued requests alone; Core's route (`relay/app.py:682`)
  cancels them.  A call let in before either can still enqueue afterwards.
  `RevokedUnserved` speaks of the requests that `cancel_client` found.
- `revoke_logical_client` (`relay/oauth.py:733-757`) deletes the codes only of
  registrations that have refresh tokens: a code of another registration of the
  same client survives and can be exchanged.
- A purge deletes the receipt of an imported proposal whose acknowledgement was
  lost (`storage.py:8354`); the next pull imports it again.  The docstring at
  `storage.py:4466` says exactly once, including across failed
  acknowledgements.  `ImportedOnce` counts the copies at one time.
- A proposal that expired after 30 days with a lost acknowledgement and is sent
  again by its client is imported again.
- Preparing a new claim on top of an expired one makes new forwarding keys even
  if the Edge has acknowledged the old ones and the address is not saved yet.

*Registration.*  `Settles` lists the states in which every further installation
is refused (`Refused`), each of them reached:

- a crash among the shortcuts before the key is staged (intended, the tests call
  it `registration_recovery_ownership_unproven`);
- a crash between the commit of the key and the record that it was created: its
  own key counts as somebody else's;
- a crash after one value of a migration was stamped: the key is neither the old
  one nor the new one (ADR-212, `docs/DECISIONS.md:225-228`, says that an
  interrupted migration resumes forward);
- an upgrade that meets an unfinished journal of the older build;
- a crash in the regeneration of a shortcut by a recovery, before its identity is
  saved;
- a generator that fails and leaves its temporary, whose clean-up fails too:
  `registration_temporary_exists` from then on;
- a compensation or an uninstall whose deletion of the key failed once and then
  took the values one by one: the key never matches again (the docstring at
  `application_install.py:3929` keeps unresolved mutations for bounded retry).

`JournalLast` excepts one path: an interrupted rollback of a migration is
resumed as the rollback of an installation (`application_install.py:3806`),
deletes the key, drops the journal and leaves the shortcuts, where ADR-212 says
that a failed migration compensates to the old authenticated installed record.

## 8. What is not modelled

`PROJECT.json` lists every component with its status and the reason.  In short:
text and scoring (retrieval, parsers, extractors), cryptography and HTTP,
exports, archives and configuration files, presentation (dashboard) and
development tools (benchmarks, release gates) have little order or concurrency
to check; they are most of the repository's lines.  The client lifecycle
runtime and the planner of captures have, and are left for later.

Inside the modelled parts these are left out:

- tentative and corroborated observations, access lists, links between records
  and the sessions of clients in the observation policy; the merge of two sources
  and progress figures and staging files of imports;
- registration of capture sources, retry budgets and acknowledgements, capture
  of several sources in one cycle;
- the check, download, staging and signatures of releases, preferences and
  automation of the updater, the rollback on request, the trust checks of paths;
- at the Edge the registration window, the owner's tickets and sessions,
  `revoke_all_clients`, the binding to an instance, the encryption of payloads,
  and preparation and reset of a claim;
- in the registration PowerShell and DPAPI, path trust, the quarantine path,
  journals of schema 1, an empty key of somebody else and the replacement without
  transactions, the adoption of the beta's shortcuts, and a downgrade, which the
  code refuses for installation and removal alike.

## 9. Plan

Done, in this order: `ActivityGate` with `ExclusiveBarrier`, `ContextRecords`,
`CoreLifecycle`, `Replication`, `ImportOperations`, `CaptureLedger`,
`UpdateCutover` with `AtomicUpdate`, `ForwardingBroker`, `EdgeOAuth`,
`ProposalIntake`, `EdgeClaim`, `EdgeService`, `AppRegistration`,
`SourceRebuild` with `ArchivePolicy`.

To prove next: of `SourceRebuild`, that the generation of a source never falls
without an overrun, which needs nothing of the policy.

To model, should a later version of this project grow: the planner of captures
(back-off, budgets); the client lifecycle; the pure algorithms of
`set_selection.py`, `temporal.py` and `memory_policy.py` against reference
definitions.  The number of runs and properties is kept small: a new
module takes the place of a run whose finding this file then keeps.
