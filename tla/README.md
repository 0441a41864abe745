# PhotoBridge: TLA+ models, model checking and proofs

PhotoBridge moves photo libraries. `scan` records a source manifest, `plan` freezes
a plan of copies, `migrate` copies and verifies every planned file, `resume`
publishes verified copies and repairs what an interrupted run left behind, `serve`
receives uploads, `parse` reads a Takeout export. This directory holds TLA+ models of
the parts whose correctness depends on the order in which things happen: crashes
between two system calls, several threads, superseded executors, failing transactions.

Paths below are relative to the repository.

## 1. The system

| Component | State it keeps | Operations | What is hard about it |
|---|---|---|---|
| Task runtime repository (`src/app/task_runtime_repository.cpp`) | SQLite rows: current epoch, task state, owner epoch, active attempt, attempt count, attempt file state, receipts, dependencies | AddTask, AddDependency, SetReady, AcquireNextExecutionEpoch, ClaimNextReady, MarkCommitIntent, MarkTempWritten, PersistVerifiedReceipt, MarkSucceeded, MarkRetryable, Recover* | late calls of superseded executors; two rows per task that must agree |
| Migrate (`src/pipeline/migration_service.cpp`, `src/app/migration_attempt_preparer.cpp`) | temporary files in the target root | materialize, claim, copy, flush, verify, store receipt | death at any point, failing calls, source edited while it is read |
| Resume (`src/pipeline/recovery_service.cpp`, `src/filesystem/reconciler.cpp`) | final files | observe, decide, confirm, rename, fsync, record the outcome | decisions made on observations that may be stale; durability order |
| Worker pool (`src/pipeline/migration_service.cpp`) | bounded queue, `producer_done`, `first_error` | claim and push; pop, execute, report | one condition variable for both sides; error races |
| Runtime DB writer (`src/app/runtime_db_writer.cpp`) | command queue, promises, an open transaction | Enqueue, batch, commit or roll back, Complete, Stop | grouping, rollback of innocent commands, Stop and exceptions racing with callers |
| Plan lock (`src/app/plan_execution_lock.cpp`) | one `flock` per plan | Acquire, release on process end | must not survive its process |
| File operations (`src/filesystem/linux_file_ops.cpp`) | directory entries, page cache, disk | create, write, fdatasync, rename without replacement, unlink, fsync of a directory | what a power loss keeps |
| Upload receiver (`src/filesystem/upload_session_store.cpp`, `http_server.cpp`) | session and file rows, partial files | create session, begin, commit, complete, recover | concurrent requests, restart, quota |
| io_uring copy engine (`src/filesystem/io_uring_copy_engine.cpp`, fallback in `migration_attempt_preparer.cpp`) | ring cached per thread, buffers, in-order hash cursor | prepare, submit, wait, reap, drain after an error | completions out of order, short transfers, what an error leaves in the cached ring |
| Scan and manifest builder (`src/pipeline/scan_service.cpp`, `src/app/manifest_builder.cpp`, `src/source/`) | manifest rows, BUILDING or FROZEN, digest | walk, insert in batches, freeze | the folder changes during the walk; a failing or killed scan |
| Plan service and plan artifact (`src/pipeline/plan_service.cpp`, `src/model/plan_artifact.cpp`, `canonical_plan.cpp`, `path_mapper.cpp`) | plan file under its final and its temporary name | reopen the manifest, map paths, build, publish without replacement; parse | concurrent runs share the temporary name; crash between the steps; truncated files |
| Takeout parser, association graph (`src/source/takeout_parser.cpp`, `src/model/association_graph.cpp`) | result of one parse | pair by name, match sidecars, report the rest, union-find | case analysis; iteration order of hash maps |
| `verify`, `status`, CLI, SQLite wrapper | none of their own | read-only or plumbing | - |

Interaction: `scan` freezes a manifest; `plan` reads a frozen manifest and publishes a
plan file named after the plan's digest; the first `migrate` with that file creates the
tasks (materialization). `parse` stands apart: it reports how the files of a Takeout
folder belong together and changes nothing. `migrate` takes the plan lock, materializes
the plan, refuses to go on if a task is RUNNING, acquires an epoch, and claims tasks one
by one; workers write
a temporary copy of each and store a *verified receipt*. They never publish: the task
stays RUNNING with its receipt. `resume` takes the same lock, acquires a newer epoch,
looks at source, temporary file, final file and receipt of every RUNNING task, and
publishes (rename without replacement, fsync of the directory, SUCCEEDED), adopts,
retries or declares the task inconsistent. In the concurrent phase of `migrate`
all database calls of the threads go through the DB writer.

`PROJECT.json` lists the components with their status and the hazards line by line.

## 2. Modules

| Module | Models | Uses |
|---|---|---|
| `TaskRuntime` | the task tables and every operation of the repository that changes them | - |
| `TaskRuntime_proofs` | theorems about `TaskRuntime` for all constants | `TaskRuntime` |
| `Reconciler` | `Decide` as an operator | - |
| `CommitProtocol` | `migrate` and `resume` step by step, the target directory, faults | `TaskRuntime`, `Reconciler` |
| `RuntimeStore` | abstract: what a caller of a `MigrationRuntimeStore` may rely on | - |
| `RuntimeDbWriter` | the writer thread and its callers | refines `RuntimeStore` |
| `MigrationPool` | the threads of one `migrate` run | relies on the promise of `RuntimeStore` |
| `UploadReceiver` | the HTTP handlers of `serve` and the session store | - |
| `IoUringCopy` | the copies one worker thread makes: engine, fallback, kernel | - |
| `ManifestBuilder` | `scan` of a folder in use, the manifest tables | `Sorting` |
| `PlanArtifact` | the plan file: `Serialize`, `Parse`, path mapping, as operators | `Sorting` |
| `PlanService` | `plan`, materialization, power losses, composed with `scan` | `ManifestBuilder`, `PlanArtifact` |
| `AssociationGraph` | vertices, edges, union-find, as operators | - |
| `TakeoutParser` | the loops of the parser and of the `parse` command | `AssociationGraph` |
| `Sorting` | `std::sort` by a key, as an operator | - |
| `MigrationPool_proofs`, `RuntimeDbWriter_proofs`, `UploadReceiver_proofs`, `IoUringCopy_proofs`, `CommitProtocol_proofs`, `PlanService_proofs`, `TakeoutParser_proofs` | theorems about the module of the same name for all constants (`PlanService_proofs`: about `ManifestBuilder` and `PlanService`) | that module; `CommitProtocol_proofs` also `TaskRuntime_proofs` |
| `MC_*` | instances for TLC (symmetry sets, constants that are functions) | the module of the same name |

**TaskRuntime.** One action per operation; a refused operation rolls back and is a
stuttering step. Callers are left open: any epoch ever handed out and any attempt
number may be used in any call, in any order and any number of times, which includes
every late or repeated call of a superseded executor. Epoch 0 and attempt 0 stand
for NULL. Attempt ids are the ordinals `attempt_count` gives them. The columns for error
texts and the event log are left out; nothing reads them back.

**CommitProtocol.** `proc` is the plan lock together with the command that holds it. `pc`
follows each worker through `ExecuteClaimedTask` and `Prepare`, `rpc` follows `recover_one`.
Between any two steps may come a kill, a power loss, a failing call (with the error path the
code has at that place), a change of the source or an edit in the target directory. The
directory is modelled with names, inodes and page cache: `disk` is the set of directory
contents a power loss may leave; bytes that no fdatasync covered come back incomplete. The
target root itself may be taken by a power loss as long as its parent was not synced; the
ghost variable `rootLost` remembers that, and the durability of published files is stated
for runs without it. The database is SQLite in WAL mode with `synchronous = FULL`: committed
transactions survive. Copying is one step with an outcome; the transfer loop is the subject
of `IoUringCopy`, whose `CopyIsFaithful` is the outcome assumed here.

**RuntimeDbWriter.** The queue, the grouping rule (same kind, no claim, no task twice, at most
`max_batch_size`), BEGIN / operations / COMMIT with failures at each, completion of the
promises one by one, `Stop`, and the path of an exception. The condition variable is
explicit, so lost wakeups are possible behaviours. The constant `Sends` says which kinds
of commands, for which tasks, each thread sends. The exception path of the code
calls `Fail` on every promise of the batch; if an exception comes after the first
promise has been set, `std::future_error` leaves the thread function and the process
terminates (`wpc = "terminated"`).

**MigrationPool.** The predicates of the two waits, `notify_all` under or after the
lock exactly as in the code, `first_error` and `producer_error`, and the exit status.

**UploadReceiver.** The handler threads of the HTTP server share one SQLite connection.
Single calls are serialised by the library, transactions are not, so every call that
matters is a step: `db` is what the connection sees, `committed` what a restart finds,
`txn` the thread whose transaction is open. A BEGIN inside the transaction of another
thread fails and ends the request; `MarkUploadFailed`, which has no BEGIN, becomes part
of whatever transaction is open and is undone with it. `pc` follows each request through
BeginUpload, ReceiveBody, the comparison with `client_digest`, the rename without
replacement, the fsync of the session directory and CommitUpload; sessions are created
against the quota (the sum, the rows and COMMIT are steps of their own) and completed; a
GET of a session reads the rows the connection sees, committed or not (`GetSession`); a
restarted server runs RecoverInterruptedUploads before it listens. A session has two
directories, for finals and for temporary files, whose parents nobody syncs: a power loss
may take either away with what is in it (`noDir`, `noTempDir`), unless an earlier one has
already left it on the disk (`settled`), and nothing makes it again. Bodies are a few
contents; file sizes, names, authorisation and JSON are left out. The ghost variables
`acked`, `shown`, `adopted`, `unreadable` and `powerLost` record what clients were told
and what recovery and power losses did.

**IoUringCopy.** The engine's loop with its locals: chunks in slots, requests prepared,
submitted, executed by the kernel one by one in any order and possibly short, completions
reaped, chunks hashed in file order and written afterwards, the drain after an error, and
the synchronous `CopyAndHash` when the engine reports that it cannot be used. `pc` says
where the loop is: starting the first reads, waiting for a completion, in `hash_ready`
(one chunk per step) or submitting the rest of a short transfer. Calls to the ring, the
hasher and the files may fail where the code tests for it. The ring is
`thread_local`: the next copy finds what this one leaves in it, and a failed
initialisation stays cached. Reads of a ring that was closed with them in flight go on
as `orphans`: the memory they read into has been freed and may by now be a slot of the
next copy, so when one ends (`OrphanEnds`) the rest of any slot's buffer, from any unit
on, may become `Stale`, before or after it is hashed or written, or nothing happens. A byte is
a unit `<<copy, position, version>>`, so that a unit in the wrong place, of an older copy
or read before an edit is told apart. Another program may
edit the source; `VerifyAfterRead` compares the identity.

**ManifestBuilder, PlanArtifact, PlanService.** `scan` walks a tree that another program
changes between any two steps; rows go to the database in batches, each a transaction;
`Freeze` computes the digest in the transaction that sets FROZEN. A digest is the set of
rows it covers and a plan id is the plan (hashes are injective). A plan file is a
sequence of lines; a cut leaves half lines (`Torn`). Files are known by the run that
created them, so that one run touching another's file shows; the plan directory exists
twice, as processes see it and as of its last sync. Several runs of `plan`, of the same or of
different manifests, are interleaved step by step with scans, materializations, kills,
failing calls and power losses.

**AssociationGraph, TakeoutParser.** A folder is a set of names; a name is a base and
the extensions the rules look at; what reading a JSON file gives is a `Document`, an error
or a value for each field; an exception that `Parse` does not catch ends the command there
(`ReadThrows`). Each loop over a hash map takes its keys in any order, and the
final sort may leave equal relations in any order. Asset ids are `path-` and the hex of the
path, so files are ordered by the bytes of their paths; the model allows any order. Then the
`parse` command builds the graph, the logical assets (union-find), the metadata
resolutions and the photos. Two things the model makes visible: sidecars are attached by
`metadata_attachment` edges, which the union-find ignores, so they never join the photo of
their medium; and a third medium of a stem (`dng`, `jpg` and `png`) gets neither a
relation nor an error. `CleanParseIsComplete` says what success does guarantee.

## 3. Runs

| Run | Instance | Distinct states | Shows |
|---|---|---|---|
| `task_runtime` | 2 tasks, 3 epochs, 2 attempts, 2 receipt contents | 263 784 | ownership, single live attempt, outcomes, receipts, epoch order and dependencies stay consistent; superseded attempts are frozen; evidence is immutable |
| `commit_protocol` | 1 task, 3 faults, 6 epochs, root missing or on disk | 509 029 | SUCCEEDED implies a receipt and a matching final; published files survive a power loss; the only verified copy is never destroyed; existing finals are never replaced; `CPSpec` implies `TaskRuntime`'s `Spec` |
| `commit_three_tasks` | 3 tasks, one with a nested target, root on disk, 1 fault | 86 701 | `migrate` never works beside an orphaned RUNNING task (two workers at once, orphans); every RUNNING task without a nested target is resolved |
| `db_writer` | main thread and 2 workers, 3 commands, batches of 2, 1 error, 1 exception | 235 326 | the writer implements `RuntimeStore`; commits follow acceptance and Stop drains (`QueueIsServed`); every accepted call and Stop return (`CallsReturn`) |
| `migration_pool` | 5 tasks, 2 workers, capacity 2, 2 errors | 33 452 | each claimed task is executed once, none is abandoned, errors stop claims and decide the exit status, the run ends |
| `upload_receiver` | 2 handler threads, 2 sessions, 3 files, 2 contents, 6 requests, 2 faults | 2 640 272 | one receiver per file; RECEIVED files are stored under a synced name with the recorded digest, unless a power loss took the directory of their session; what a PUT was told stays true, what a GET showed is stored; a registered digest is honoured even by recovery; sessions complete only when full; the quota holds; a retry is not blocked by a leftover final unless recovery could not read it |
| `io_uring_copy` | 2 copies of 0 or 5 units, chunks of 2, 2 slots, 1 failing call, 1 edit | 372 798 | a reported digest is of the bytes in the target, in file order, and they are the planned source, with bytes of an older file only after a failed wait (`CopyIsFaithful`); no buffer serves two requests; the cached ring holds nothing of an ended copy; every copy returns |
| `plan_service` | 5 paths (a directory, a staging name, two names that differ in case), batches of 2, 1 scan, 2 runs of `plan`, 2 edits, 2 faults | 1 453 170 | frozen manifests are complete and what `scan` printed stands; plan files are whole at every moment and durable once reported, cut files do not parse; temporary files have an owner; tasks are exactly the rows of a frozen manifest |
| `takeout_parser` | every folder of up to 4 of 15 names, 3 documents | 229 134 | each sidecar is settled once; success means nothing is left unexplained; the photos are the connected components, whatever the iteration order; the loops end (deadlock is checked) |
| `adopt_without_fsync` | 1 task, 2 faults | violation | see Findings |
| `resume_leaves_running` | 1 task, root missing, 1 fault | violation | see Findings |
| `upload_busy` | as `upload_receiver`, 4 requests, no fault | violation | see Findings |

Several checked definitions are conjunctions of named parts, where the parts state one idea
together: `AttemptHistory` (`OneLiveAttempt`, `OutcomeAgrees`, `AttemptEpochsOrdered`),
`SucceededIsRight`, `VerifiedBytesSurvive` (`PublishedIsDurable`, `EvidenceKept`),
`QueueIsServed` (`CommitsFollowAcceptance`, `StopDrains`), `CallsReturn` (`EveryCallReturns`,
`StopReturns`), `TasksHandedOver` (`OneExecutor`, `NothingAbandoned`), `ReceivedStays`
(`ReceivedIsStored`, `AcknowledgedStays`, `ShownIsStored`), `CompleteIsRight` (`HashedIsRight`,
`CompleteIsFull`), `CopyIsFaithful` (`CopiedIsHashed`, `OkMatchesSource`,
`StaleAfterFailedWait`), `BuffersExclusive` (`CopyTypeOK`, `OneRequestPerSlot`),
`ManifestsStand` (`FrozenIsComplete`, `ReportedScanStands`), `PlansStand` (`PlanFileIsWhole`,
`ReportedPlanIsDurable`) and `TempsOwned` (`PlanTypeOK`, `TempHasOwner`).

Bounds and why they are enough. Two tasks suffice for every property that quantifies over
tasks, since tasks interact only through the epoch, the claim order and the dependency
graph. Three epochs are an executor, one that supersedes it, and a recovery; two attempts
are a failed one and its retry. Three faults in the commit protocol are, for instance, a
kill in the middle of `migrate`, another in the middle of the `resume` that repairs it, and
a power loss. `MaxMigrateEpoch` is below `MaxEpoch` so that there is always an epoch left
for `resume` after the last `migrate`. Three threads and batches of two let a batch form
behind a running command while another one arrives; the limit of 16 commands in the code is
not special. The pool has more tasks than workers and queue places together, so the claiming
thread has to sleep on a full queue. A file of five units has a short last chunk and one
chunk more than the ring has slots, so a slot is used again while another is in flight; the
second copy shows what the first left in the ring, and the empty file has no chunk at all.
One scan is enough for `PlanService`: a failed scan's manifest is never used again, and a
second scan starts with a new id. `MaxHalf`, twice the number of lines of the longest plan
file, bounds how much one write or one power loss may leave, so every cut is possible. Two
edits are a change behind the walk and one ahead of it; two runs of `plan` are what it takes
to meet in one temporary name. Four names in a folder are, for instance, three media of a
stem and the sidecar that has to choose between them. The two upload sessions do not fit
into the quota together, so the second one is rolled back beside the uploads of the first;
two threads are enough because they meet only in the connection, which one of them holds;
six requests are two sessions, three uploads and a retry or a completion. Deadlock checking
is on for the copy engine and the parser, whose specifications name their ends, and off
elsewhere because those systems may come to rest: nothing left to do, bounds used up,
everyone returned. That nobody rests while something is owed is what the liveness properties
say.

Symmetry is used where values are only compared for equality: receipt contents
and handler threads, in safety runs only.

Fairness. `CommitProtocol`: a running command keeps taking steps (one weak fairness
condition on the program's steps; both commands are finite), and the operator runs `resume`
when it is needed, which is what the error message of `migrate` asks for. Nothing is assumed
about faults or new runs of `migrate`. `RuntimeDbWriter` and `MigrationPool`: weak fairness
for each thread, that is, the operating system runs a thread that can run; nobody has to
call, to stop or to fail. `IoUringCopy`: weak fairness of the thread and of the kernel,
which executes every submitted request some time. Threads asleep on a condition variable are
not enabled, so fairness does not hide a lost wakeup (the mutants of `CallsReturn` and
`RunEnds` show that; the one of `CopyReturns` submits an empty read again and again).

Each property has a mutated form of a definition that breaks it (`mutants` in
`PROJECT.json`; the mutated forms stand beside the definitions they replace).

## 4. Proofs

Eight modules hold theorems, all checked by TLAPS without open obligations. They hold for
every value of the constants: any number of tasks, workers, sessions, files, scans, faults,
any tree, any file and chunk size, any folder and any contents. What they assume is what the
modules declare:

* `TaskRuntime`: tasks are positive numbers, the bounds are positive, `NoReceipt` is not a
  receipt.
* `MigrationPool`: there is a worker, the capacity is positive, task ids are positive numbers.
* `RuntimeDbWriter`: batches have 1 to 16 commands, the limit in the code, and the kinds of
  commands are those the store has.
* `UploadReceiver`: every file has a session and every session a size, and the values that
  stand for "no file" and "cut off" (`Absent`, `Partial`, `NoOne`) are not contents.
* `IoUringCopy`: chunks have at least one unit and the queue has 1 to 16 places, the limits
  of the code.
* `TakeoutParser`: two files never have the same asset id, and what is wrong with a JSON file
  is one of the errors the code knows.
* `ManifestBuilder`: the tree is finite, every entry lies in a directory, and no directory
  lies in itself (`Parent` has no cycles); what is there at the start is there with its
  directories; batches have at least one row.
* `CommitProtocol`, `PlanService`: the root is missing or on disk at the start; folding the
  case of a path gives some value. All bounds on faults, epochs and runs are any natural
  numbers.

TLC evaluates these assumptions in the runs. Each inductive invariant was an invariant of
TLC runs before it was proved. In each proof the step lemma goes action by action, an
action of several disjuncts or one that changes many parts having a lemma of its own
(`...Keeps`).

**`TaskRuntime_proofs`.**

* `RowInvariant`: `Spec => []RowInv`, the inductive invariant. It joins the checked
  invariants `TypeOK`, `OwnershipConsistent`, `OneLiveAttempt`, `OutcomeAgrees`,
  `ReceiptMatchesAttempt` and `AttemptEpochsOrdered` with `RowsDense`: a task has attempt
  rows exactly for the ordinals up to its attempt count. Without it a claim could meet an
  old row at the ordinal it is about to use, and none of the others would be preserved. The
  proof goes action by action (`StepCases` reduces the operations to the updates they are
  made of).
* `TypeCorrect`, `OwnershipSafe`, `AttemptHistorySafe`, `ReceiptsSafe`: the checked
  invariants, from `RowInv`.
* `SupersededFrozen`, `EvidenceIsImmutable`: the two action properties. A step that
  keeps a superseded task RUNNING would need the current epoch to be the owner's.
* `AcyclicAlways`: the ancestor query of `AddDependency` keeps the graph acyclic.
  The argument takes a set with no minimal element after the new edge and separates
  it with the closure of the edge's head (`SeparatingSet`, `AcyclicStep`).

**`MigrationPool_proofs`.** `PoolInv` says what each thread holds where it is, that a task is
in one place (claimed, queued at one position, or with one worker), that a failed execution
is remembered by its worker until `first_error` has it, and why the main thread stopped
claiming. `RoomForClaim` is the part the queue bound needs: the length is tested under one
lock and the push happens under the next, and nobody else pushes in between. From it:
`PoolTypeCorrect`, `TasksHandedOverSafe` (through `PlacesUnique`, since the property counts),
`SuccessSafe` and `ErrorStopsClaimsSafe`.

**`RuntimeDbWriter_proofs`.** `WriterInv` orders the ids along committed, batch and queue,
ties each command to the caller that waits for it and back, and says that the result a batch
is completed with, and every promise already set, is the truth about its transaction. The
batch is a beginning of the queue (`BatchSizeInRange`, `CutFacts`). From it:
`WriterTypeCorrect`, `QueueIsServedSafe`, and the refinement `WriterImplementsStore`: `COMMIT`
is the abstract `Commit` of the calls that wait for the batch (`CommittingIsCommit`),
`Enqueue` is `Call` or `Refuse`, the caller's `get` is `Return`, everything else stutters.

**`UploadReceiver_proofs`.** `UploadInv` states the properties twice, of the committed rows and
of the rows the shared connection sees, and what may lie between them: an open transaction only
ever adds RECEIVED, and the thread that adds it is in CommitUpload. A receiver is alone with its
row, its temporary and its final name, and a PUT about to become receiver finds no other. From
it: `UploadTypeCorrect`, `OneReceiverSafe`, `CompleteIsRightSafe`, `RetryIsOpenSafe`, and
`ReceivedStaysSafe`. The last needs `ShownInv` for what a GET has shown: a row that is RECEIVED
for the connection, committed or not, is of a stored file, and no step takes a stored file away
(`StoredLasts`) except the power loss that takes its directory, which `Stored` names.
`QuotaHeldSafe` needs `QuotaInv`: the rows the connection sees and the committed rows both stay
within the quota, since a COMMIT makes the one the other and a rollback or a restart the
reverse; and between the sum and the INSERTs of a session, which are two steps, nothing is
reserved by another thread (`Counted`). The reserved bytes are counted as a set of pairs of a
session and a byte number, and a new session adds at most its own (`ReservedGrows`); a sum over
the sessions would need induction.

**`IoUringCopy_proofs`.** `CopyInv` follows the request of each slot. It is in exactly one
place, prepared, with the kernel or completed, and `in_flight` counts the ones that are not in
the submission queue (`OnePlace`); it is for the rest of the chunk of its slot, in the direction
of its phase (`RequestsRight`); a slot that reads or writes has one (`Served`). Slots hold
different chunks: those before `next_hash` are written, the others read or ready (`SlotsRight`).
On top of this comes the data: a buffer holds the units of its chunk as far as the slot has
progressed, a completion not yet taken has moved what it reports (`BytesRight`,
`CompletedRight`), and the target holds what was hashed for every chunk that no slot writes any
more (`HashedRight`). Between copies the ring and the counters are empty (`CleanOK`). All this
holds up to stale units, which a read of an earlier copy may leave in any buffer; `NoStale` adds
that before a wait has failed in the thread there is no such read, and nothing stale in the
buffers, in what was hashed or in the target. Why the parts are needed together: whether a
completion may advance a slot depends on there being no other request for its buffer, and
whether the drain after an error has emptied the ring on the count being exact. From it:
`BuffersExclusiveSafe`, `RingCleanSafe`, `CopyIsFaithfulSafe`.

**`CommitProtocol_proofs`.** `CPInv` joins `RowInv` of `TaskRuntime_proofs` with: who runs (workers
only in `migrate`, a current task only in `resume`), that workers and `resume` work on RUNNING
tasks they own, that everything a power loss may leave under a final name is the file of a claimed
attempt whose bytes were synced before the rename, what `resume` has made sure of at each step
towards SUCCEEDED, and where the verified bytes of a RUNNING task are. From it:

* `RuntimeUsed`: `CPSpec` implements `TaskRuntime`'s `Spec`. Every step of the commands is a
  repository operation with arguments it accepts, or leaves the tables alone (`TableStep`
  and the lemmas on owned attempts). So every theorem of `TaskRuntime_proofs` holds of the program.
* `MigrateOwnsRunningSafe`, `SucceededIsRightSafe`, `VerifiedBytesSurviveSafe`, `CPTypeCorrect`,
  and the action property `ExistingFinalKeptSafe`.

The attempt to prove `PublishedIsDurable` corrected it. It used to ask for the target root
to be on disk *now*; with two tasks and two power losses that is not enough, because a root
lost with the published file of one task can be created and synced again by the other. Its
hypothesis is now that no power loss took the root (`rootLost`).

**`PlanService_proofs`.** `ScanInv` describes the walk by two sets: the
directories listed so far, and entries that have existed since the scan began together with
their directories. An entry of the second kind in a listed directory waits, has been listed
itself, or has its row (`NothingMissed`); what waits has neither been listed nor got a row
(`NothingTwice`). When nothing waits, an entry without a row would have a parent that was
not listed, and so on upwards for ever, which a tree without cycles does not allow
(`WalkIsComplete`). `PipelineInv` adds the plans (made of all rows of a frozen manifest), the
files (whole and synced before they get a final name), the directory as seen and as synced (one
file per name, each with its owner) and the tasks. It rests on what `Serialize` and `Parse`
do: a file cut at any half line does not parse (`CutDoesNotParse`: the end marker is the last
line and only there, `EndIsLast`), and a whole one parses to the plan it was made from
(`RoundTrip`). From it: `ManifestsStandSafe`, `PlansStandSafe`, `TempsOwnedSafe`,
`TasksAreTheManifestSafe`.

**`TakeoutParser_proofs`.** `ParseInv` says what the loops have done so far, whatever the order in
which they took the keys: the attachments among the relations are exactly those of the settled
keys with one medium and one sidecar (`AttachmentsRight`), the errors with an association code
exactly those of the other settled keys (`ErrorsRight`), and an unknown file, a weak match, an
ambiguous pair and a medium without explanation have each left an error (`NothingHidden`). That
a sidecar is counted once follows because it has one key and files have different ids
(`KeyOfFile`, `OneVerdict`). An exception that escapes leaves the result as it was
(`ReadThrowsParse`). From it: `SidecarsSettledSafe`, `CleanParseIsCompleteSafe`.

| Invariant | Checked by TLC before the proof, on distinct states |
|---|---|
| `RowInv` | 263 784 (`task_runtime`) |
| `PoolInv` | 33 452 (`migration_pool`) |
| `WriterInv` | 235 326 (`db_writer`) |
| `UploadInv`, `ShownInv` | 2 640 272 (`upload_receiver`) |
| `CPInv` | 215 421 (2 tasks), 509 029 (`commit_protocol`), 86 701 (`commit_three_tasks`) |
| `ScanInv` | 376 953 (`scan` alone) |
| `PipelineInv` | 1 453 170 (`plan_service`) |
| `QuotaInv` | 2 640 272 (`upload_receiver`) |
| `CopyInv`, `NoStale` | 372 798 (`io_uring_copy`) |
| `ParseInv` | 229 134 (`takeout_parser`) |

Model-checked only:

* Liveness under fairness, which is outside the prover's reach: `RunningIsResolved`,
  `CallsReturn`, `RunEnds`, `CopyReturns`.
* `PhotosAreComponents`: that the graph accepts what the parser gives it and that the
  union-find finds its components is about folds over sequences and a recursive function, and
  what these compute for every input needs induction over data. The proofs above treat the
  graph and the photos as opaque values.

## 5. Findings

Each is a difference between the code and what its documents or messages say, and a run
that TLC refutes.

1. `adopt_without_fsync` (`src/pipeline/recovery_service.cpp:382`). The commit order in
   the design document is receipt, rename, fsync of the directory, SUCCEEDED. If a run
   is killed between rename and fsync, the next `resume` takes the `AdoptFinal` branch, which
   records SUCCEEDED without a fsync of the directory; a power loss afterwards can take
   the final away. `PublishedIsDurable`, part of `VerifiedBytesSurvive`, states the durability
   the other branches do give.
2. `resume_leaves_running` (`src/pipeline/recovery_service.cpp:212`). If `migrate` dies
   after the claim and before the target root is created, `resume` fails on the missing
   root and leaves the task RUNNING, and `migrate` refuses to run until it is not. The
   liveness run therefore starts with an existing target root.
3. `upload_busy` (`src/filesystem/upload_session_store.cpp:721`). The handler threads share
   one connection. If a request reaches BEGIN of CommitUpload while another request has its
   transaction open, it answers 500 and leaves the row RECEIVING, with the file published.
   From then on every PUT of that file is answered 409 "upload is already receiving"
   although nobody receives it, until a restart adopts the file. The upload page sends three
   files at a time and retries on 409. A `MarkUploadFailed` that another thread's rollback
   undoes ends the same way. `OneReceiver` and `ReceivedStays` show that nothing
   worse follows: no file is received twice at once and no acknowledged upload is lost.

## 6. Not modelled, and the plan

Not modelled: the read-only commands (`verify`, `status`); the start of `serve` (token,
certificate, listening) and the upload page; the SQLite connection and schema (its
transactions are assumed atomic and durable); argument parsing and workspace layout; byte
formats (Base64, JSON fields, digests, the manifest encoding); the capability tables of
path mapping and the metadata merge beyond what `parse` does with it.

Known and covered by no property:

* A failed attempt leaves its temporary file (`migration_attempt_preparer.cpp:47`); the
  next attempt has another name, so nothing is blocked.
* `AddDependency` checks and inserts without a transaction
  (`task_runtime_repository.cpp:1080`); no command adds dependencies.
* An error while waiting for the ring closes it and frees buffers that the kernel still reads
  into (`orphans` in `IoUringCopy`). `RingCleanBetweenCopies` says that nothing else does, and
  that such a request never reaches the ring of a later copy; but its bytes can: the worker
  goes on with the queue, and its next copy may hash and write bytes of the older file.
  `StaleAfterFailedWait` says that this is the only way they get there. `VerifyBinary`, which
  reads the temporary file again, finds bytes that changed after they were hashed and not
  those that were stale already when they were hashed. Other objects on the heap, of this or
  another thread, may be hit as well; that is not modelled.
* A GET may show a file as RECEIVED, or a session as COMPLETE, from a row that is rolled back
  afterwards. The file is stored all the same (`ShownIsStored`) and is adopted at the next
  start; of a COMPLETE shown this way nothing is recorded.
* A power loss may take the directories of a session, whose parents are never synced. What was
  acknowledged in them is lost, the rows stay, and since nothing makes the directories again no
  upload into that session succeeds any more.
* `RunningIsResolved` assumes that errors of `resume` do not last: a source root that can never
  be opened, a guard that always fails or a directory at the final name leave the task RUNNING
  for good (`recovery_service.cpp:205`, `233`). In the model they are single faults; a missing
  target root and a nested target do last.
* The errors of the parser are a vector in the code and a set in `TakeoutParser`: the same code
  reported twice for one file would not be seen.
* `plan` reports an existing plan file without a sync of the directory, and `migrate` never
  syncs the parent of the target root. `ReportedPlanIsDurable` is therefore about published
  plans only, and `PublishedIsDurable` excepts a lost root.
* An exception after the first promise of a batch is set ends the process
  (`runtime_db_writer.cpp:328`); the model has the step, and the commit protocol the kill.

Next: a specification of an upload as one atomic publication that `UploadReceiver`
implements.
