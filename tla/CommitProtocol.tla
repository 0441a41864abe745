--------------------------- MODULE CommitProtocol ---------------------------
(***************************************************************************)
(* The crash-safe commit of one plan: `migrate` copies and verifies each   *)
(* source into an owned temporary file (migration_service.cpp,             *)
(* migration_attempt_preparer.cpp), `resume` publishes it or repairs what  *)
(* an interrupted run left behind (recovery_service.cpp), and both keep    *)
(* their state in the task tables of module TaskRuntime.                   *)
(*                                                                         *)
(* The plan's lock file (plan_execution_lock.cpp) lets one command at a    *)
(* time work on a plan and is dropped by the kernel when its process ends, *)
(* so `proc` is the lock.  Around the commands happen: process kills,      *)
(* power losses, failing system calls, changes of the source and a user    *)
(* who creates, deletes or edits files in the target directory.            *)
(*                                                                         *)
(* Target files.  A temporary file is named after its attempt, so the file *)
(* written by attempt a of a task is inode a of that task; `dir` says      *)
(* which names exist and `data` what an inode holds.  A power loss keeps   *)
(* only what was synced: `disk` is the set of directory contents the disk  *)
(* may come back with (FsyncDirectory leaves only the current one), and    *)
(* bytes not yet covered by fdatasync come back incomplete.                *)
(***************************************************************************)
EXTENDS TaskRuntime, Reconciler, FiniteSets

CONSTANTS
    NestedTarget,       \* tasks whose target path has more than one component
    InitialRoot,        \* what the target root may be at the start
    MaxFaults,          \* bound on kills, power losses, failed calls and user edits
    MaxMigrateEpoch     \* bound: migrate starts workers only below this epoch

ASSUME NestedAssumption == NestedTarget \subseteq Task
ASSUME RootAssumption == InitialRoot \subseteq {"missing", "durable"}
ASSUME FaultAssumption == MaxFaults \in Nat /\ MaxMigrateEpoch \in Nat

NoFile == 0
Foreign == MaxAttempts + 1      \* a file of the user's with other bytes
Twin == MaxAttempts + 2         \* a file of the user's with the bytes of the source
Inode == NoFile .. Twin

DirState == [temp : SUBSET Attempt, final : Inode]
DataState == {"partial", "cached", "synced", "altered"}
NoTask == 0

WorkerStep == {"idle", "claimed", "opened", "rooted", "intent", "created", "reading",
               "copied", "flushed", "written", "verified", "failing"}
RecoveryStep == {"idle", "source", "temp", "final", "decide", "confirmFinal",
                 "confirmTemp", "unlink", "recheck", "flush", "rename", "fsync", "succeed"}

VARIABLES
    proc,       \* the command that holds the plan lock
    held,       \* the execution epoch that command acquired, 0 before
    producer,   \* the claiming loop of migrate
    failed,     \* first_error of the running command is set
    pc,         \* per task: how far the worker executing it is
    todo,       \* resume: RUNNING tasks still to be handled
    current,    \* resume: the task being handled
    rpc,        \* resume: how far it is with that task
    obs,        \* resume: what it observed, and what it decided
    source,     \* per task: the source file against the identity in the plan
    root,       \* the target root directory
    dir,        \* per task: names in the target directory
    data,       \* per task: contents of the files the attempts wrote
    disk,       \* per task: directory contents a power loss may leave
    how,        \* reason recorded with the task's RECOVER_SUCCEEDED event
    tampered,   \* the user changed a target file of the task
    powerLost,  \* a power loss has happened
    rootLost,   \* a power loss has taken the target root with everything in it
    faults      \* faults so far

command == <<proc, held, producer, failed>>
recovery == <<todo, current, rpc, obs>>
files == <<root, dir, data, disk>>
ghosts == <<how, tampered, powerLost, rootLost, faults>>
allVars == <<vars, command, pc, recovery, source, files, ghosts>>

NoObs == [source |-> "none", temp |-> "none", final |-> "none", decision |-> "none"]

CPInit ==
    /\ Init
    /\ proc = "none" /\ held = 0 /\ producer = "done" /\ failed = FALSE
    /\ pc = [t \in Task |-> "idle"]
    /\ todo = {} /\ current = NoTask /\ rpc = "idle" /\ obs = NoObs
    /\ source = [t \in Task |-> "intact"]
    /\ root \in InitialRoot
    /\ dir = [t \in Task |-> [temp |-> {}, final |-> NoFile]]
    /\ data = [t \in Task |-> [a \in Attempt |-> "partial"]]
    /\ disk = [t \in Task |-> {[temp |-> {}, final |-> NoFile]}]
    /\ how = [t \in Task |-> "none"]
    /\ tampered = [t \in Task |-> FALSE]
    /\ powerLost = FALSE /\ rootLost = FALSE /\ faults = 0

----------------------------------------------------------------------------
(* The target directory, as LinuxFileOps uses it.                          *)

\* A directory change is visible at once and may or may not survive a power loss.
ChangeDir(t, d) ==
    /\ dir' = [dir EXCEPT ![t] = d]
    /\ disk' = [disk EXCEPT ![t] = @ \cup {d}]

\* FsyncDirectory of the target root: every task's names in it are on disk.
FsyncDirectory == disk' = [t \in Task |-> {dir[t]}]

Holds(t, i) ==  \* the bytes of file i of task t are those of the planned source
    \/ i = Twin
    \/ i \in Attempt /\ data[t][i] \in {"cached", "synced"}

ObserveFinal(t) ==
    IF dir[t].final = NoFile THEN "absent"
    ELSE IF Holds(t, dir[t].final) THEN "match" ELSE "mismatch"

ObserveTemp(t, a) ==
    IF a \notin dir[t].temp THEN "absent"
    ELSE IF Holds(t, a) THEN "match" ELSE "mismatch"

----------------------------------------------------------------------------
(* migrate.                                                                *)

Goto(t, step) == pc' = [pc EXCEPT ![t] = step]
WorkerOnly == UNCHANGED <<vars, command, recovery, source, files, ghosts>>

\* The refusal is missing.
UncheckedMigrateBegin ==
    /\ proc = "none"
    /\ \/ MaterializePlan
       \/ UNCHANGED vars /\ \A t \in Task : state[t] # "Absent"
    /\ proc' = "migrate" /\ held' = 0 /\ producer' = "starting" /\ failed' = FALSE
    /\ UNCHANGED <<pc, recovery, source, files, ghosts>>

\* Lock, MaterializePlan, and the refusal to run while a task is RUNNING.
MigrateBegin ==
    /\ proc = "none"
    /\ \A t \in Task : state[t] # "Running"
    /\ \/ MaterializePlan
       \/ UNCHANGED vars /\ \A t \in Task : state[t] # "Absent"
    /\ proc' = "migrate" /\ held' = 0 /\ producer' = "starting" /\ failed' = FALSE
    /\ UNCHANGED <<pc, recovery, source, files, ghosts>>

MigrateSetReady(t) ==
    /\ proc = "migrate" /\ producer = "starting"
    /\ state[t] = "Retryable"
    /\ SetReady(t)
    /\ UNCHANGED <<command, pc, recovery, source, files, ghosts>>

MigrateAcquire ==
    /\ proc = "migrate" /\ producer = "starting"
    /\ epoch < MaxMigrateEpoch
    /\ \A t \in Task : state[t] # "Retryable"
    /\ \E t \in Task : state[t] = "Ready"
    /\ AcquireNextExecutionEpoch
    /\ held' = epoch + 1 /\ producer' = "checking"
    /\ UNCHANGED <<proc, failed, pc, recovery, source, files, ghosts>>

\* "no READY task remains in the materialized plan", or the model's epoch bound.
MigrateNothingToDo ==
    /\ proc = "migrate" /\ producer = "starting"
    /\ \A t \in Task : state[t] # "Retryable"
    /\ (epoch >= MaxMigrateEpoch) \/ (\A t \in Task : state[t] # "Ready")
    /\ producer' = "done"
    /\ UNCHANGED <<vars, proc, held, failed, pc, recovery, source, files, ghosts>>

ProducerCheck ==
    /\ proc = "migrate" /\ producer = "checking"
    /\ producer' = IF failed THEN "done" ELSE "claiming"
    /\ UNCHANGED <<vars, proc, held, failed, pc, recovery, source, files, ghosts>>

ProducerClaim(t) ==
    /\ proc = "migrate" /\ producer = "claiming"
    /\ ClaimNextReady(held, t)
    /\ Goto(t, "claimed")
    /\ producer' = "checking"
    /\ UNCHANGED <<proc, held, failed, recovery, source, files, ghosts>>

ProducerDone ==     \* nothing to claim, or the first claimable task has no attempt id left
    /\ proc = "migrate" /\ producer = "claiming"
    /\ \A t \in Task :
           Claimable(t) /\ (\A u \in Task : Claimable(u) => t <= u)
               => attempts[t] = MaxAttempts
    /\ producer' = "done"
    /\ UNCHANGED <<vars, proc, held, failed, pc, recovery, source, files, ghosts>>

MigrateExit ==
    /\ proc = "migrate" /\ producer = "done"
    /\ \A t \in Task : pc[t] = "idle"
    /\ proc' = "none"
    /\ UNCHANGED <<vars, held, producer, failed, pc, recovery, source, files, ghosts>>

\* ExecuteClaimedTask opens the source under the MutationGuard ...
OpenSource(t) ==
    /\ pc[t] = "claimed"
    /\ Goto(t, IF source[t] = "intact" THEN "opened" ELSE "failing")
    /\ WorkerOnly

\* ... and the target root, creating it (mkdir, without syncing its parent).
OpenTargetRoot(t) ==
    /\ pc[t] = "opened"
    /\ root' = IF root = "missing" THEN "volatile" ELSE root
    /\ Goto(t, "rooted")
    /\ UNCHANGED <<vars, command, recovery, source, dir, data, disk, ghosts>>

\* Prepare refuses nested targets, then records the intent.
RefuseNested(t) ==
    /\ pc[t] = "rooted" /\ t \in NestedTarget
    /\ Goto(t, "failing")
    /\ WorkerOnly

RecordIntent(t) ==
    /\ pc[t] = "rooted" /\ t \notin NestedTarget
    /\ MarkCommitIntent(t, held, active[t])
    /\ Goto(t, "intent")
    /\ UNCHANGED <<command, recovery, source, files, ghosts>>

CreateTemp(t) ==    \* O_CREAT | O_EXCL
    /\ pc[t] = "intent"
    /\ IF active[t] \in dir[t].temp
       THEN Goto(t, "failing") /\ UNCHANGED <<dir, disk, data>>
       ELSE /\ Goto(t, "created")
            /\ ChangeDir(t, [dir[t] EXCEPT !.temp = @ \cup {active[t]}])
            /\ data' = [data EXCEPT ![t][active[t]] = "partial"]
    /\ UNCHANGED <<vars, command, recovery, source, root, ghosts>>

BeginCopy(t) ==     \* VerifyBeforeRead
    /\ pc[t] = "created"
    /\ Goto(t, IF source[t] = "intact" THEN "reading" ELSE "failing")
    /\ WorkerOnly

EndCopy(t) ==       \* the last write, then VerifyAfterRead
    /\ pc[t] = "reading"
    /\ IF source[t] = "intact"
       THEN Goto(t, "copied") /\ data' = [data EXCEPT ![t][active[t]] = "cached"]
       ELSE Goto(t, "failing") /\ UNCHANGED data
    /\ UNCHANGED <<vars, command, recovery, source, root, dir, disk, ghosts>>

FlushTemp(t) ==     \* fdatasync of the temporary file
    /\ pc[t] = "copied"
    /\ Goto(t, "flushed")
    /\ data' = [data EXCEPT ![t][active[t]] = IF @ = "cached" THEN "synced" ELSE @]
    /\ UNCHANGED <<vars, command, recovery, source, root, dir, disk, ghosts>>

RecordTempWritten(t) ==
    /\ pc[t] = "flushed"
    /\ MarkTempWritten(t, held, active[t])
    /\ Goto(t, "written")
    /\ UNCHANGED <<command, recovery, source, files, ghosts>>

VerifyTemp(t) ==    \* independent read-back by name
    /\ pc[t] = "written"
    /\ Goto(t, IF ObserveTemp(t, active[t]) = "match" THEN "verified" ELSE "failing")
    /\ WorkerOnly

StoreReceipt(t) ==  \* the task stays RUNNING: resume publishes it
    /\ pc[t] = "verified"
    /\ \E v \in Evidence : PersistVerifiedReceipt(t, held, active[t], v)
    /\ Goto(t, "idle")
    /\ UNCHANGED <<command, recovery, source, files, ghosts>>

\* The failed task is queued again at once.
RequeueTask(t) ==
    /\ pc[t] = "failing"
    /\ state' = [state EXCEPT ![t] = "Ready"]
    /\ owner' = [owner EXCEPT ![t] = 0]
    /\ active' = [active EXCEPT ![t] = 0]
    /\ fileState' = [fileState EXCEPT ![t][active[t]] = "Retryable"]
    /\ Goto(t, "idle")
    /\ UNCHANGED <<epoch, attempts, attemptEpoch, receipt, deps>>
    /\ UNCHANGED <<command, recovery, source, files, ghosts>>

FailTask(t) ==      \* retry(): MarkRetryable, and the pool's first_error
    /\ pc[t] = "failing"
    /\ MarkRetryable(t, held, active[t])
    /\ Goto(t, "idle")
    /\ failed' = TRUE
    /\ UNCHANGED <<proc, held, producer, recovery, source, files, ghosts>>

Worker(t) ==
    \/ OpenSource(t) \/ OpenTargetRoot(t) \/ RefuseNested(t) \/ RecordIntent(t)
    \/ CreateTemp(t) \/ BeginCopy(t) \/ EndCopy(t) \/ FlushTemp(t)
    \/ RecordTempWritten(t) \/ VerifyTemp(t) \/ StoreReceipt(t) \/ FailTask(t)

Migrate ==
    \/ MigrateAcquire \/ MigrateNothingToDo
    \/ ProducerCheck \/ ProducerDone \/ MigrateExit
    \/ \E t \in Task : MigrateSetReady(t) \/ ProducerClaim(t) \/ Worker(t)

----------------------------------------------------------------------------
(* resume.                                                                 *)

RStep(step) == rpc' = step /\ UNCHANGED <<todo, current>>

\* The task is finished, with a state change or with an error.
NextTask(error) ==
    /\ todo' = todo \ {current} /\ current' = NoTask /\ rpc' = "idle" /\ obs' = NoObs
    /\ failed' = (failed \/ error)
    /\ UNCHANGED <<proc, held, producer>>

ResumeBegin ==      \* lock, list the RUNNING tasks, acquire a recovery epoch
    /\ proc = "none"
    /\ \E t \in Task : state[t] = "Running"
    /\ AcquireNextExecutionEpoch
    /\ proc' = "resume" /\ held' = epoch + 1 /\ producer' = "done" /\ failed' = FALSE
    /\ todo' = {t \in Task : state[t] = "Running"}
    /\ UNCHANGED <<current, rpc, obs, pc, source, files, ghosts>>

\* Only a verified attempt is worth recovering.
StrictResumeTask(t) ==
    /\ proc = "resume" /\ current = NoTask /\ t \in todo
    /\ IF t \in NestedTarget \/ root = "missing" \/ receipt[t][active[t]] = NoReceipt
       THEN todo' = todo \ {t} /\ failed' = TRUE /\ UNCHANGED <<current, rpc>>
       ELSE todo' = todo /\ current' = t /\ rpc' = "source" /\ UNCHANGED failed
    /\ UNCHANGED <<vars, proc, held, producer, obs, pc, source, files, ghosts>>

\* recover_one up to opening the target root.  A nested target or a missing target
\* root is an error that leaves the task RUNNING.  The comparison of a stored receipt
\* with the plan cannot fail here: StoreReceipt wrote it from the same plan.
ResumeTask(t) ==
    /\ proc = "resume" /\ current = NoTask /\ t \in todo
    /\ IF t \in NestedTarget \/ root = "missing"
       THEN todo' = todo \ {t} /\ failed' = TRUE /\ UNCHANGED <<current, rpc>>
       ELSE todo' = todo /\ current' = t /\ rpc' = "source" /\ UNCHANGED failed
    /\ UNCHANGED <<vars, proc, held, producer, obs, pc, source, files, ghosts>>

ResumeObserve ==
    /\ \/ /\ rpc = "source" /\ RStep("temp")
          /\ obs' = [obs EXCEPT !.source =
                        CASE source[current] = "intact" -> "available"
                          [] source[current] = "changed" -> "changed"
                          [] source[current] = "gone" -> "unavailable"]
       \/ /\ rpc = "temp" /\ RStep("final")
          /\ obs' = [obs EXCEPT !.temp = ObserveTemp(current, active[current])]
       \/ /\ rpc = "final" /\ RStep("decide")
          /\ obs' = [obs EXCEPT !.final = ObserveFinal(current)]
    /\ UNCHANGED <<vars, command, pc, source, files, ghosts>>

HasReceipt(t) == receipt[t][active[t]] # NoReceipt

\* Decide, and the branches of the switch that end in a state change at once.
ResumeDecide ==
    /\ rpc = "decide"
    /\ LET t == current
           decision == Decide(state[t], HasReceipt(t), obs.source, obs.temp, obs.final)
           proceed(step) == /\ RStep(step)
                            /\ obs' = [obs EXCEPT !.decision = decision]
                            /\ UNCHANGED <<vars, command>>
       IN  \/ /\ decision = "RetryTask"
              /\ RecoverRetryable(t, held, owner[t], active[t])
              /\ NextTask(TRUE)
           \/ /\ decision \in {"TargetConflict", "Inconsistent"}
              /\ RecoverInconsistent(t, held, owner[t], active[t])
              /\ NextTask(TRUE)
           \/ /\ decision \in {"AdoptFinal", "AdoptFinalAndCleanupTemp"}
              /\ proceed("confirmFinal")
           \/ /\ decision = "ResumeCommitFromTemp"
              /\ proceed("recheck")
    /\ UNCHANGED <<pc, source, files, ghosts>>

GiveUp ==   \* "... changed before ..." : RecoverRetryable
    /\ RecoverRetryable(current, held, owner[current], active[current])
    /\ NextTask(TRUE)
    /\ UNCHANGED <<pc, source, files, ghosts>>

ConfirmFinal ==
    /\ rpc = "confirmFinal"
    /\ \/ /\ ObserveFinal(current) = "match"
          /\ RStep(IF obs.decision = "AdoptFinal" THEN "succeed" ELSE "confirmTemp")
          /\ UNCHANGED <<vars, command, obs, pc, source, files, ghosts>>
       \/ ObserveFinal(current) # "match" /\ GiveUp

ConfirmTemp ==
    /\ rpc = "confirmTemp"
    /\ \/ /\ ObserveTemp(current, active[current]) = "match"
          /\ RStep("unlink")
          /\ UNCHANGED <<vars, command, obs, pc, source, files, ghosts>>
       \/ ObserveTemp(current, active[current]) # "match" /\ GiveUp

UnlinkTemp ==
    /\ rpc = "unlink"
    /\ IF active[current] \in dir[current].temp
       THEN /\ ChangeDir(current, [dir[current] EXCEPT !.temp = @ \ {active[current]}])
            /\ RStep("fsync")
            /\ UNCHANGED <<obs, command>>
       ELSE NextTask(TRUE) /\ UNCHANGED <<dir, disk>>
    /\ UNCHANGED <<vars, pc, source, root, data, ghosts>>

\* Reopen and re-verify the temporary file; if its name is gone, stop with an error.
RecheckTemp ==
    /\ rpc = "recheck"
    /\ LET seen == ObserveTemp(current, active[current]) IN
       \/ /\ seen = "match" /\ RStep("flush")
          /\ UNCHANGED <<vars, command, obs, pc, source, files, ghosts>>
       \/ seen = "mismatch" /\ GiveUp
       \/ /\ seen = "absent" /\ NextTask(TRUE)
          /\ UNCHANGED <<vars, pc, source, files, ghosts>>

ReflushTemp ==
    /\ rpc = "flush"
    /\ data' = [data EXCEPT ![current][active[current]] =
                   IF @ = "cached" THEN "synced" ELSE @]
    /\ RStep("rename")
    /\ UNCHANGED <<vars, command, obs, pc, source, root, dir, disk, ghosts>>

ReplacingRename(t, a) == a \in dir[t].temp

\* renameat2(RENAME_NOREPLACE) succeeds if the old name exists and the new one does not.
CanRename(t, a) == a \in dir[t].temp /\ dir[t].final = NoFile

RenameNoReplace ==
    /\ rpc = "rename"
    /\ LET a == active[current] IN
       IF CanRename(current, a)
       THEN /\ ChangeDir(current, [temp |-> dir[current].temp \ {a}, final |-> a])
            /\ RStep("fsync")
            /\ UNCHANGED <<obs, command>>
       ELSE NextTask(TRUE) /\ UNCHANGED <<dir, disk>>
    /\ UNCHANGED <<vars, pc, source, root, data, ghosts>>

SkipSyncTarget ==
    /\ rpc = "fsync"
    /\ RStep("succeed")
    /\ UNCHANGED <<vars, command, obs, pc, source, files, ghosts>>

SyncTarget ==
    /\ rpc = "fsync"
    /\ FsyncDirectory
    /\ RStep("succeed")
    /\ UNCHANGED <<vars, command, obs, pc, source, root, dir, data, ghosts>>

Publish ==
    /\ rpc = "succeed"
    /\ RecoverSucceeded(current, held, owner[current], active[current])
    /\ how' = [how EXCEPT ![current] = obs.decision]
    /\ NextTask(FALSE)
    /\ UNCHANGED <<pc, source, files, tampered, powerLost, rootLost, faults>>

ResumeExit ==
    /\ proc = "resume" /\ current = NoTask /\ todo = {}
    /\ proc' = "none"
    /\ UNCHANGED <<vars, held, producer, failed, recovery, pc, source, files, ghosts>>

Resume ==
    \/ ResumeObserve \/ ResumeDecide \/ ConfirmFinal \/ ConfirmTemp \/ UnlinkTemp
    \/ RecheckTemp \/ ReflushTemp \/ RenameNoReplace \/ SyncTarget \/ Publish
    \/ ResumeExit
    \/ \E t \in Task : ResumeTask(t)

----------------------------------------------------------------------------
(* Faults and the user.                                                    *)

Fault == faults < MaxFaults /\ faults' = faults + 1

Died ==
    /\ proc' = "none" /\ producer' = "done" /\ failed' = FALSE /\ held' = 0
    /\ pc' = [t \in Task |-> "idle"]
    /\ todo' = {} /\ current' = NoTask /\ rpc' = "idle" /\ obs' = NoObs

Kill ==     \* SIGKILL: the kernel drops the lock, files and database stay
    /\ proc # "none" /\ Fault
    /\ Died
    /\ UNCHANGED <<vars, source, files, how, tampered, powerLost, rootLost>>

\* Committed transactions survive (WAL, synchronous = FULL); of the target directory
\* only what was synced is certain, and a root nobody synced may be gone.
PowerLoss ==
    /\ Fault
    /\ Died
    /\ powerLost' = TRUE
    /\ \/ /\ root = "volatile"
          /\ root' = "missing" /\ rootLost' = TRUE
          /\ dir' = [t \in Task |-> [temp |-> {}, final |-> NoFile]]
       \/ /\ root' = IF root = "volatile" THEN "durable" ELSE root
          /\ dir' \in [Task -> UNION {disk[t] : t \in Task}]
          /\ \A t \in Task : dir'[t] \in disk[t]
          /\ UNCHANGED rootLost
    /\ disk' = [t \in Task |-> {dir'[t]}]
    /\ data' = [t \in Task |-> [a \in Attempt |->
                    IF data[t][a] = "cached" THEN "partial" ELSE data[t][a]]]
    /\ UNCHANGED <<vars, source, how, tampered>>

\* A database call of migrate's own thread fails, before or between two claims.
MigrateIoError ==
    /\ proc = "migrate" /\ producer # "done" /\ Fault
    /\ producer' = "done"
    /\ UNCHANGED <<vars, proc, held, failed, pc, recovery, source, files>>
    /\ UNCHANGED <<how, tampered, powerLost, rootLost>>

\* A system call or a database call of the worker fails.  If it is MarkRetryable that
\* fails, the task is left RUNNING.
WorkerIoError(t) ==
    /\ pc[t] # "idle" /\ Fault
    /\ Goto(t, IF pc[t] = "failing" THEN "idle" ELSE "failing")
    /\ failed' = (failed \/ pc[t] = "failing")
    /\ UNCHANGED <<vars, proc, held, producer, recovery, source, files>>
    /\ UNCHANGED <<how, tampered, powerLost, rootLost>>

\* A call of the recovery fails: re-reading the final (or the temporary file before its
\* cleanup) counts as "changed" and gives up; everywhere else the error is returned and
\* the task stays RUNNING, also when its final has just been published.
ResumeIoError ==
    /\ rpc # "idle" /\ Fault
    /\ IF rpc \in {"confirmFinal", "confirmTemp"}
       THEN RecoverRetryable(current, held, owner[current], active[current])
       ELSE UNCHANGED vars
    /\ NextTask(TRUE)
    /\ UNCHANGED <<pc, source, files, how, tampered, powerLost, rootLost>>

SourceChanges(t) ==
    /\ source[t] = "intact" /\ Fault
    /\ \E s \in {"changed", "gone"} : source' = [source EXCEPT ![t] = s]
    /\ UNCHANGED <<vars, command, pc, recovery, files>>
    /\ UNCHANGED <<how, tampered, powerLost, rootLost>>

\* The user deletes a name, puts a file of theirs at the final name, or edits a file.
UserEdits(t) ==
    /\ root # "missing" /\ Fault
    /\ tampered' = [tampered EXCEPT ![t] = TRUE]
    /\ \/ /\ \/ \E a \in dir[t].temp :
                    ChangeDir(t, [dir[t] EXCEPT !.temp = @ \ {a}])
             \/ dir[t].final # NoFile /\ ChangeDir(t, [dir[t] EXCEPT !.final = NoFile])
             \/ /\ dir[t].final = NoFile
                /\ \E f \in {Foreign, Twin} : ChangeDir(t, [dir[t] EXCEPT !.final = f])
          /\ UNCHANGED data
       \/ /\ \E a \in dir[t].temp \cup ({dir[t].final} \cap Attempt) :
                data' = [data EXCEPT ![t][a] = "altered"]
          /\ UNCHANGED <<dir, disk>>
    /\ UNCHANGED <<vars, command, pc, recovery, source, root, how, powerLost, rootLost>>

Environment ==
    \/ Kill \/ PowerLoss \/ MigrateIoError \/ ResumeIoError
    \/ \E t \in Task : WorkerIoError(t) \/ SourceChanges(t) \/ UserEdits(t)

----------------------------------------------------------------------------
CPNext == MigrateBegin \/ Migrate \/ ResumeBegin \/ Resume \/ Environment

CPSpec == CPInit /\ [][CPNext]_allVars

\* A running command keeps running, and an operator told that `resume` is required
\* runs it.  Nothing is assumed about faults, edits or new runs of `migrate`.
CPFairSpec == CPSpec /\ WF_allVars(Migrate \/ ResumeBegin \/ Resume)

----------------------------------------------------------------------------
(* Properties.                                                             *)

\* Every variable of the protocol stays in its range.
CPTypeOK ==
    /\ TypeOK
    /\ proc \in {"none", "migrate", "resume"}
    /\ held \in Epoch
    /\ producer \in {"starting", "checking", "claiming", "done"}
    /\ failed \in BOOLEAN
    /\ pc \in [Task -> WorkerStep]
    /\ todo \subseteq Task
    /\ current \in Task \cup {NoTask}
    /\ rpc \in RecoveryStep
    /\ source \in [Task -> {"intact", "changed", "gone"}]
    /\ root \in {"missing", "volatile", "durable"}
    /\ dir \in [Task -> DirState]
    /\ data \in [Task -> [Attempt -> DataState]]
    /\ disk \in [Task -> SUBSET DirState]
    /\ how \in [Task -> ReconcileAction \cup {"none"}]
    /\ tampered \in [Task -> BOOLEAN] /\ powerLost \in BOOLEAN /\ rootLost \in BOOLEAN
    /\ faults \in 0 .. MaxFaults

\* Whatever the commands do to the task tables is what TaskRuntime allows: the safety
\* properties of the repository hold of the program that uses it.
UsesRuntimeCorrectly == Spec

\* A SUCCEEDED task was published from evidence: its last attempt has a receipt and
\* the recovery that finished it went through one of the publishing decisions.
SucceededWasVerified ==
    \A t \in Task : state[t] = "Succeeded" =>
        /\ receipt[t][attempts[t]] # NoReceipt
        /\ how[t] \in {"ResumeCommitFromTemp", "AdoptFinal", "AdoptFinalAndCleanupTemp"}

\* Kills, failed calls and retries in any order never leave a SUCCEEDED task whose final
\* file is missing or has other bytes than the planned source.
SucceededMatchesSource ==
    \A t \in Task : state[t] = "Succeeded" /\ ~tampered[t] /\ ~powerLost =>
        ObserveFinal(t) = "match"

\* SUCCEEDED is the truth: there is evidence for it and the final file has the bytes.
SucceededIsRight == SucceededWasVerified /\ SucceededMatchesSource

\* A SUCCEEDED task that the finishing run renamed or cleaned up survives any power loss
\* that does not take the target root itself (its parent is never synced): fdatasync
\* before the rename and FsyncDirectory before RecoverSucceeded leave no other directory
\* content possible.
PublishedIsDurable ==
    \A t \in Task :
        /\ state[t] = "Succeeded" /\ ~tampered[t] /\ ~rootLost
        /\ how[t] \in {"ResumeCommitFromTemp", "AdoptFinalAndCleanupTemp"}
        => \A d \in disk[t] : d.final \in Attempt /\ data[t][d.final] = "synced"

\* While a verified attempt is RUNNING its bytes are under the temporary or the final
\* name, whatever fails in between: recovery never destroys the only copy it could use.
EvidenceKept ==
    \A t \in Task :
        state[t] = "Running" /\ HasReceipt(t) /\ ~tampered[t] /\ ~powerLost =>
            "match" \in {ObserveTemp(t, active[t]), ObserveFinal(t)}

\* Verified bytes are never lost, before they are published or after.
VerifiedBytesSurvive == PublishedIsDurable /\ EvidenceKept

\* The program never replaces or removes a file at a final name, not even one that
\* appears between the decision to publish and the rename.
ExistingFinalKept ==
    [][\A t \in Task :
        dir[t].final # NoFile /\ tampered' = tampered /\ faults' = faults
            => dir'[t].final = dir[t].final]_allVars

\* migrate never works beside an orphan: every RUNNING task was claimed under the epoch
\* this run acquired, and a worker has it or it already waits verified for resume (or
\* its MarkRetryable failed, which first_error remembers).
MigrateOwnsRunning ==
    proc = "migrate" =>
        \A t \in Task : state[t] = "Running" =>
            /\ owner[t] = held
            /\ pc[t] # "idle" \/ HasReceipt(t) \/ failed

\* Every task that is RUNNING leaves that state once faults cease and resume is run,
\* whatever happens to the tasks beside it.  Faults do not last here: a source root that
\* can never be opened again, a guard that always fails or a directory at the final name
\* would make every resume return an error and leave the task RUNNING.  (So does a target
\* in a directory that is not there, see ResumeHandlesEveryRunning.)
RunningIsResolved ==
    \A t \in Task \ NestedTarget : state[t] = "Running" ~> state[t] # "Running"

\* SUCCEEDED comes only after the final's directory entry has been synced, on every
\* path: rename, fsync of the directory, SUCCEEDED.
SucceededIsDurable ==
    \A t \in Task :
        state[t] = "Succeeded" /\ ~tampered[t] /\ root = "durable" =>
            \A d \in disk[t] : d.final # NoFile

\* When resume is done with a task it found RUNNING, no call has failed and nobody has
\* touched its files, the task is no longer RUNNING.
ResumeHandlesEveryRunning ==
    [][\A t \in Task :
        t \in todo /\ t \notin todo' /\ faults' = faults /\ ~tampered[t]
            => state'[t] # "Running"]_allVars
=============================================================================
