---------------------------- MODULE TaskRuntime ----------------------------
(***************************************************************************)
(* The task tables of one materialized plan and the operations of          *)
(* TaskRuntimeRepository on them (src/app/task_runtime_repository.cpp).    *)
(* Every operation is one SQLite transaction (BEGIN IMMEDIATE ... COMMIT,  *)
(* or a single statement), so it is one action; an operation that returns  *)
(* an error has rolled back and is a stuttering step.  AddDependency is    *)
(* two statements without a transaction: one action here, because no two   *)
(* connections build the graph of a plan at the same time.                 *)
(*                                                                         *)
(* The callers are not part of this module: an operation may be called     *)
(* with every execution epoch that was ever handed out and with every      *)
(* attempt id that was ever created, so the behaviours contain all the     *)
(* late, repeated and reordered calls of executors that have been          *)
(* superseded.  Module CommitProtocol composes these actions with the      *)
(* callers the program really has.                                         *)
(*                                                                         *)
(* Left out: the append-only task_event log and the error texts (nothing   *)
(* reads them back), timestamps, and the overload of ClaimNextReady that   *)
(* takes the attempt id from its caller (only tests call it).              *)
(***************************************************************************)
EXTENDS Naturals

CONSTANTS
    Task,         \* task ids of the plan; a smaller number is an id that sorts first
    Evidence,     \* contents a verified receipt can carry (digests, sizes, identities)
    NoReceipt,    \* no row in verified_receipt
    MaxEpoch,     \* largest value of migration.current_epoch (int64 in the code)
    MaxAttempts   \* largest value of plan_task.attempt_count (uint32 in the code)

ASSUME TaskAssumption == Task \subseteq Nat \ {0}
ASSUME BoundsAssumption == MaxEpoch \in Nat \ {0} /\ MaxAttempts \in Nat \ {0}

Epoch == 0 .. MaxEpoch          \* 0 is NULL in plan_task.owner_epoch
Attempt == 1 .. MaxAttempts     \* the n-th attempt id of a task
Receipt == [epoch : 1 .. MaxEpoch, content : Evidence]

ASSUME NoReceiptAssumption == NoReceipt \notin Receipt

TaskState == {"Absent", "Planned", "Ready", "Running", "Succeeded", "Retryable",
              "Inconsistent"}
FileAttemptState == {"None", "Running", "CommitIntent", "TempWritten",
                     "VerifiedDurable", "Committed", "Retryable", "Inconsistent"}

VARIABLES
    epoch,          \* migration.current_epoch
    state,          \* plan_task.state, "Absent" before AddTask
    owner,          \* plan_task.owner_epoch, 0 for NULL
    active,         \* plan_task.active_attempt_id (the ordinal), 0 for NULL
    attempts,       \* plan_task.attempt_count
    fileState,      \* task_attempt.file_state, "None" when there is no row
    attemptEpoch,   \* task_attempt.owner_epoch
    receipt,        \* verified_receipt rows
    deps            \* task_dependency: <<task, depends_on>>

taskRow == <<state, owner, active, attempts>>
attemptRow == <<fileState, attemptEpoch>>
vars == <<epoch, state, owner, active, attempts, fileState, attemptEpoch, receipt, deps>>

Init ==
    /\ epoch = 0
    /\ state = [t \in Task |-> "Absent"]
    /\ owner = [t \in Task |-> 0]
    /\ active = [t \in Task |-> 0]
    /\ attempts = [t \in Task |-> 0]
    /\ fileState = [t \in Task |-> [a \in Attempt |-> "None"]]
    /\ attemptEpoch = [t \in Task |-> [a \in Attempt |-> 0]]
    /\ receipt = [t \in Task |-> [a \in Attempt |-> NoReceipt]]
    /\ deps = {}

----------------------------------------------------------------------------
(* Guards and updates shared by the operations.                            *)

\* The lifecycle of an attempt, restricted to the states some operation writes.
ValidAttemptTransition(from, to) ==
    \/ from = "Running" /\ to = "CommitIntent"
    \/ from = "CommitIntent" /\ to = "TempWritten"
    \/ from = "TempWritten" /\ to = "VerifiedDurable"
    \/ from = "VerifiedDurable" /\ to = "Committed"
    \/ from \in {"Running", "CommitIntent", "TempWritten", "VerifiedDurable"}
       /\ to \in {"Retryable", "Inconsistent"}

\* The caller's claim on the task row is the one the row records.
Owns(t, e, a) == state[t] = "Running" /\ owner[t] = e /\ active[t] = a

\* The attempt row exists and was created under epoch e.
HasAttempt(t, a, e) == fileState[t][a] # "None" /\ attemptEpoch[t][a] = e

DepsSucceeded(t) == \A d \in Task : <<t, d>> \in deps => state[d] = "Succeeded"

DependencyClosed(S) == \A x, y \in Task : x \in S /\ <<x, y>> \in deps => y \in S

\* Only the direct dependency is compared.
CycleBlindAncestors(d) == {d}

\* The rows the recursive query collects: d and everything d depends on.
Ancestors(d) ==
    {x \in Task : \A S \in SUBSET Task : d \in S /\ DependencyClosed(S) => x \in S}

----------------------------------------------------------------------------
(* Mutated forms used to show that the properties can fail.                *)

UnboundedAcquire ==
    /\ epoch' = epoch + 1
    /\ UNCHANGED <<taskRow, attemptRow, receipt, deps>>

UnfencedClaimNextReady(e, t) ==
    /\ e > 0
    /\ state[t] = "Ready"
    /\ attempts[t] < MaxAttempts
    /\ LET a == attempts[t] + 1 IN
       /\ state' = [state EXCEPT ![t] = "Running"]
       /\ owner' = [owner EXCEPT ![t] = e]
       /\ active' = [active EXCEPT ![t] = a]
       /\ attempts' = [attempts EXCEPT ![t] = a]
       /\ fileState' = [fileState EXCEPT ![t][a] = "Running"]
       /\ attemptEpoch' = [attemptEpoch EXCEPT ![t][a] = e]
    /\ UNCHANGED <<epoch, receipt, deps>>

UnfencedAdvanceAttempt(t, e, a, next) ==
    /\ Owns(t, e, a)
    /\ HasAttempt(t, a, e)
    /\ ValidAttemptTransition(fileState[t][a], next)
    /\ fileState' = [fileState EXCEPT ![t][a] = next]
    /\ UNCHANGED <<epoch, taskRow, attemptEpoch, receipt, deps>>

UncheckedAdvanceAttempt(t, e, a, next) ==
    /\ epoch = e
    /\ Owns(t, e, a)
    /\ HasAttempt(t, a, e)
    /\ fileState' = [fileState EXCEPT ![t][a] = next]
    /\ UNCHANGED <<epoch, taskRow, attemptEpoch, receipt, deps>>

FinishKeepsOwner(t, e, a, next, attemptNext) ==
    /\ epoch = e
    /\ Owns(t, e, a)
    /\ HasAttempt(t, a, e)
    /\ state' = [state EXCEPT ![t] = next]
    /\ fileState' = [fileState EXCEPT ![t][a] = attemptNext]
    /\ UNCHANGED <<epoch, owner, active, attempts, attemptEpoch, receipt, deps>>

OverwritingReceipt(t, e, a, v) ==
    /\ epoch = e
    /\ Owns(t, e, a)
    /\ HasAttempt(t, a, e)
    /\ receipt' = [receipt EXCEPT ![t][a] = [epoch |-> e, content |-> v]]
    /\ fileState' = [fileState EXCEPT ![t][a] = "VerifiedDurable"]
    /\ UNCHANGED <<epoch, taskRow, attemptEpoch, deps>>

----------------------------------------------------------------------------
(* The operations.                                                         *)

\* MaterializePlan: every task of the frozen plan is inserted and set READY in one
\* transaction; a plan that is already materialized is left as it is.
MaterializePlan ==
    /\ \A t \in Task : state[t] = "Absent"
    /\ state' = [t \in Task |-> "Ready"]
    /\ UNCHANGED <<epoch, owner, active, attempts, attemptRow, receipt, deps>>

AddTask(t) ==
    /\ state[t] = "Absent"
    /\ state' = [state EXCEPT ![t] = "Planned"]
    /\ UNCHANGED <<epoch, owner, active, attempts, attemptRow, receipt, deps>>

AddDependency(t, d) ==
    /\ t # d
    /\ t \notin Ancestors(d)
    /\ state[t] # "Absent" /\ state[d] # "Absent"
    /\ <<t, d>> \notin deps
    /\ deps' = deps \cup {<<t, d>>}
    /\ UNCHANGED <<epoch, taskRow, attemptRow, receipt>>

SetReady(t) ==
    /\ state[t] \in {"Planned", "Retryable"}
    /\ DepsSucceeded(t)
    /\ state' = [state EXCEPT ![t] = "Ready"]
    /\ owner' = [owner EXCEPT ![t] = 0]
    /\ active' = [active EXCEPT ![t] = 0]
    /\ UNCHANGED <<epoch, attempts, attemptRow, receipt, deps>>

AcquireNextExecutionEpoch ==
    /\ epoch < MaxEpoch
    /\ epoch' = epoch + 1
    /\ UNCHANGED <<taskRow, attemptRow, receipt, deps>>

Claimable(t) == state[t] = "Ready" /\ DepsSucceeded(t)

\* SELECT ... ORDER BY task_id LIMIT 1: the first claimable task or none.  When
\* that task has used up its attempt ids the claim fails; no other is tried.
ClaimNextReady(e, t) ==
    /\ e > 0 /\ epoch = e
    /\ Claimable(t)
    /\ \A u \in Task : Claimable(u) => t <= u
    /\ attempts[t] < MaxAttempts
    /\ active[t] = 0
    /\ LET a == attempts[t] + 1 IN
       /\ state' = [state EXCEPT ![t] = "Running"]
       /\ owner' = [owner EXCEPT ![t] = e]
       /\ active' = [active EXCEPT ![t] = a]
       /\ attempts' = [attempts EXCEPT ![t] = a]
       /\ fileState' = [fileState EXCEPT ![t][a] = "Running"]
       /\ attemptEpoch' = [attemptEpoch EXCEPT ![t][a] = e]
    /\ UNCHANGED <<epoch, receipt, deps>>

AdvanceAttempt(t, e, a, next) ==
    /\ epoch = e
    /\ Owns(t, e, a)
    /\ HasAttempt(t, a, e)
    /\ ValidAttemptTransition(fileState[t][a], next)
    /\ fileState' = [fileState EXCEPT ![t][a] = next]
    /\ UNCHANGED <<epoch, taskRow, attemptEpoch, receipt, deps>>

MarkCommitIntent(t, e, a) == AdvanceAttempt(t, e, a, "CommitIntent")
MarkTempWritten(t, e, a) == AdvanceAttempt(t, e, a, "TempWritten")

\* INSERT ... ON CONFLICT DO NOTHING: a second, identical receipt is accepted and
\* changes nothing; a different one is refused.  The lifecycle of the attempt is
\* overwritten, not checked.
PersistVerifiedReceipt(t, e, a, v) ==
    /\ epoch = e
    /\ Owns(t, e, a)
    /\ HasAttempt(t, a, e)
    /\ receipt[t][a] = NoReceipt
    /\ receipt' = [receipt EXCEPT ![t][a] = [epoch |-> e, content |-> v]]
    /\ fileState' = [fileState EXCEPT ![t][a] = "VerifiedDurable"]
    /\ UNCHANGED <<epoch, taskRow, attemptEpoch, deps>>

FinishTask(t, e, a, next, attemptNext) ==
    /\ epoch = e
    /\ Owns(t, e, a)
    /\ HasAttempt(t, a, e)
    /\ state' = [state EXCEPT ![t] = next]
    /\ owner' = [owner EXCEPT ![t] = 0]
    /\ active' = [active EXCEPT ![t] = 0]
    /\ fileState' = [fileState EXCEPT ![t][a] = attemptNext]
    /\ UNCHANGED <<epoch, attempts, attemptEpoch, receipt, deps>>

MarkSucceeded(t, e, a) == FinishTask(t, e, a, "Succeeded", "Committed")
MarkRetryable(t, e, a) == FinishTask(t, e, a, "Retryable", "Retryable")

\* re is the recovery epoch, e the epoch of the owner that is being replaced.
RecoverTask(t, re, e, a, next, attemptNext) ==
    /\ epoch = re
    /\ Owns(t, e, a)
    /\ HasAttempt(t, a, e)
    /\ state' = [state EXCEPT ![t] = next]
    /\ owner' = [owner EXCEPT ![t] = 0]
    /\ active' = [active EXCEPT ![t] = 0]
    /\ fileState' = [fileState EXCEPT ![t][a] = attemptNext]
    /\ UNCHANGED <<epoch, attempts, attemptEpoch, receipt, deps>>

RecoverSucceeded(t, re, e, a) == RecoverTask(t, re, e, a, "Succeeded", "Committed")
RecoverRetryable(t, re, e, a) == RecoverTask(t, re, e, a, "Retryable", "Retryable")
RecoverInconsistent(t, re, e, a) ==
    RecoverTask(t, re, e, a, "Inconsistent", "Inconsistent")

----------------------------------------------------------------------------
IssuedEpoch == 1 .. epoch

\* What an executor holding epoch e may ask for attempt a of task t.
Executor(t, e, a) ==
    \/ MarkCommitIntent(t, e, a)
    \/ MarkTempWritten(t, e, a)
    \/ \E v \in Evidence : PersistVerifiedReceipt(t, e, a, v)
    \/ MarkSucceeded(t, e, a)
    \/ MarkRetryable(t, e, a)

\* What a recovery run holding epoch re may ask for the attempt it read as <<e, a>>.
Recovery(t, re, e, a) ==
    \/ RecoverSucceeded(t, re, e, a)
    \/ RecoverRetryable(t, re, e, a)
    \/ RecoverInconsistent(t, re, e, a)

Next ==
    \/ MaterializePlan
    \/ AcquireNextExecutionEpoch
    \/ \E t \in Task :
        \/ AddTask(t)
        \/ SetReady(t)
        \/ \E d \in Task : AddDependency(t, d)
        \/ \E e \in IssuedEpoch :
            \/ ClaimNextReady(e, t)
            \/ \E a \in Attempt :
                \/ Executor(t, e, a)
                \/ \E re \in IssuedEpoch : Recovery(t, re, e, a)

Spec == Init /\ [][Next]_vars

----------------------------------------------------------------------------
(* Properties.                                                             *)

LiveAttempt == {"Running", "CommitIntent", "TempWritten", "VerifiedDurable"}

\* Every column of the four tables stays in its range.
TypeOK ==
    /\ epoch \in Epoch
    /\ state \in [Task -> TaskState]
    /\ owner \in [Task -> Epoch]
    /\ active \in [Task -> 0 .. MaxAttempts]
    /\ attempts \in [Task -> 0 .. MaxAttempts]
    /\ fileState \in [Task -> [Attempt -> FileAttemptState]]
    /\ attemptEpoch \in [Task -> [Attempt -> Epoch]]
    /\ receipt \in [Task -> [Attempt -> Receipt \cup {NoReceipt}]]
    /\ deps \subseteq Task \X Task

\* A task is RUNNING exactly while its row names an owner and an attempt; that
\* attempt is the newest one and its own row carries the same epoch, which has been
\* handed out.  This is what makes the ownership columns usable as a claim ticket.
OwnershipConsistent ==
    \A t \in Task :
        /\ state[t] = "Running" <=> owner[t] # 0
        /\ state[t] = "Running" <=> active[t] # 0
        /\ state[t] = "Running" =>
            /\ owner[t] <= epoch
            /\ active[t] = attempts[t]
            /\ attemptEpoch[t][active[t]] = owner[t]

\* An attempt is unfinished exactly when it is the active attempt of a RUNNING task:
\* no sequence of finishes, recoveries and late calls leaves a second attempt open or
\* a RUNNING task whose attempt is already closed.
OneLiveAttempt ==
    \A t \in Task : \A a \in Attempt :
        fileState[t][a] \in LiveAttempt <=> state[t] = "Running" /\ active[t] = a

\* The task row and the row of its newest attempt report the same outcome, although
\* two different UPDATEs write them.
OutcomeAgrees ==
    \A t \in Task : \A a \in Attempt :
        attempts[t] = a =>
            /\ state[t] = "Succeeded" => fileState[t][a] = "Committed"
            /\ state[t] = "Retryable" => fileState[t][a] = "Retryable"
            /\ state[t] = "Inconsistent" => fileState[t][a] = "Inconsistent"

\* A receipt is stored exactly for attempts that reached VERIFIED_DURABLE, carries the
\* epoch of its attempt, and no later lifecycle call moves the attempt back to a state
\* from which it would be copied again.
ReceiptMatchesAttempt ==
    \A t \in Task : \A a \in Attempt :
        /\ receipt[t][a] # NoReceipt =>
            /\ receipt[t][a].epoch = attemptEpoch[t][a]
            /\ fileState[t][a] \in
                   {"VerifiedDurable", "Committed", "Retryable", "Inconsistent"}
        /\ fileState[t][a] = "VerifiedDurable" => receipt[t][a] # NoReceipt

\* Later attempts of a task never run under an older epoch than earlier ones.
AttemptEpochsOrdered ==
    \A t \in Task : \A a, b \in Attempt :
        a <= b /\ b <= attempts[t] =>
            /\ 1 <= attemptEpoch[t][a]
            /\ attemptEpoch[t][a] <= attemptEpoch[t][b]
            /\ attemptEpoch[t][b] <= epoch

\* The rows of a task's attempts tell one story with the task row: the attempt in progress,
\* the outcome, and the order of the executions.
AttemptHistory == OneLiveAttempt /\ OutcomeAgrees /\ AttemptEpochsOrdered

\* The dependency graph is well founded: every set of tasks has a member that depends
\* on no member, so AddDependency's ancestor query is enough to keep cycles out.
DependenciesAcyclic ==
    \A S \in SUBSET Task : S # {} => \E x \in S : \A y \in S : <<x, y>> \notin deps

\* Once a newer epoch has been handed out, nothing an older executor sends can advance
\* its attempt or store evidence for it; the only step left is the one that ends it.
SupersededAttemptFrozen ==
    [][\A t \in Task :
        state[t] = "Running" /\ owner[t] < epoch /\ state'[t] = "Running"
            => /\ fileState'[t] = fileState[t]
               /\ receipt'[t] = receipt[t]
               /\ owner'[t] = owner[t] /\ active'[t] = active[t]]_vars

\* Final outcomes and evidence are immutable: a SUCCEEDED or INCONSISTENT task is never
\* touched again, a closed attempt keeps its result and a stored receipt its content.
EvidenceImmutable ==
    [][\A t \in Task :
        /\ state[t] \in {"Succeeded", "Inconsistent"} => state'[t] = state[t]
        /\ \A a \in Attempt :
            /\ fileState[t][a] \in {"Committed", "Retryable", "Inconsistent"}
                   => fileState'[t][a] = fileState[t][a]
            /\ receipt[t][a] # NoReceipt => receipt'[t][a] = receipt[t][a]]_vars
=============================================================================
