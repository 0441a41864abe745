----------------------- MODULE CommitProtocol_proofs -----------------------
(***************************************************************************)
(* TLAPS proofs about module CommitProtocol, for every plan, every bound   *)
(* on epochs, attempts and faults and every set of nested targets: the     *)
(* commands use the task tables as module TaskRuntime allows, SUCCEEDED is *)
(* earned, and verified bytes survive kills, power losses and failing      *)
(* calls.                                                                  *)
(***************************************************************************)
EXTENDS CommitProtocol, TaskRuntime_proofs

\* Steps of resume after the decision to publish, and the decisions.
Publishing == {"confirmFinal", "confirmTemp", "unlink", "recheck", "flush", "rename",
               "fsync", "succeed"}
PublishingDecision == {"ResumeCommitFromTemp", "AdoptFinal", "AdoptFinalAndCleanupTemp"}

ObsOK ==
    obs \in [source : SourceObservation \cup {"none"}, temp : Observation \cup {"none"},
             final : Observation \cup {"none"}, decision : ReconcileAction \cup {"none"}]

\* Who is running: workers only in migrate, a current task only in resume.
OneCommand ==
    /\ proc # "migrate" => producer = "done" /\ \A t \in Task : pc[t] = "idle"
    /\ proc # "resume" => todo = {} /\ current = NoTask
    /\ rpc = "idle" <=> current = NoTask
    /\ current # NoTask => current \in todo

\* Workers and resume work on RUNNING tasks, workers on attempts without a receipt; no
\* task is RUNNING before migrate has its epoch.
OnRunning ==
    /\ \A t \in Task : pc[t] # "idle" => state[t] = "Running" /\ ~HasReceipt(t)
    /\ \A t \in todo : state[t] = "Running"
    /\ proc = "migrate" /\ producer = "starting" => \A t \in Task : state[t] # "Running"

\* What the disk may come back with contains what is there; under the final name it has
\* files of attempts that have been claimed, and never one that is still being copied.
NamesKnown ==
    \A t \in Task :
        /\ dir[t] \in disk[t]
        /\ \A d \in disk[t] : d.final \in Attempt => d.final <= attempts[t]
        /\ pc[t] # "idle" => \A d \in disk[t] : d.final # active[t]

\* Unless the user put it there, a final on disk or in sight is an attempt's file whose
\* bytes were synced before the rename.
FinalsSynced ==
    \A t \in Task : ~tampered[t] =>
        \A d \in disk[t] : d.final # NoFile => d.final \in Attempt /\ data[t][d.final] = "synced"

\* The temporary file of a worker.
WorkerHas ==
    \A t \in Task : ~tampered[t] =>
        /\ pc[t] \in {"created", "reading", "copied", "flushed", "written", "verified"} =>
               active[t] \in dir[t].temp
        /\ pc[t] = "copied" => data[t][active[t]] = "cached"
        /\ pc[t] \in {"flushed", "written", "verified"} => data[t][active[t]] = "synced"

\* What resume has made sure of on the way to SUCCEEDED.
RecoveryHas ==
    rpc \in Publishing =>
        /\ HasReceipt(current) /\ obs.decision \in PublishingDecision
        /\ ~tampered[current] =>
            /\ rpc = "flush" => data[current][active[current]] \in {"cached", "synced"}
            /\ rpc = "rename" => data[current][active[current]] = "synced"
            /\ rpc \in {"confirmTemp", "unlink", "fsync", "succeed"} =>
                   dir[current].final # NoFile
            /\ rpc = "succeed" /\ obs.decision # "AdoptFinal" =>
                   \A d \in disk[current] : d.final # NoFile

\* What SUCCEEDED rests on.
SucceededHas ==
    \A t \in Task : state[t] = "Succeeded" =>
        /\ receipt[t][attempts[t]] # NoReceipt /\ how[t] \in PublishingDecision
        /\ ~tampered[t] /\ ~powerLost => dir[t].final # NoFile
        /\ ~tampered[t] /\ ~rootLost /\ how[t] # "AdoptFinal" =>
               \A d \in disk[t] : d.final # NoFile

\* The verified bytes of a RUNNING task.
EvidenceHas ==
    \A t \in Task : state[t] = "Running" /\ HasReceipt(t) /\ ~tampered[t] /\ ~powerLost =>
        \/ dir[t].final # NoFile
        \/ active[t] \in dir[t].temp /\ data[t][active[t]] = "synced"

\* The inductive invariant.
CPInv ==
    /\ CPTypeOK /\ RowInv /\ ObsOK
    /\ OneCommand /\ OnRunning /\ MigrateOwnsRunning
    /\ NamesKnown /\ FinalsSynced
    /\ WorkerHas /\ RecoveryHas /\ SucceededHas /\ EvidenceHas

---------------------------------------------------------------------------
(* The commands use the task tables as module TaskRuntime allows.          *)

\* The invariant taken apart.
LEMMA CPFacts ==
    ASSUME CPInv
    PROVE  /\ CPTypeOK /\ RowInv /\ TypeOK /\ OwnershipConsistent /\ ObsOK
           /\ OneCommand /\ OnRunning /\ MigrateOwnsRunning
           /\ NamesKnown /\ FinalsSynced
           /\ WorkerHas /\ RecoveryHas /\ SucceededHas /\ EvidenceHas
  BY DEF CPInv, RowInv

\* A RUNNING task has an epoch that was handed out and an attempt.
LEMMA RunningFacts ==
    ASSUME CPInv, NEW t \in Task, state[t] = "Running"
    PROVE  /\ owner[t] \in IssuedEpoch /\ active[t] \in Attempt /\ active[t] = attempts[t]
           /\ epoch \in IssuedEpoch
<1>1. /\ owner[t] # 0 /\ active[t] # 0 /\ owner[t] <= epoch /\ active[t] = attempts[t]
      /\ owner[t] \in 0 .. MaxEpoch /\ active[t] \in 0 .. MaxAttempts /\ epoch \in 0 .. MaxEpoch
  BY CPFacts DEF TypeOK, OwnershipConsistent, Epoch
<1> QED BY <1>1, BoundsAssumption DEF IssuedEpoch, Attempt

\* The recovery works on a task that is RUNNING.
LEMMA CurrentFacts ==
    ASSUME CPInv, rpc # "idle"
    PROVE  /\ current \in Task /\ current # NoTask /\ current \in todo
           /\ state[current] = "Running" /\ proc = "resume"
  BY CPFacts DEF OneCommand, OnRunning, CPTypeOK

\* An owned attempt may be advanced, verified or closed by a worker of migrate.
LEMMA WorkerCall ==
    ASSUME CPInv, NEW t \in Task, state[t] = "Running", owner[t] = held,
           Executor(t, held, active[t])
    PROVE  Next
  BY RunningFacts DEF Next

\* Resume closes the attempt it read from the row of a task.
LEMMA RecoveryCall ==
    ASSUME CPInv, rpc # "idle", epoch = held,
           Recovery(current, held, owner[current], active[current])
    PROVE  Next
  BY RunningFacts, CurrentFacts DEF Next

\* Every step of a command, a fault or an edit is a step of the repository or leaves the
\* tables alone.
LEMMA TableStep ==
    ASSUME CPInv, [CPNext]_allVars
    PROVE  [Next]_vars
<1>1. ASSUME MigrateBegin PROVE [Next]_vars
  BY <1>1 DEF MigrateBegin, Next
<1>2. ASSUME MigrateAcquire \/ MigrateNothingToDo \/ ProducerCheck \/ ProducerDone \/ MigrateExit
      PROVE  [Next]_vars
  BY <1>2 DEF MigrateAcquire, MigrateNothingToDo, ProducerCheck, ProducerDone, MigrateExit, Next
<1>3. ASSUME NEW t \in Task, MigrateSetReady(t) PROVE [Next]_vars
  BY <1>3 DEF MigrateSetReady, Next
<1>4. ASSUME NEW t \in Task, ProducerClaim(t) PROVE [Next]_vars
  <2>1. ClaimNextReady(held, t) /\ held > 0 /\ epoch = held
    BY <1>4 DEF ProducerClaim, ClaimNextReady
  <2>2. held \in IssuedEpoch
    BY <2>1, BoundsAssumption, CPFacts DEF IssuedEpoch, TypeOK, Epoch
  <2> QED BY <2>1, <2>2 DEF Next
<1>5. ASSUME NEW t \in Task, RecordIntent(t) \/ RecordTempWritten(t) \/ StoreReceipt(t)
                             \/ FailTask(t)
      PROVE  [Next]_vars
  <2>1. Executor(t, held, active[t])
    BY <1>5 DEF RecordIntent, RecordTempWritten, StoreReceipt, FailTask, Executor
  <2>2. state[t] = "Running" /\ owner[t] = held
    BY <1>5 DEF RecordIntent, RecordTempWritten, StoreReceipt, FailTask, MarkCommitIntent,
       MarkTempWritten, AdvanceAttempt, PersistVerifiedReceipt, MarkRetryable, FinishTask, Owns
  <2> QED BY <2>1, <2>2, WorkerCall
<1>6. ASSUME NEW t \in Task, Worker(t) PROVE [Next]_vars
  BY <1>5, <1>6 DEF Worker, OpenSource, OpenTargetRoot, RefuseNested, CreateTemp, BeginCopy,
     EndCopy, FlushTemp, VerifyTemp, WorkerOnly
<1>7. ASSUME ResumeBegin PROVE [Next]_vars
  BY <1>7 DEF ResumeBegin, Next
<1>8. ASSUME rpc # "idle",
             \/ RecoverRetryable(current, held, owner[current], active[current])
             \/ RecoverInconsistent(current, held, owner[current], active[current])
             \/ RecoverSucceeded(current, held, owner[current], active[current])
      PROVE  [Next]_vars
  <2>1. epoch = held /\ Recovery(current, held, owner[current], active[current])
    BY <1>8 DEF Recovery, RecoverRetryable, RecoverInconsistent, RecoverSucceeded, RecoverTask
  <2> QED BY <1>8, <2>1, RecoveryCall
<1>9. ASSUME ResumeDecide \/ ConfirmFinal \/ ConfirmTemp \/ RecheckTemp \/ Publish
             \/ ResumeIoError
      PROVE  [Next]_vars
  BY <1>8, <1>9 DEF ResumeDecide, ConfirmFinal, ConfirmTemp, RecheckTemp, Publish,
     ResumeIoError, GiveUp
<1>10. ASSUME Resume PROVE [Next]_vars
  BY <1>9, <1>10 DEF Resume, ResumeObserve, UnlinkTemp, ReflushTemp, RenameNoReplace,
     SyncTarget, ResumeExit, ResumeTask
<1>11. ASSUME Environment PROVE [Next]_vars
  BY <1>9, <1>11 DEF Environment, Kill, PowerLoss, MigrateIoError, WorkerIoError,
     SourceChanges, UserEdits
<1>12. ASSUME UNCHANGED allVars PROVE [Next]_vars
  BY <1>12 DEF allVars
<1> QED
  BY <1>1, <1>2, <1>3, <1>4, <1>6, <1>7, <1>10, <1>11, <1>12 DEF CPNext, Migrate

---------------------------------------------------------------------------
(* The invariant is inductive.                                             *)

\* The initial state satisfies the invariant.
LEMMA CPInvInit == CPInit => CPInv
<1> SUFFICES ASSUME CPInit PROVE CPInv
  OBVIOUS
<1>0. RowInv /\ TypeOK
  BY RowInvInit DEF CPInit, RowInv
<1>1. CPTypeOK /\ ObsOK
  <2>0. NoFile \in Inode
    BY BoundsAssumption DEF Inode, NoFile, Twin
  <2>1. PICK none \in DirState : none = [temp |-> {}, final |-> NoFile]
    BY <2>0 DEF DirState
  <2>2. dir = [t \in Task |-> none] /\ disk = [t \in Task |-> {none}]
    BY <2>1 DEF CPInit
  <2>3. dir \in [Task -> DirState] /\ disk \in [Task -> SUBSET DirState]
    BY <2>2
  <2>4. /\ proc \in {"none", "migrate", "resume"} /\ held \in Epoch
        /\ producer \in {"starting", "checking", "claiming", "done"}
        /\ todo \subseteq Task /\ current \in Task \cup {NoTask} /\ rpc \in RecoveryStep
    BY BoundsAssumption DEF CPInit, Epoch, RecoveryStep
  <2>5. /\ pc \in [Task -> WorkerStep] /\ source \in [Task -> {"intact", "changed", "gone"}]
        /\ root \in {"missing", "volatile", "durable"}
        /\ data \in [Task -> [Attempt -> DataState]]
    BY RootAssumption DEF CPInit, DataState, WorkerStep
  <2>6. how \in [Task -> ReconcileAction \cup {"none"}] /\ faults \in 0 .. MaxFaults
    BY FaultAssumption DEF CPInit
  <2>8. failed \in BOOLEAN /\ powerLost \in BOOLEAN /\ rootLost \in BOOLEAN
    BY Zenon DEF CPInit
  <2>9. tampered \in [Task -> BOOLEAN]
    BY Zenon DEF CPInit
  <2>7. ObsOK
    BY DEF CPInit, ObsOK, NoObs
  <2> QED BY <1>0, <2>3, <2>4, <2>5, <2>6, <2>7, <2>8, <2>9 DEF CPTypeOK
<1>2. OneCommand /\ OnRunning /\ MigrateOwnsRunning
  BY DEF CPInit, Init, OneCommand, OnRunning, MigrateOwnsRunning
<1>3. NamesKnown /\ FinalsSynced /\ WorkerHas /\ RecoveryHas
  <2>1. NoFile \notin Attempt
    BY BoundsAssumption DEF NoFile, Attempt
  <2> QED
    BY <2>1 DEF CPInit, NamesKnown, FinalsSynced, WorkerHas, RecoveryHas, Publishing
<1>4. SucceededHas /\ EvidenceHas
  BY DEF CPInit, Init, SucceededHas, EvidenceHas
<1> QED BY <1>0, <1>1, <1>2, <1>3, <1>4 DEF CPInv


---------------------------------------------------------------------------
(* What the helpers do.                                                    *)

\* The bound on faults is kept.
LEMMA FaultFacts ==
    ASSUME CPInv, Fault PROVE faults' \in 0 .. MaxFaults
  BY FaultAssumption, CPFacts DEF CPTypeOK, Fault

\* Names that keep the final.
LEMMA TempNames ==
    ASSUME CPInv, NEW t \in Task, NEW S \in SUBSET Attempt
    PROVE  /\ [dir[t] EXCEPT !.temp = S] \in DirState
           /\ [dir[t] EXCEPT !.temp = S].final = dir[t].final
           /\ [dir[t] EXCEPT !.temp = S].temp = S
  BY CPFacts DEF CPTypeOK, DirState

\* Names that keep the temporary files.
LEMMA FinalNames ==
    ASSUME CPInv, NEW t \in Task, NEW f \in Inode
    PROVE  /\ [dir[t] EXCEPT !.final = f] \in DirState
           /\ [dir[t] EXCEPT !.final = f].final = f
  BY CPFacts DEF CPTypeOK, DirState

\* A change of the names of one task.
LEMMA ChangeDirFacts ==
    ASSUME CPInv, NEW t \in Task, NEW d \in DirState, ChangeDir(t, d)
    PROVE  /\ dir' \in [Task -> DirState] /\ disk' \in [Task -> SUBSET DirState]
           /\ dir'[t] = d /\ disk'[t] = disk[t] \cup {d}
           /\ \A u \in Task : u # t => dir'[u] = dir[u] /\ disk'[u] = disk[u]
<1>1. dir \in [Task -> DirState] /\ disk \in [Task -> SUBSET DirState]
  BY CPFacts DEF CPTypeOK
<1> QED BY <1>1 DEF ChangeDir

\* A change of the bytes of one file.
LEMMA SetDataFacts ==
    ASSUME CPInv, NEW t \in Task, NEW a \in Attempt, NEW v \in DataState,
           data' = [data EXCEPT ![t][a] = v]
    PROVE  /\ data' \in [Task -> [Attempt -> DataState]] /\ data'[t][a] = v
           /\ \A u \in Task, b \in Attempt : u # t \/ b # a => data'[u][b] = data[u][b]
<1>1. data \in [Task -> [Attempt -> DataState]]
  BY CPFacts DEF CPTypeOK
<1> QED BY <1>1

\* The end of a task in resume clears the observations.
LEMMA NoObsFacts ==
    ASSUME obs' = NoObs PROVE ObsOK'
  BY DEF ObsOK, NoObs

---------------------------------------------------------------------------
(* The steps of a worker.                                                  *)

\* A worker changes only its own temporary file: it creates the name or writes the bytes
\* of an attempt that has no receipt and is not published.
LEMMA WorkerKeeps ==
    ASSUME CPInv, RowInv', NEW t \in Task, NEW step \in WorkerStep \ {"idle"},
           pc[t] # "idle", Goto(t, step),
           UNCHANGED <<vars, command, recovery, source, ghosts>>,
           root' \in {"missing", "volatile", "durable"},
           data' = data \/ (\E v \in DataState : data' = [data EXCEPT ![t][active[t]] = v]),
           \/ UNCHANGED <<dir, disk>>
           \/ ChangeDir(t, [dir[t] EXCEPT !.temp = @ \cup {active[t]}]),
           ~tampered[t] =>
               /\ step \in {"created", "reading", "copied", "flushed", "written",
                            "verified"} => active[t] \in dir'[t].temp
               /\ step = "copied" => data'[t][active[t]] = "cached"
               /\ step \in {"flushed", "written", "verified"} =>
                      data'[t][active[t]] = "synced"
    PROVE  CPInv'
<1> USE DEF vars, command, recovery, ghosts
<1>1. /\ state[t] = "Running" /\ ~HasReceipt(t) /\ active[t] \in Attempt /\ proc = "migrate"
      /\ rpc = "idle"
  BY CPFacts, RunningFacts DEF OnRunning, OneCommand
<1>2. /\ pc' \in [Task -> WorkerStep] /\ pc'[t] = step
      /\ \A u \in Task : u # t => pc'[u] = pc[u]
  BY CPFacts DEF Goto, CPTypeOK
<1>3. /\ dir' \in [Task -> DirState] /\ disk' \in [Task -> SUBSET DirState]
      /\ dir'[t] \in disk'[t] /\ dir'[t].final = dir[t].final
      /\ \A d \in disk'[t] : d \in disk[t] \/ d.final = dir[t].final
      /\ disk[t] \subseteq disk'[t]
      /\ \A u \in Task : u # t => dir'[u] = dir[u] /\ disk'[u] = disk[u]
  <2>1. CASE UNCHANGED <<dir, disk>>
    BY <2>1, CPFacts DEF CPTypeOK, NamesKnown
  <2>2. CASE ChangeDir(t, [dir[t] EXCEPT !.temp = @ \cup {active[t]}])
    <3>1. PICK d : d = [dir[t] EXCEPT !.temp = dir[t].temp \cup {active[t]}]
      OBVIOUS
    <3>2. dir[t].temp \cup {active[t]} \in SUBSET Attempt
      BY <1>1, CPFacts DEF CPTypeOK, DirState
    <3>3. d \in DirState /\ d.final = dir[t].final
      BY <3>1, <3>2, TempNames
    <3>4. ChangeDir(t, d)
      BY <2>2, <3>1
    <3> QED BY <3>3, <3>4, ChangeDirFacts
  <2> QED BY <2>1, <2>2
<1>4. /\ data' \in [Task -> [Attempt -> DataState]]
      /\ \A u \in Task, b \in Attempt : u # t \/ b # active[t] => data'[u][b] = data[u][b]
  BY <1>1, SetDataFacts, CPFacts DEF CPTypeOK
<1>5. CPTypeOK' /\ ObsOK'
  BY <1>2, <1>3, <1>4, CPFacts DEF CPTypeOK, ObsOK, RowInv
<1>6. OneCommand' /\ OnRunning' /\ MigrateOwnsRunning'
  BY <1>1, <1>2, CPFacts DEF OneCommand, OnRunning, MigrateOwnsRunning, HasReceipt
<1>7. NamesKnown'
  BY <1>2, <1>3, CPFacts DEF NamesKnown
<1>8. FinalsSynced'
  <2>1. ASSUME NEW u \in Task, ~tampered[u], NEW d \in disk'[u], d.final # NoFile
        PROVE  d.final \in Attempt /\ data'[u][d.final] = "synced"
    <3>1. CASE u # t
      <4>1. d.final \in Attempt /\ data[u][d.final] = "synced"
        BY <1>3, <2>1, <3>1, CPFacts DEF FinalsSynced
      <4> QED BY <1>4, <3>1, <4>1
    <3>2. CASE u = t
      <4>1. PICK e \in disk[t] : e.final = d.final
        BY <1>3, <2>1, <3>2, CPFacts DEF NamesKnown
      <4>2. e.final \in Attempt /\ data[t][e.final] = "synced" /\ e.final # active[t]
        BY <2>1, <3>2, <4>1, CPFacts DEF FinalsSynced, NamesKnown
      <4> QED BY <1>4, <3>2, <4>1, <4>2
    <3> QED BY <3>1, <3>2
  <2> QED BY <2>1 DEF FinalsSynced
<1>9. WorkerHas'
  <2>1. ASSUME NEW u \in Task, u # t, pc'[u] # "idle"
        PROVE  /\ dir'[u] = dir[u] /\ pc'[u] = pc[u]
               /\ data'[u][active[u]] = data[u][active[u]]
    BY <1>2, <1>3, <1>4, <2>1, CPFacts, RunningFacts DEF OnRunning
  <2> QED BY <1>2, <2>1, CPFacts DEF WorkerHas
<1>10. RecoveryHas'
  BY <1>1 DEF RecoveryHas, Publishing
<1>11. SucceededHas' /\ EvidenceHas'
  <2>1. ASSUME NEW u \in Task, u # t
        PROVE  /\ dir'[u] = dir[u] /\ disk'[u] = disk[u]
               /\ state[u] = "Running" => data'[u][active[u]] = data[u][active[u]]
    BY <1>3, <1>4, <2>1, RunningFacts
  <2> QED
    BY <1>1, <2>1, CPFacts DEF SucceededHas, EvidenceHas, HasReceipt
<1> QED
  BY <1>5, <1>6, <1>7, <1>8, <1>9, <1>10, <1>11 DEF CPInv

\* Recording progress in the attempt row changes no file.
LEMMA ProgressKeeps ==
    ASSUME CPInv, RowInv', NEW t \in Task,
           \/ pc[t] = "rooted" /\ MarkCommitIntent(t, held, active[t]) /\ Goto(t, "intent")
           \/ pc[t] = "flushed" /\ MarkTempWritten(t, held, active[t]) /\ Goto(t, "written"),
           UNCHANGED <<command, recovery, source, files, ghosts>>
    PROVE  CPInv'
<1> USE DEF command, recovery, files, ghosts, taskRow
<1>1. UNCHANGED <<epoch, state, owner, active, attempts, receipt>>
  BY DEF MarkCommitIntent, MarkTempWritten, AdvanceAttempt
<1>2. /\ pc' \in [Task -> WorkerStep] /\ (\A u \in Task : u # t => pc'[u] = pc[u])
      /\ \/ pc[t] = "rooted" /\ pc'[t] = "intent"
         \/ pc[t] = "flushed" /\ pc'[t] = "written"
  <2>1. PICK step \in {"intent", "written"} : Goto(t, step)
    OBVIOUS
  <2>2. pc' \in [Task -> WorkerStep] /\ (\A u \in Task : u # t => pc'[u] = pc[u])
    BY <2>1, CPFacts DEF Goto, CPTypeOK, WorkerStep
  <2>3. \/ pc[t] = "rooted" /\ pc'[t] = "intent"
        \/ pc[t] = "flushed" /\ pc'[t] = "written"
    BY CPFacts DEF Goto, CPTypeOK
  <2> QED BY <2>2, <2>3
<1>3. CPTypeOK' /\ ObsOK'
  BY <1>2, CPFacts DEF CPTypeOK, ObsOK, RowInv
<1>4. OneCommand' /\ OnRunning' /\ MigrateOwnsRunning'
  BY <1>1, <1>2, CPFacts DEF OneCommand, OnRunning, MigrateOwnsRunning, HasReceipt
<1>5. NamesKnown' /\ FinalsSynced' /\ WorkerHas'
  BY <1>1, <1>2, CPFacts DEF NamesKnown, FinalsSynced, WorkerHas
<1>6. RecoveryHas' /\ SucceededHas' /\ EvidenceHas'
  BY <1>1, CPFacts DEF RecoveryHas, SucceededHas, EvidenceHas, HasReceipt
<1> QED BY <1>3, <1>4, <1>5, <1>6 DEF CPInv

\* The receipt is stored while the verified file is under its temporary name.
LEMMA StoreReceiptKeeps ==
    ASSUME CPInv, RowInv', NEW t \in Task, StoreReceipt(t)
    PROVE  CPInv'
<1> USE DEF command, recovery, files, ghosts, taskRow
<1>1. PICK v \in Evidence : PersistVerifiedReceipt(t, held, active[t], v)
  BY DEF StoreReceipt
<1>2. /\ UNCHANGED <<epoch, state, owner, active, attempts>>
      /\ receipt' = [receipt EXCEPT ![t][active[t]] = [epoch |-> held, content |-> v]]
      /\ state[t] = "Running" /\ pc[t] = "verified" /\ active[t] \in Attempt
      /\ held \in IssuedEpoch /\ epoch = held
  BY <1>1, RunningFacts DEF StoreReceipt, PersistVerifiedReceipt, Owns
<1>3. /\ pc' \in [Task -> WorkerStep] /\ (\A u \in Task : u # t => pc'[u] = pc[u])
      /\ pc'[t] = "idle" /\ UNCHANGED <<command, recovery, source, files, ghosts>>
  BY CPFacts DEF StoreReceipt, Goto, CPTypeOK, WorkerStep
<1>4. PICK r : r = [epoch |-> held, content |-> v]
  OBVIOUS
<1>5. r # NoReceipt
  <2>1. r \in Receipt
    BY <1>2, <1>4, CPFacts, BoundsAssumption DEF Receipt, IssuedEpoch, TypeOK, Epoch
  <2> QED BY <2>1, NoReceiptAssumption
<1>6. /\ receipt'[t][active[t]] # NoReceipt
      /\ \A u \in Task, b \in Attempt : u # t => receipt'[u][b] = receipt[u][b]
  BY <1>2, <1>4, <1>5, CPFacts DEF TypeOK
<1>7. \A u \in Task : u # t => receipt'[u] = receipt[u]
  BY <1>2, CPFacts DEF TypeOK
<1>8. CPTypeOK' /\ ObsOK'
  BY <1>3, CPFacts DEF CPTypeOK, ObsOK, RowInv
<1>9. OneCommand' /\ OnRunning' /\ MigrateOwnsRunning'
  <2>1. OneCommand'
    BY <1>3, CPFacts DEF OneCommand
  <2>2. OnRunning' /\ MigrateOwnsRunning'
    BY <1>2, <1>3, <1>6, <1>7, CPFacts DEF OnRunning, MigrateOwnsRunning, HasReceipt
  <2> QED BY <2>1, <2>2
<1>10. NamesKnown' /\ FinalsSynced' /\ WorkerHas'
  BY <1>2, <1>3, CPFacts DEF NamesKnown, FinalsSynced, WorkerHas
<1>11. RecoveryHas'
  BY <1>2, <1>3, CPFacts DEF RecoveryHas, Publishing, OneCommand
<1>12. SucceededHas' /\ EvidenceHas'
  <2>1. ~tampered[t] => active[t] \in dir[t].temp /\ data[t][active[t]] = "synced"
    BY <1>2, CPFacts DEF WorkerHas
  <2> QED
    BY <1>2, <1>3, <1>7, <2>1, CPFacts DEF SucceededHas, EvidenceHas, HasReceipt
<1> QED BY <1>8, <1>9, <1>10, <1>11, <1>12 DEF CPInv

\* A failed task becomes RETRYABLE and first_error is set.
LEMMA FailTaskKeeps ==
    ASSUME CPInv, RowInv', NEW t \in Task, FailTask(t)
    PROVE  CPInv'
<1> USE DEF recovery, files, ghosts
<1>1. /\ state' = [state EXCEPT ![t] = "Retryable"] /\ active' = [active EXCEPT ![t] = 0]
      /\ owner' = [owner EXCEPT ![t] = 0] /\ UNCHANGED <<epoch, attempts, receipt>>
      /\ pc[t] = "failing" /\ pc' = [pc EXCEPT ![t] = "idle"] /\ failed' = TRUE
      /\ UNCHANGED <<proc, held, producer, recovery, source, files, ghosts>>
  BY DEF FailTask, MarkRetryable, FinishTask, Goto
<1>2. /\ proc = "migrate" /\ rpc = "idle" /\ todo = {}
      /\ pc' \in [Task -> WorkerStep] /\ pc'[t] = "idle" /\ state'[t] = "Retryable"
      /\ \A u \in Task : u # t => /\ pc'[u] = pc[u] /\ state'[u] = state[u]
                                  /\ active'[u] = active[u] /\ owner'[u] = owner[u]
  BY <1>1, CPFacts DEF OneCommand, CPTypeOK, TypeOK, WorkerStep
<1>3. CPTypeOK' /\ ObsOK'
  <2>1. failed' \in BOOLEAN
    BY <1>1
  <2> QED BY <1>1, <1>2, <2>1, CPFacts DEF CPTypeOK, ObsOK, RowInv
<1>4. OneCommand' /\ OnRunning' /\ MigrateOwnsRunning'
  BY <1>1, <1>2, CPFacts DEF OneCommand, OnRunning, MigrateOwnsRunning, HasReceipt
<1>5. NamesKnown' /\ FinalsSynced' /\ WorkerHas'
  BY <1>1, <1>2, CPFacts DEF NamesKnown, FinalsSynced, WorkerHas
<1>6. RecoveryHas' /\ SucceededHas' /\ EvidenceHas'
  BY <1>1, <1>2, CPFacts DEF RecoveryHas, Publishing, SucceededHas, EvidenceHas, HasReceipt
<1> QED BY <1>3, <1>4, <1>5, <1>6 DEF CPInv

---------------------------------------------------------------------------
(* The claiming loop.                                                      *)

\* A claimed task starts a new attempt, whose file does not exist under any name.
LEMMA ProducerClaimKeeps ==
    ASSUME CPInv, RowInv', NEW t \in Task, ProducerClaim(t)
    PROVE  CPInv'
<1> USE DEF recovery, files, ghosts
<1>1. PICK new : new = attempts[t] + 1
  OBVIOUS
<1>2. /\ state' = [state EXCEPT ![t] = "Running"] /\ active' = [active EXCEPT ![t] = new]
      /\ owner' = [owner EXCEPT ![t] = held] /\ attempts' = [attempts EXCEPT ![t] = new]
      /\ UNCHANGED <<epoch, receipt>> /\ state[t] = "Ready" /\ attempts[t] < MaxAttempts
      /\ proc = "migrate" /\ producer = "claiming" /\ producer' = "checking"
      /\ UNCHANGED <<proc, held, failed, recovery, source, files, ghosts>>
      /\ pc' = [pc EXCEPT ![t] = "claimed"]
  BY <1>1 DEF ProducerClaim, ClaimNextReady, Claimable, Goto
<1>3. /\ pc' \in [Task -> WorkerStep] /\ pc'[t] = "claimed" /\ state'[t] = "Running"
      /\ active'[t] = new /\ owner'[t] = held /\ attempts'[t] = new
      /\ \A u \in Task : u # t => /\ pc'[u] = pc[u] /\ state'[u] = state[u]
                                  /\ active'[u] = active[u] /\ owner'[u] = owner[u]
                                  /\ attempts'[u] = attempts[u]
      /\ rpc = "idle" /\ todo = {}
  BY <1>2, CPFacts DEF OneCommand, CPTypeOK, TypeOK, WorkerStep
<1>4. new \in Attempt /\ new > attempts[t]
  BY <1>1, <1>2, CPFacts, BoundsAssumption DEF TypeOK, Attempt
<1>5. receipt[t][new] = NoReceipt
  <2>1. fileState[t][new] = "None"
    BY <1>4, CPFacts DEF RowInv, RowsDense
  <2> QED BY <1>4, <2>1, CPFacts DEF RowInv, ReceiptMatchesAttempt
<1>6. CPTypeOK' /\ ObsOK'
  BY <1>2, <1>3, CPFacts DEF CPTypeOK, ObsOK, RowInv
<1>7. OneCommand' /\ OnRunning' /\ MigrateOwnsRunning'
  <2>1. OneCommand'
    BY <1>2, <1>3, CPFacts DEF OneCommand
  <2>2. OnRunning' /\ MigrateOwnsRunning'
    BY <1>2, <1>3, <1>5, CPFacts DEF OnRunning, MigrateOwnsRunning, HasReceipt
  <2> QED BY <2>1, <2>2
<1>8. NamesKnown'
  <2>1. \A d \in disk[t] : d.final # new /\ (d.final \in Attempt => d.final <= new)
    <3>1. attempts[t] \in Nat
      BY CPFacts, BoundsAssumption DEF TypeOK
    <3>2. ASSUME NEW d \in disk[t], d.final \in Attempt PROVE d.final <= attempts[t]
      BY <3>2, CPFacts DEF NamesKnown
    <3> QED BY <1>1, <1>4, <3>1, <3>2, BoundsAssumption DEF Attempt
  <2> QED BY <1>2, <1>3, <2>1, CPFacts DEF NamesKnown
<1>9. FinalsSynced' /\ WorkerHas'
  BY <1>2, <1>3, CPFacts DEF FinalsSynced, WorkerHas
<1>10. RecoveryHas' /\ SucceededHas' /\ EvidenceHas'
  BY <1>2, <1>3, <1>5, CPFacts
  DEF RecoveryHas, Publishing, SucceededHas, EvidenceHas, HasReceipt
<1> QED
  BY <1>6, <1>7, <1>8, <1>9, <1>10 DEF CPInv

\* Materialization and SetReady concern tasks that nobody works on.
LEMMA ReadyKeeps ==
    ASSUME CPInv, RowInv', MigrateBegin \/ \E t \in Task : MigrateSetReady(t)
    PROVE  CPInv'
<1> USE DEF recovery, files, ghosts, command
<1>1. /\ UNCHANGED <<epoch, attempts, receipt, pc, recovery, source, files, ghosts>>
      /\ proc' = "migrate" /\ producer' = "starting" /\ held' \in Epoch
      /\ (failed' = failed \/ failed' = FALSE)
      /\ (\A t \in Task : state[t] # "Running")
  BY CPFacts, BoundsAssumption
  DEF MigrateBegin, MigrateSetReady, MaterializePlan, SetReady, vars, CPTypeOK, Epoch, OnRunning
<1>2. \A t \in Task : /\ state'[t] \in {state[t], "Ready"} /\ pc[t] = "idle"
                      /\ state'[t] = "Succeeded" => state[t] = "Succeeded"
  BY <1>1, CPFacts
  DEF MigrateBegin, MigrateSetReady, MaterializePlan, SetReady, vars, OnRunning, TypeOK
<1>3. rpc = "idle" /\ todo = {} /\ current = NoTask
  BY CPFacts DEF OneCommand, MigrateBegin, MigrateSetReady
<1>4. CPTypeOK' /\ ObsOK'
  <2>1. failed' \in BOOLEAN
    BY <1>1, CPFacts, Zenon DEF CPTypeOK
  <2> QED BY <1>1, <2>1, CPFacts DEF CPTypeOK, ObsOK, RowInv
<1>5. OneCommand' /\ OnRunning' /\ MigrateOwnsRunning'
  BY <1>1, <1>2, <1>3 DEF OneCommand, OnRunning, MigrateOwnsRunning, NoTask
<1>6. NamesKnown' /\ FinalsSynced' /\ WorkerHas'
  BY <1>1, <1>2, CPFacts DEF NamesKnown, FinalsSynced, WorkerHas
<1>7. RecoveryHas' /\ SucceededHas' /\ EvidenceHas'
  BY <1>1, <1>2, <1>3, CPFacts DEF RecoveryHas, Publishing, SucceededHas, EvidenceHas
<1> QED BY <1>4, <1>5, <1>6, <1>7 DEF CPInv

\* A new epoch: migrate takes one while nothing is RUNNING, resume while nobody works.
LEMMA AcquireKeeps ==
    ASSUME CPInv, RowInv', MigrateAcquire \/ ResumeBegin
    PROVE  CPInv'
<1> USE DEF recovery, files, ghosts, taskRow, attemptRow
<1>1. /\ UNCHANGED <<state, owner, active, attempts, receipt, pc, source, files, ghosts>>
      /\ UNCHANGED <<current, rpc, obs>>
      /\ held' = epoch + 1 /\ epoch < MaxEpoch /\ (failed' = failed \/ failed' = FALSE)
      /\ \/ /\ proc = "migrate" /\ proc' = "migrate" /\ producer' = "checking" /\ todo' = todo
            /\ producer = "starting"
         \/ /\ proc = "none" /\ proc' = "resume" /\ producer' = "done"
            /\ todo' = {t \in Task : state[t] = "Running"}
  BY DEF MigrateAcquire, ResumeBegin, AcquireNextExecutionEpoch
<1>2. held' \in Epoch
  BY <1>1, CPFacts, BoundsAssumption DEF TypeOK, Epoch
<1>3. rpc = "idle" /\ todo = {} /\ current = NoTask /\ (\A t \in Task : pc[t] # "idle" => FALSE)
  BY <1>1, CPFacts DEF OneCommand, OnRunning
<1>4. CPTypeOK' /\ ObsOK'
  <2>1. failed' \in BOOLEAN
    BY <1>1, CPFacts, Zenon DEF CPTypeOK
  <2>2. /\ proc' \in {"none", "migrate", "resume"} /\ todo' \subseteq Task
        /\ producer' \in {"starting", "checking", "claiming", "done"}
    BY <1>1, <1>3
  <2> QED BY <1>1, <1>2, <2>1, <2>2, CPFacts DEF CPTypeOK, ObsOK, RowInv
<1>5. OneCommand' /\ OnRunning' /\ MigrateOwnsRunning'
  BY <1>1, <1>3, CPFacts DEF OneCommand, OnRunning, MigrateOwnsRunning, NoTask
<1>6. NamesKnown' /\ FinalsSynced' /\ WorkerHas'
  BY <1>1, <1>3, CPFacts DEF NamesKnown, FinalsSynced, WorkerHas
<1>7. RecoveryHas' /\ SucceededHas' /\ EvidenceHas'
  BY <1>1, <1>3, CPFacts DEF RecoveryHas, Publishing, SucceededHas, EvidenceHas, HasReceipt
<1> QED BY <1>4, <1>5, <1>6, <1>7 DEF CPInv

\* Steps of migrate's own thread that change no row and no file.
LEMMA ProducerKeeps ==
    ASSUME CPInv, RowInv', proc = "migrate",
           UNCHANGED <<vars, held, failed, pc, recovery, source, files>>,
           UNCHANGED <<how, tampered, powerLost, rootLost>>, faults' \in 0 .. MaxFaults,
           \/ proc' = "migrate" /\ producer # "starting"
              /\ producer' \in {"checking", "claiming", "done"}
           \/ proc' = "migrate" /\ producer' = "done"
           \/ proc' = "none" /\ producer' = "done" /\ \A t \in Task : pc[t] = "idle"
    PROVE  CPInv'
<1> USE DEF recovery, files, vars
<1>1. CPTypeOK' /\ ObsOK'
  BY CPFacts DEF CPTypeOK, ObsOK, RowInv
<1>2. OneCommand' /\ OnRunning' /\ MigrateOwnsRunning'
  BY CPFacts DEF OneCommand, OnRunning, MigrateOwnsRunning, HasReceipt
<1>3. NamesKnown' /\ FinalsSynced' /\ WorkerHas'
  BY CPFacts DEF NamesKnown, FinalsSynced, WorkerHas
<1>4. RecoveryHas' /\ SucceededHas' /\ EvidenceHas'
  BY CPFacts DEF RecoveryHas, SucceededHas, EvidenceHas, HasReceipt
<1> QED BY <1>1, <1>2, <1>3, <1>4 DEF CPInv

---------------------------------------------------------------------------
(* The steps of resume.                                                    *)

\* Resume leaves a task: its attempt is closed without success, or an error is reported
\* and the task stays RUNNING.
LEMMA RecoveryEnds ==
    ASSUME CPInv, RowInv', rpc # "idle", NEW error \in BOOLEAN, NextTask(error),
           \/ UNCHANGED vars
           \/ RecoverRetryable(current, held, owner[current], active[current])
           \/ RecoverInconsistent(current, held, owner[current], active[current]),
           UNCHANGED <<pc, source, files, how, tampered, powerLost, rootLost>>,
           faults' \in 0 .. MaxFaults
    PROVE  CPInv'
<1> USE DEF files
<1>1. /\ current \in Task /\ state[current] = "Running" /\ proc = "resume"
      /\ \A t \in Task : pc[t] = "idle"
  BY CurrentFacts, CPFacts DEF OneCommand
<1>2. /\ todo' = todo \ {current} /\ current' = NoTask /\ rpc' = "idle" /\ obs' = NoObs
      /\ failed' = (failed \/ error) /\ UNCHANGED <<proc, held, producer>>
  BY DEF NextTask
<1>3. PICK t \in Task : t = current
  BY <1>1
<1>4. /\ UNCHANGED <<attempts, receipt>> /\ state'[t] # "Succeeded"
      /\ \A u \in Task : u # t => /\ state'[u] = state[u] /\ active'[u] = active[u]
                                  /\ owner'[u] = owner[u]
      /\ \/ state'[t] = "Running" /\ active'[t] = active[t]
         \/ state'[t] # "Running"
  BY <1>1, <1>3, CPFacts DEF RecoverRetryable, RecoverInconsistent, RecoverTask, vars, TypeOK
<1>5. CPTypeOK' /\ ObsOK'
  <2>1. failed' \in BOOLEAN
    BY <1>2, CPFacts, Zenon DEF CPTypeOK
  <2>2. rpc' \in RecoveryStep /\ todo' \subseteq Task /\ current' \in Task \cup {NoTask}
    BY <1>2, CPFacts DEF CPTypeOK, RecoveryStep
  <2> QED BY <1>2, <2>1, <2>2, NoObsFacts, CPFacts DEF CPTypeOK, RowInv
<1>6. OneCommand' /\ OnRunning' /\ MigrateOwnsRunning'
  <2>1. OneCommand' /\ MigrateOwnsRunning'
    BY <1>1, <1>2, CPFacts DEF OneCommand, MigrateOwnsRunning
  <2>2. OnRunning'
    BY <1>1, <1>2, <1>3, <1>4, CPFacts DEF OnRunning, CPTypeOK
  <2> QED BY <2>1, <2>2
<1>7. NamesKnown' /\ FinalsSynced' /\ WorkerHas'
  BY <1>1, <1>4, CPFacts DEF NamesKnown, FinalsSynced, WorkerHas
<1>8. RecoveryHas'
  BY <1>2 DEF RecoveryHas, Publishing
<1>9. SucceededHas' /\ EvidenceHas'
  BY <1>1, <1>3, <1>4, CPFacts DEF SucceededHas, EvidenceHas, HasReceipt
<1> QED BY <1>5, <1>6, <1>7, <1>8, <1>9 DEF CPInv

\* Resume goes on with its task without changing a row or a file.
LEMMA RecoveryGoesOn ==
    ASSUME CPInv, RowInv', rpc # "idle", rpc' \in RecoveryStep \ {"idle"},
           UNCHANGED <<vars, command, todo, current, pc, source, files, ghosts>>,
           ObsOK', RecoveryHas'
    PROVE  CPInv'
<1> USE DEF files, vars, command, ghosts
<1>1. CPTypeOK'
  BY CPFacts DEF CPTypeOK, RowInv
<1>2. OneCommand' /\ OnRunning' /\ MigrateOwnsRunning'
  BY CPFacts DEF OneCommand, OnRunning, MigrateOwnsRunning, HasReceipt
<1>3. NamesKnown' /\ FinalsSynced' /\ WorkerHas'
  BY CPFacts DEF NamesKnown, FinalsSynced, WorkerHas
<1>4. SucceededHas' /\ EvidenceHas'
  BY CPFacts DEF SucceededHas, EvidenceHas, HasReceipt
<1> QED BY <1>1, <1>2, <1>3, <1>4 DEF CPInv

\* What the observation of a file says.
LEMMA ObserveFacts ==
    ASSUME CPInv, NEW t \in Task, NEW a \in Attempt
    PROVE  /\ ObserveTemp(t, a) \in Observation /\ ObserveFinal(t) \in Observation
           /\ ObserveTemp(t, a) = "match" =>
                  a \in dir[t].temp /\ data[t][a] \in {"cached", "synced"}
           /\ ObserveFinal(t) = "match" => dir[t].final # NoFile
<1>1. a # Twin
  BY BoundsAssumption DEF Attempt, Twin
<1> QED BY <1>1 DEF ObserveTemp, ObserveFinal, Observation, Holds

\* The three observations.
LEMMA ResumeObserveKeeps ==
    ASSUME CPInv, RowInv', ResumeObserve
    PROVE  CPInv'
<1>1. /\ rpc # "idle" /\ rpc' \in {"temp", "final", "decide"}
      /\ UNCHANGED <<vars, command, todo, current, pc, source, files, ghosts>>
  BY DEF ResumeObserve, RStep
<1>2. current \in Task /\ active[current] \in Attempt /\ source[current] \in {"intact", "changed", "gone"}
  BY <1>1, CurrentFacts, RunningFacts, CPFacts DEF CPTypeOK
<1>3. ObsOK'
  <2>1. PICK f \in {"source", "temp", "final"}, v \in SourceObservation \cup Observation :
            /\ obs' = [obs EXCEPT ![f] = v]
            /\ f = "source" => v \in SourceObservation
            /\ f # "source" => v \in Observation
    BY <1>2, ObserveFacts DEF ResumeObserve, SourceObservation
  <2> QED BY <2>1, CPFacts DEF ObsOK
<1>4. RecoveryHas' /\ rpc' \in RecoveryStep \ {"idle"}
  BY <1>1 DEF RecoveryHas, Publishing, RecoveryStep
<1> QED BY <1>1, <1>3, <1>4, RecoveryGoesOn

\* A decision to publish is made only for an attempt with a receipt.
LEMMA DecideFacts ==
    ASSUME NEW st, NEW has \in BOOLEAN, NEW src, NEW tmp \in Observation \cup {"none"},
           NEW fin \in Observation \cup {"none"},
           Decide(st, has, src, tmp, fin) \in PublishingDecision
    PROVE  has
<1>1. CASE src = "changed"
  BY <1>1 DEF Decide, PublishingDecision
<1>2. CASE src # "changed" /\ ~has
  BY <1>2 DEF Decide, DecideWithoutReceipt, PublishingDecision
<1> QED BY <1>1, <1>2

\* The decision.
LEMMA ResumeDecideKeeps ==
    ASSUME CPInv, RowInv', ResumeDecide
    PROVE  CPInv'
<1> DEFINE decision == Decide(state[current], HasReceipt(current), obs.source, obs.temp,
                              obs.final)
<1>1. /\ rpc = "decide" /\ UNCHANGED <<pc, source, files, ghosts>>
  BY DEF ResumeDecide
<1>2. \/ /\ \/ RecoverRetryable(current, held, owner[current], active[current])
            \/ RecoverInconsistent(current, held, owner[current], active[current])
         /\ NextTask(TRUE)
      \/ /\ decision \in PublishingDecision /\ rpc' \in {"confirmFinal", "recheck"}
         /\ obs' = [obs EXCEPT !.decision = decision]
         /\ UNCHANGED <<vars, command, todo, current>>
  BY DEF ResumeDecide, RStep, PublishingDecision
<1>3. ASSUME \/ RecoverRetryable(current, held, owner[current], active[current])
             \/ RecoverInconsistent(current, held, owner[current], active[current]),
             NextTask(TRUE)
      PROVE  CPInv'
  <2>1. faults' \in 0 .. MaxFaults /\ rpc # "idle"
    BY <1>1, CPFacts DEF ghosts, CPTypeOK
  <2> QED BY <1>1, <1>3, <2>1, RecoveryEnds DEF ghosts
<1> HIDE DEF decision
<1>4. ASSUME decision \in PublishingDecision, rpc' \in {"confirmFinal", "recheck"},
             obs' = [obs EXCEPT !.decision = decision], UNCHANGED <<vars, command, todo, current>>
      PROVE  CPInv'
  <2>1. HasReceipt(current)
    <3>1. HasReceipt(current) \in BOOLEAN /\ obs.temp \in Observation \cup {"none"}
          /\ obs.final \in Observation \cup {"none"}
      BY CPFacts DEF HasReceipt, ObsOK
    <3> QED BY <1>4, <3>1, DecideFacts DEF decision
  <2>2. ObsOK' /\ obs'.decision = decision
    BY <1>4, CPFacts DEF ObsOK, PublishingDecision, ReconcileAction
  <2>3. RecoveryHas' /\ rpc' \in RecoveryStep \ {"idle"} /\ rpc # "idle"
    BY <1>1, <1>4, <2>1, <2>2 DEF RecoveryHas, HasReceipt, RecoveryStep, vars
  <2> QED BY <1>1, <1>4, <2>2, <2>3, RecoveryGoesOn
<1> QED BY <1>2, <1>3, <1>4

\* The confirmations before a final is adopted, and the second look at the temporary file.
LEMMA ConfirmKeeps ==
    ASSUME CPInv, RowInv', ConfirmFinal \/ ConfirmTemp \/ RecheckTemp
    PROVE  CPInv'
<1>1. rpc \in {"confirmFinal", "confirmTemp", "recheck"} /\ rpc # "idle"
  BY DEF ConfirmFinal, ConfirmTemp, RecheckTemp
<1>2. current \in Task /\ active[current] \in Attempt
  BY <1>1, CurrentFacts, RunningFacts
<1>3. ASSUME GiveUp \/ (NextTask(TRUE) /\ UNCHANGED <<vars, pc, source, files, ghosts>>)
      PROVE  CPInv'
  <2>1. faults' \in 0 .. MaxFaults
    BY <1>3, CPFacts DEF ghosts, CPTypeOK, GiveUp
  <2> QED BY <1>1, <1>3, <2>1, RecoveryEnds DEF ghosts, GiveUp
<1>4. ASSUME UNCHANGED <<vars, command, obs, todo, current, pc, source, files, ghosts>>,
             \/ /\ rpc = "confirmFinal" /\ ObserveFinal(current) = "match"
                /\ \/ rpc' = "succeed" /\ obs.decision = "AdoptFinal"
                   \/ rpc' = "confirmTemp"
             \/ rpc = "confirmTemp" /\ rpc' = "unlink"
             \/ /\ rpc = "recheck" /\ rpc' = "flush"
                /\ ObserveTemp(current, active[current]) = "match"
      PROVE  CPInv'
  <2>1. ObsOK' /\ rpc' \in RecoveryStep \ {"idle"}
    BY <1>4, CPFacts DEF ObsOK, RecoveryStep
  <2>2. RecoveryHas'
    BY <1>1, <1>2, <1>4, ObserveFacts, CPFacts
    DEF RecoveryHas, Publishing, HasReceipt, vars, files, ghosts
  <2> QED BY <1>1, <1>4, <2>1, <2>2, RecoveryGoesOn
<1> QED BY <1>3, <1>4 DEF ConfirmFinal, ConfirmTemp, RecheckTemp, RStep

\* A call of resume fails.
LEMMA ResumeIoErrorKeeps ==
    ASSUME CPInv, RowInv', ResumeIoError
    PROVE  CPInv'
<1>1. faults' \in 0 .. MaxFaults
  BY FaultFacts DEF ResumeIoError
<1> QED BY <1>1, RecoveryEnds DEF ResumeIoError

\* Resume takes up a task of its list, or reports an error and drops it.
LEMMA ResumeTaskKeeps ==
    ASSUME CPInv, RowInv', NEW t \in Task, ResumeTask(t)
    PROVE  CPInv'
<1> USE DEF files, vars, ghosts
<1>1. /\ proc = "resume" /\ current = NoTask /\ t \in todo
      /\ UNCHANGED <<vars, proc, held, producer, obs, pc, source, files, ghosts>>
      /\ \/ todo' = todo \ {t} /\ failed' = TRUE /\ UNCHANGED <<current, rpc>>
         \/ todo' = todo /\ current' = t /\ rpc' = "source" /\ UNCHANGED failed
  BY DEF ResumeTask
<1>2. t # NoTask /\ rpc = "idle"
  BY <1>1, TaskAssumption, CPFacts DEF NoTask, OneCommand
<1>3. CPTypeOK' /\ ObsOK'
  <2>1. failed' \in BOOLEAN
    BY <1>1, CPFacts, Zenon DEF CPTypeOK
  <2> QED BY <1>1, <2>1, CPFacts DEF CPTypeOK, ObsOK, RecoveryStep, RowInv
<1>4. OneCommand'
  BY <1>1, <1>2, CPFacts DEF OneCommand
<1>5. OnRunning' /\ MigrateOwnsRunning'
  BY <1>1, CPFacts DEF OnRunning, MigrateOwnsRunning, HasReceipt
<1>6. NamesKnown' /\ FinalsSynced' /\ WorkerHas'
  BY <1>1, CPFacts DEF NamesKnown, FinalsSynced, WorkerHas
<1>7. RecoveryHas' /\ SucceededHas' /\ EvidenceHas'
  BY <1>1, <1>2, CPFacts DEF RecoveryHas, Publishing, SucceededHas, EvidenceHas, HasReceipt
<1> QED BY <1>3, <1>4, <1>5, <1>6, <1>7 DEF CPInv

\* Resume changes names or bytes of its task and keeps those of the others.
LEMMA RecoveryFiles ==
    ASSUME CPInv, RowInv', rpc # "idle", rpc' \in RecoveryStep \ {"idle"},
           UNCHANGED <<vars, command, todo, current, obs, pc, source, root, ghosts>>,
           dir' \in [Task -> DirState], disk' \in [Task -> SUBSET DirState],
           data' \in [Task -> [Attempt -> DataState]],
           \A u \in Task : u # current =>
               dir'[u] = dir[u] /\ disk'[u] \subseteq disk[u] /\ data'[u] = data[u],
           NamesKnown', FinalsSynced', RecoveryHas',
           HasReceipt(current) /\ ~tampered[current] /\ ~powerLost =>
               \/ dir'[current].final # NoFile
               \/ /\ active[current] \in dir'[current].temp
                  /\ data'[current][active[current]] = "synced"
    PROVE  CPInv'
<1> USE DEF vars, command, ghosts
<1>1. /\ current \in Task /\ state[current] = "Running" /\ proc = "resume"
      /\ \A t \in Task : pc[t] = "idle"
  BY CurrentFacts, CPFacts DEF OneCommand
<1>2. CPTypeOK' /\ ObsOK'
  BY CPFacts DEF CPTypeOK, ObsOK, RowInv
<1>3. OneCommand' /\ OnRunning' /\ MigrateOwnsRunning'
  BY CPFacts DEF OneCommand, OnRunning, MigrateOwnsRunning, HasReceipt
<1>4. WorkerHas'
  BY <1>1 DEF WorkerHas
<1>5. SucceededHas'
  BY <1>1, CPFacts DEF SucceededHas
<1>6. EvidenceHas'
  <2>1. ASSUME NEW u \in Task, state[u] = "Running", HasReceipt(u), ~tampered[u], ~powerLost
        PROVE  \/ dir'[u].final # NoFile
               \/ active[u] \in dir'[u].temp /\ data'[u][active[u]] = "synced"
    BY <2>1, CPFacts DEF EvidenceHas
  <2> QED BY <2>1 DEF EvidenceHas, HasReceipt
<1> QED BY <1>2, <1>3, <1>4, <1>5, <1>6 DEF CPInv

\* The temporary file of an attempt is removed only when its final has been confirmed.
LEMMA UnlinkTempKeeps ==
    ASSUME CPInv, RowInv', UnlinkTemp
    PROVE  CPInv'
<1> USE DEF files, ghosts
<1>1. PICK t \in Task : t = current
  BY CurrentFacts DEF UnlinkTemp
<1>2. rpc = "unlink" /\ UNCHANGED <<vars, pc, source, root, data, ghosts>>
  BY DEF UnlinkTemp
<1>3. CASE NextTask(TRUE) /\ UNCHANGED <<dir, disk>>
  <2>1. faults' \in 0 .. MaxFaults
    BY <1>2, CPFacts DEF CPTypeOK
  <2> QED BY <1>2, <1>3, <2>1, RecoveryEnds
<1>4. CASE /\ ChangeDir(current, [dir[current] EXCEPT !.temp = @ \ {active[current]}])
           /\ RStep("fsync") /\ UNCHANGED <<obs, command>>
  <2>1. PICK d : d = [dir[t] EXCEPT !.temp = dir[t].temp \ {active[t]}]
    OBVIOUS
  <2>2. dir[t].temp \ {active[t]} \in SUBSET Attempt
    BY CPFacts DEF CPTypeOK, DirState
  <2>3. d \in DirState /\ d.final = dir[t].final
    BY <2>1, <2>2, TempNames
  <2>4. ChangeDir(t, d)
    BY <1>1, <1>4, <2>1
  <2>5. /\ dir' \in [Task -> DirState] /\ disk' \in [Task -> SUBSET DirState]
        /\ dir'[t] = d /\ disk'[t] = disk[t] \cup {d}
        /\ \A u \in Task : u # t => dir'[u] = dir[u] /\ disk'[u] = disk[u]
    BY <2>3, <2>4, ChangeDirFacts
  <2>6. /\ rpc' = "fsync" /\ UNCHANGED <<obs, command, todo, current>>
        /\ \A u \in Task : pc[u] = "idle"
    BY <1>2, <1>4, CurrentFacts, CPFacts DEF RStep, OneCommand
  <2>7. NamesKnown'
    BY <1>2, <2>3, <2>5, <2>6, CPFacts DEF NamesKnown, vars
  <2>8. FinalsSynced'
    BY <1>2, <2>3, <2>5, CPFacts DEF FinalsSynced, NamesKnown
  <2>9. RecoveryHas' /\ (~tampered[t] => dir'[t].final # NoFile)
    BY <1>1, <1>2, <2>3, <2>5, <2>6, CPFacts DEF RecoveryHas, Publishing, HasReceipt, vars
  <2>10. data' \in [Task -> [Attempt -> DataState]] /\ rpc' \in RecoveryStep \ {"idle"}
    BY <1>2, <2>6, CPFacts DEF CPTypeOK, RecoveryStep
  <2> QED
    BY <1>1, <1>2, <2>5, <2>6, <2>7, <2>8, <2>9, <2>10, RecoveryFiles
<1> QED BY <1>3, <1>4 DEF UnlinkTemp

\* fdatasync before the rename.
LEMMA ReflushKeeps ==
    ASSUME CPInv, RowInv', ReflushTemp
    PROVE  CPInv'
<1> USE DEF ghosts
<1>1. PICK t \in Task : t = current /\ state[t] = "Running"
  BY CurrentFacts DEF ReflushTemp
<1>2. PICK a \in Attempt : a = active[t]
  BY <1>1, RunningFacts
<1>3. PICK v \in DataState : v = IF data[t][a] = "cached" THEN "synced" ELSE data[t][a]
  BY <1>2, CPFacts DEF CPTypeOK, DataState
<1>4. /\ rpc = "flush" /\ rpc' = "rename" /\ data' = [data EXCEPT ![t][a] = v]
      /\ UNCHANGED <<vars, command, obs, todo, current, pc, source, root, dir, disk, ghosts>>
  BY <1>1, <1>2, <1>3 DEF ReflushTemp, RStep
<1>5. /\ data' \in [Task -> [Attempt -> DataState]] /\ data'[t][a] = v
      /\ \A u \in Task, b \in Attempt : u # t \/ b # a => data'[u][b] = data[u][b]
  BY <1>4, SetDataFacts
<1>6. \A u \in Task : u # t => data'[u] = data[u]
  BY <1>4, CPFacts DEF CPTypeOK
<1>7. \A u \in Task, b \in Attempt : data[u][b] = "synced" => data'[u][b] = "synced"
  BY <1>3, <1>5
<1>8. NamesKnown'
  BY <1>4, CPFacts DEF NamesKnown, vars
<1>9. FinalsSynced'
  BY <1>4, <1>7, CPFacts DEF FinalsSynced
<1>10. RecoveryHas'
  BY <1>1, <1>2, <1>3, <1>4, <1>5, CPFacts DEF RecoveryHas, Publishing, HasReceipt, vars
<1>11. HasReceipt(t) /\ ~tampered[t] /\ ~powerLost =>
           dir'[t].final # NoFile \/ (active[t] \in dir'[t].temp /\ data'[t][active[t]] = "synced")
  BY <1>1, <1>2, <1>4, <1>7, CPFacts DEF EvidenceHas
<1>12. /\ dir' \in [Task -> DirState] /\ disk' \in [Task -> SUBSET DirState]
       /\ rpc' \in RecoveryStep \ {"idle"}
  BY <1>4, CPFacts DEF CPTypeOK, RecoveryStep
<1> QED
  BY <1>1, <1>4, <1>5, <1>6, <1>8, <1>9, <1>10, <1>11, <1>12, RecoveryFiles

\* The rename: synced bytes appear under a final name that was free.
LEMMA RenameKeeps ==
    ASSUME CPInv, RowInv', RenameNoReplace
    PROVE  CPInv'
<1> USE DEF files, ghosts
<1>1. PICK t \in Task : t = current /\ state[t] = "Running"
  BY CurrentFacts DEF RenameNoReplace
<1>2. PICK a \in Attempt : a = active[t] /\ a = attempts[t]
  BY <1>1, RunningFacts
<1>3. rpc = "rename" /\ UNCHANGED <<vars, pc, source, root, data, ghosts>>
  BY DEF RenameNoReplace
<1>4. CASE NextTask(TRUE) /\ UNCHANGED <<dir, disk>>
  <2>1. faults' \in 0 .. MaxFaults
    BY <1>3, CPFacts DEF CPTypeOK
  <2> QED BY <1>3, <1>4, <2>1, RecoveryEnds
<1>5. CASE /\ ChangeDir(t, [temp |-> dir[t].temp \ {a}, final |-> a])
           /\ RStep("fsync") /\ UNCHANGED <<obs, command>>
  <2>1. PICK d : d = [temp |-> dir[t].temp \ {a}, final |-> a]
    OBVIOUS
  <2>2. a \in Inode /\ a # NoFile /\ a \in Nat
    BY <1>2, BoundsAssumption DEF Attempt, Inode, NoFile, Twin
  <2>3. d \in DirState /\ d.final = a
    BY <2>1, <2>2, CPFacts DEF CPTypeOK, DirState
  <2>4. /\ dir' \in [Task -> DirState] /\ disk' \in [Task -> SUBSET DirState]
        /\ dir'[t] = d /\ disk'[t] = disk[t] \cup {d}
        /\ \A u \in Task : u # t => dir'[u] = dir[u] /\ disk'[u] = disk[u]
    BY <1>5, <2>1, <2>3, ChangeDirFacts
  <2>5. /\ rpc' = "fsync" /\ UNCHANGED <<obs, command, todo, current>>
        /\ \A u \in Task : pc[u] = "idle"
    BY <1>3, <1>5, CurrentFacts, CPFacts DEF RStep, OneCommand
  <2>6. NamesKnown'
    BY <1>2, <1>3, <2>2, <2>3, <2>4, <2>5, CPFacts DEF NamesKnown, vars
  <2>7. FinalsSynced'
    <3>1. ~tampered[t] => data[t][a] = "synced"
      BY <1>1, <1>2, <1>3, CPFacts DEF RecoveryHas, Publishing
    <3> QED BY <1>2, <1>3, <2>3, <2>4, <3>1, CPFacts DEF FinalsSynced
  <2>8. RecoveryHas' /\ dir'[t].final # NoFile
    BY <1>1, <1>3, <2>2, <2>3, <2>4, <2>5, CPFacts DEF RecoveryHas, Publishing, HasReceipt, vars
  <2>9. data' \in [Task -> [Attempt -> DataState]] /\ rpc' \in RecoveryStep \ {"idle"}
    BY <1>3, <2>5, CPFacts DEF CPTypeOK, RecoveryStep
  <2> QED
    BY <1>1, <1>3, <2>4, <2>5, <2>6, <2>7, <2>8, <2>9, RecoveryFiles
<1> QED BY <1>1, <1>2, <1>4, <1>5 DEF RenameNoReplace

\* FsyncDirectory leaves one possible content of the directory.
LEMMA SyncTargetKeeps ==
    ASSUME CPInv, RowInv', SyncTarget
    PROVE  CPInv'
<1> USE DEF ghosts
<1>1. PICK t \in Task : t = current
  BY CurrentFacts DEF SyncTarget
<1>2. /\ rpc = "fsync" /\ rpc' = "succeed" /\ disk' = [u \in Task |-> {dir[u]}]
      /\ UNCHANGED <<vars, command, obs, todo, current, pc, source, root, dir, data, ghosts>>
  BY DEF SyncTarget, FsyncDirectory, RStep
<1>3. \A u \in Task : disk'[u] = {dir[u]} /\ disk'[u] \subseteq disk[u]
  BY <1>2, CPFacts DEF NamesKnown
<1>4. NamesKnown' /\ FinalsSynced'
  BY <1>2, <1>3, CPFacts DEF NamesKnown, FinalsSynced, vars
<1>5. RecoveryHas' /\ (~tampered[t] => dir'[t].final # NoFile)
  BY <1>1, <1>2, <1>3, CPFacts DEF RecoveryHas, Publishing, HasReceipt, vars
<1>6. /\ dir' \in [Task -> DirState] /\ disk' \in [Task -> SUBSET DirState]
      /\ data' \in [Task -> [Attempt -> DataState]] /\ rpc' \in RecoveryStep \ {"idle"}
  BY <1>2, CPFacts DEF CPTypeOK, RecoveryStep
<1> QED BY <1>1, <1>2, <1>3, <1>4, <1>5, <1>6, RecoveryFiles

\* RecoverSucceeded.
LEMMA PublishKeeps ==
    ASSUME CPInv, RowInv', Publish
    PROVE  CPInv'
<1> USE DEF files
<1>1. PICK t \in Task : t = current /\ state[t] = "Running" /\ active[t] = attempts[t]
  BY CurrentFacts, RunningFacts DEF Publish
<1>2. /\ rpc = "succeed" /\ todo' = todo \ {t} /\ current' = NoTask /\ rpc' = "idle"
      /\ obs' = NoObs /\ failed' = (failed \/ FALSE) /\ UNCHANGED <<proc, held, producer>>
      /\ UNCHANGED <<pc, source, files, tampered, powerLost, rootLost, faults>>
      /\ UNCHANGED <<attempts, receipt>> /\ how' = [how EXCEPT ![t] = obs.decision]
      /\ state' = [state EXCEPT ![t] = "Succeeded"] /\ active' = [active EXCEPT ![t] = 0]
      /\ owner' = [owner EXCEPT ![t] = 0]
  BY <1>1 DEF Publish, NextTask, RecoverSucceeded, RecoverTask
<1>3. /\ receipt[t][attempts[t]] # NoReceipt /\ obs.decision \in PublishingDecision
      /\ ~tampered[t] => dir[t].final # NoFile
      /\ ~tampered[t] /\ obs.decision # "AdoptFinal" => \A d \in disk[t] : d.final # NoFile
  BY <1>1, <1>2, CPFacts DEF RecoveryHas, Publishing, HasReceipt
<1>4. /\ state'[t] = "Succeeded" /\ how'[t] = obs.decision
      /\ how' \in [Task -> ReconcileAction \cup {"none"}]
      /\ \A u \in Task : u # t => /\ state'[u] = state[u] /\ active'[u] = active[u]
                                  /\ owner'[u] = owner[u] /\ how'[u] = how[u]
  BY <1>2, <1>3, CPFacts DEF TypeOK, CPTypeOK, PublishingDecision, ReconcileAction
<1>5. proc = "resume" /\ \A u \in Task : pc[u] = "idle"
  BY <1>2, CurrentFacts, CPFacts DEF OneCommand
<1>6. CPTypeOK' /\ ObsOK'
  <2>1. failed' \in BOOLEAN
    BY <1>2, CPFacts, Zenon DEF CPTypeOK
  <2>2. rpc' \in RecoveryStep /\ todo' \subseteq Task /\ current' \in Task \cup {NoTask}
    BY <1>2, CPFacts DEF CPTypeOK, RecoveryStep
  <2> QED BY <1>2, <1>4, <2>1, <2>2, NoObsFacts, CPFacts DEF CPTypeOK, RowInv
<1>7. OneCommand' /\ OnRunning' /\ MigrateOwnsRunning'
  <2>1. OneCommand' /\ MigrateOwnsRunning'
    BY <1>2, <1>5, CPFacts DEF OneCommand, MigrateOwnsRunning
  <2>2. OnRunning'
    BY <1>2, <1>4, <1>5, CPFacts DEF OnRunning, CPTypeOK
  <2> QED BY <2>1, <2>2
<1>8. NamesKnown' /\ FinalsSynced' /\ WorkerHas' /\ RecoveryHas'
  BY <1>2, <1>5, CPFacts DEF NamesKnown, FinalsSynced, WorkerHas, RecoveryHas, Publishing
<1>9. SucceededHas'
  BY <1>2, <1>3, <1>4, CPFacts DEF SucceededHas
<1>10. EvidenceHas'
  BY <1>2, <1>4, CPFacts DEF EvidenceHas, HasReceipt
<1> QED BY <1>6, <1>7, <1>8, <1>9, <1>10 DEF CPInv

---------------------------------------------------------------------------
(* Exit, faults and the user.                                              *)

\* Resume ends.
LEMMA ResumeExitKeeps ==
    ASSUME CPInv, RowInv', ResumeExit
    PROVE  CPInv'
<1> USE DEF recovery, files, vars, ghosts
<1>1. /\ proc = "resume" /\ current = NoTask /\ todo = {} /\ proc' = "none"
      /\ UNCHANGED <<vars, held, producer, failed, recovery, pc, source, files, ghosts>>
  BY DEF ResumeExit
<1>2. CPTypeOK' /\ ObsOK'
  BY <1>1, CPFacts DEF CPTypeOK, ObsOK, RowInv
<1>3. OneCommand' /\ OnRunning' /\ MigrateOwnsRunning'
  BY <1>1, CPFacts DEF OneCommand, OnRunning, MigrateOwnsRunning, HasReceipt
<1>4. NamesKnown' /\ FinalsSynced' /\ WorkerHas'
  BY <1>1, CPFacts DEF NamesKnown, FinalsSynced, WorkerHas
<1>5. RecoveryHas' /\ SucceededHas' /\ EvidenceHas'
  BY <1>1, CPFacts DEF RecoveryHas, SucceededHas, EvidenceHas, HasReceipt
<1> QED BY <1>2, <1>3, <1>4, <1>5 DEF CPInv

\* What a process leaves behind when it dies, whatever becomes of the files: no worker,
\* no recovery and no lock.
LEMMA DiedFacts ==
    ASSUME CPInv, RowInv', Died, Fault, UNCHANGED <<vars, source, how, tampered>>,
           root' \in {"missing", "volatile", "durable"},
           dir' \in [Task -> DirState], disk' \in [Task -> SUBSET DirState],
           data' \in [Task -> [Attempt -> DataState]],
           powerLost' \in BOOLEAN, rootLost' \in BOOLEAN
    PROVE  /\ CPTypeOK' /\ ObsOK' /\ OneCommand' /\ OnRunning' /\ MigrateOwnsRunning'
           /\ WorkerHas' /\ RecoveryHas'
<1> USE DEF vars
<1>1. /\ proc' = "none" /\ producer' = "done" /\ failed' = FALSE /\ held' = 0
      /\ pc' = [t \in Task |-> "idle"]
      /\ todo' = {} /\ current' = NoTask /\ rpc' = "idle" /\ obs' = NoObs
  BY DEF Died
<1>2. faults' \in 0 .. MaxFaults /\ ObsOK'
  BY <1>1, FaultFacts, NoObsFacts
<1>3. failed' \in BOOLEAN
  BY <1>1, Zenon
<1>4. /\ proc' \in {"none", "migrate", "resume"} /\ held' \in Epoch
      /\ producer' \in {"starting", "checking", "claiming", "done"}
      /\ pc' \in [Task -> WorkerStep] /\ todo' \subseteq Task
      /\ current' \in Task \cup {NoTask} /\ rpc' \in RecoveryStep
  BY <1>1, BoundsAssumption DEF Epoch, WorkerStep, RecoveryStep
<1>5. CPTypeOK'
  BY <1>2, <1>3, <1>4, CPFacts DEF CPTypeOK, RowInv
<1>6. OneCommand' /\ OnRunning' /\ MigrateOwnsRunning'
  BY <1>1 DEF OneCommand, OnRunning, MigrateOwnsRunning
<1>7. WorkerHas' /\ RecoveryHas'
  BY <1>1 DEF WorkerHas, RecoveryHas, Publishing
<1> QED BY <1>2, <1>5, <1>6, <1>7

\* A kill leaves rows and files as they are.
LEMMA KillKeeps ==
    ASSUME CPInv, RowInv', Kill
    PROVE  CPInv'
<1>1. /\ Died /\ Fault
      /\ UNCHANGED <<vars, source, files, how, tampered, powerLost, rootLost>>
      /\ pc' = [t \in Task |-> "idle"]
  BY DEF Kill, Died
<1>2. /\ CPTypeOK' /\ ObsOK' /\ OneCommand' /\ OnRunning' /\ MigrateOwnsRunning'
      /\ WorkerHas' /\ RecoveryHas'
  <2>1. /\ root' \in {"missing", "volatile", "durable"}
        /\ dir' \in [Task -> DirState] /\ disk' \in [Task -> SUBSET DirState]
        /\ data' \in [Task -> [Attempt -> DataState]]
    BY <1>1, CPFacts DEF CPTypeOK, files
  <2>2. powerLost' \in BOOLEAN /\ rootLost' \in BOOLEAN
    BY <1>1, CPFacts DEF CPTypeOK
  <2> QED BY <1>1, <2>1, <2>2, DiedFacts
<1>3. NamesKnown' /\ FinalsSynced'
  BY <1>1, CPFacts DEF NamesKnown, FinalsSynced, files, vars
<1>4. SucceededHas' /\ EvidenceHas'
  BY <1>1, CPFacts DEF SucceededHas, EvidenceHas, HasReceipt, files, vars
<1> QED BY <1>2, <1>3, <1>4 DEF CPInv

\* After a power loss every name is one the disk could come back with, and what was
\* synced is still synced.
LEMMA PowerLossKeeps ==
    ASSUME CPInv, RowInv', PowerLoss
    PROVE  CPInv'
<1>1. /\ Died /\ Fault /\ UNCHANGED <<vars, source, how, tampered>>
      /\ powerLost' = TRUE /\ (rootLost' = TRUE \/ rootLost' = rootLost)
      /\ pc' = [t \in Task |-> "idle"]
  BY DEF PowerLoss, Died
<1>2. /\ data' \in [Task -> [Attempt -> DataState]]
      /\ \A t \in Task, a \in Attempt : data[t][a] = "synced" => data'[t][a] = "synced"
  <2>1. data \in [Task -> [Attempt -> DataState]]
    BY CPFacts DEF CPTypeOK
  <2>2. data' = [t \in Task |-> [a \in Attempt |->
                    IF data[t][a] = "cached" THEN "partial" ELSE data[t][a]]]
    BY DEF PowerLoss
  <2> QED BY <2>1, <2>2 DEF DataState
<1>3. PICK none : none = [temp |-> {}, final |-> NoFile]
  OBVIOUS
<1>4. none \in DirState /\ none.final = NoFile
  <2>1. NoFile \in Inode
    BY BoundsAssumption DEF Inode, NoFile, Twin
  <2> QED BY <1>3, <2>1 DEF DirState
<1>5. /\ dir' \in [Task -> DirState] /\ root' \in {"missing", "volatile", "durable"}
      /\ \A t \in Task : dir'[t] \in disk[t] \/ (rootLost' = TRUE /\ dir'[t] = none)
  <2>1. root \in {"missing", "volatile", "durable"} /\ disk \in [Task -> SUBSET DirState]
    BY CPFacts DEF CPTypeOK
  <2>2. CASE /\ root' = "missing" /\ rootLost' = TRUE /\ dir' = [t \in Task |-> none]
    BY <1>4, <2>2
  <2>3. CASE /\ root' = IF root = "volatile" THEN "durable" ELSE root
             /\ dir' \in [Task -> UNION {disk[t] : t \in Task}]
             /\ \A t \in Task : dir'[t] \in disk[t]
    <3>1. \A t \in Task : dir'[t] \in DirState
      BY <2>1, <2>3
    <3> QED BY <2>1, <2>3, <3>1
  <2> QED BY <1>3, <2>2, <2>3 DEF PowerLoss
<1>6. disk' = [t \in Task |-> {dir'[t]}]
  BY DEF PowerLoss
<1>7. disk' \in [Task -> SUBSET DirState] /\ \A t \in Task : disk'[t] = {dir'[t]}
  BY <1>5, <1>6
<1>8. /\ CPTypeOK' /\ ObsOK' /\ OneCommand' /\ OnRunning' /\ MigrateOwnsRunning'
      /\ WorkerHas' /\ RecoveryHas'
  <2>1. powerLost' \in BOOLEAN /\ rootLost' \in BOOLEAN
    BY <1>1, CPFacts, Zenon DEF CPTypeOK
  <2> QED BY <1>1, <1>2, <1>5, <1>7, <2>1, DiedFacts
<1>9. NoFile \notin Attempt
  BY BoundsAssumption DEF NoFile, Attempt
<1>10. NamesKnown'
  BY <1>1, <1>4, <1>5, <1>7, <1>9, CPFacts DEF NamesKnown, vars
<1>11. FinalsSynced'
  BY <1>1, <1>2, <1>4, <1>5, <1>7, CPFacts DEF FinalsSynced
<1>12. SucceededHas'
  BY <1>1, <1>5, <1>7, CPFacts DEF SucceededHas, vars
<1>13. EvidenceHas'
  BY <1>1 DEF EvidenceHas
<1> QED BY <1>8, <1>10, <1>11, <1>12, <1>13 DEF CPInv

\* A call of a worker fails.
LEMMA WorkerIoErrorKeeps ==
    ASSUME CPInv, RowInv', NEW t \in Task, WorkerIoError(t)
    PROVE  CPInv'
<1> USE DEF recovery, files, vars
<1>1. PICK step \in {"idle", "failing"} :
          /\ pc' = [pc EXCEPT ![t] = step] /\ pc[t] # "idle"
          /\ step = "idle" => pc[t] = "failing"
  BY DEF WorkerIoError, Goto
<1>2. /\ UNCHANGED <<vars, proc, held, producer, recovery, source, files>>
      /\ UNCHANGED <<how, tampered, powerLost, rootLost>> /\ faults' \in 0 .. MaxFaults
  BY FaultFacts DEF WorkerIoError
<1>3. /\ pc' \in [Task -> WorkerStep] /\ pc'[t] = step
      /\ \A u \in Task : u # t => pc'[u] = pc[u]
  BY <1>1, CPFacts DEF CPTypeOK, WorkerStep
<1>4. failed' \in BOOLEAN /\ (failed => failed') /\ (step = "idle" => failed')
  <2>1. failed' = (failed \/ pc[t] = "failing")
    BY DEF WorkerIoError
  <2>2. failed' \in BOOLEAN
    BY <2>1, Zenon
  <2> QED BY <1>1, <2>1, <2>2, Zenon
<1>5. CPTypeOK' /\ ObsOK'
  BY <1>2, <1>3, <1>4, CPFacts DEF CPTypeOK, ObsOK, RowInv
<1>6. OneCommand' /\ OnRunning'
  BY <1>1, <1>2, <1>3, CPFacts DEF OneCommand, OnRunning, HasReceipt
<1>7. MigrateOwnsRunning'
  BY <1>1, <1>2, <1>3, <1>4, CPFacts DEF MigrateOwnsRunning, HasReceipt
<1>8. NamesKnown' /\ FinalsSynced' /\ WorkerHas'
  BY <1>1, <1>2, <1>3, CPFacts DEF NamesKnown, FinalsSynced, WorkerHas
<1>9. RecoveryHas' /\ SucceededHas' /\ EvidenceHas'
  BY <1>2, CPFacts DEF RecoveryHas, SucceededHas, EvidenceHas, HasReceipt
<1> QED BY <1>5, <1>6, <1>7, <1>8, <1>9 DEF CPInv

\* The source of a task changes.
LEMMA SourceChangesKeeps ==
    ASSUME CPInv, RowInv', NEW t \in Task, SourceChanges(t)
    PROVE  CPInv'
<1> USE DEF recovery, files, vars, command
<1>1. /\ source' \in [Task -> {"intact", "changed", "gone"}] /\ faults' \in 0 .. MaxFaults
      /\ UNCHANGED <<vars, command, pc, recovery, files>>
      /\ UNCHANGED <<how, tampered, powerLost, rootLost>>
  BY FaultFacts, CPFacts DEF SourceChanges, CPTypeOK
<1>2. CPTypeOK' /\ ObsOK'
  BY <1>1, CPFacts DEF CPTypeOK, ObsOK, RowInv
<1>3. OneCommand' /\ OnRunning' /\ MigrateOwnsRunning'
  BY <1>1, CPFacts DEF OneCommand, OnRunning, MigrateOwnsRunning, HasReceipt
<1>4. NamesKnown' /\ FinalsSynced' /\ WorkerHas'
  BY <1>1, CPFacts DEF NamesKnown, FinalsSynced, WorkerHas
<1>5. RecoveryHas' /\ SucceededHas' /\ EvidenceHas'
  BY <1>1, CPFacts DEF RecoveryHas, SucceededHas, EvidenceHas, HasReceipt
<1> QED BY <1>2, <1>3, <1>4, <1>5 DEF CPInv

\* An edit of the user changes names or bytes of one task and never puts the file of an
\* attempt under the final name.
LEMMA UserEditsKeeps ==
    ASSUME CPInv, RowInv', NEW t \in Task, UserEdits(t)
    PROVE  CPInv'
<1> USE DEF recovery, vars, command
<1>1. /\ tampered' = [tampered EXCEPT ![t] = TRUE] /\ faults' \in 0 .. MaxFaults
      /\ UNCHANGED <<vars, command, pc, recovery, source, root, how, powerLost, rootLost>>
  BY FaultFacts DEF UserEdits
<1>2. /\ tampered' \in [Task -> BOOLEAN] /\ tampered'[t]
      /\ \A u \in Task : u # t => tampered'[u] = tampered[u]
  BY <1>1, CPFacts, Zenon DEF CPTypeOK
<1>3. /\ dir' \in [Task -> DirState] /\ disk' \in [Task -> SUBSET DirState]
      /\ data' \in [Task -> [Attempt -> DataState]] /\ dir'[t] \in disk'[t]
      /\ \A d \in disk'[t] : d \in disk[t] \/ d.final = dir[t].final \/ d.final \notin Attempt
      /\ \A u \in Task : u # t => dir'[u] = dir[u] /\ disk'[u] = disk[u] /\ data'[u] = data[u]
  <2>0. /\ dir \in [Task -> DirState] /\ disk \in [Task -> SUBSET DirState]
        /\ data \in [Task -> [Attempt -> DataState]] /\ dir[t] \in disk[t]
    BY CPFacts DEF CPTypeOK, NamesKnown
  <2>1. CASE \E d \in DirState : /\ ChangeDir(t, d) /\ UNCHANGED data
                                 /\ d.final = dir[t].final \/ d.final \notin Attempt
    <3>1. PICK d \in DirState : /\ ChangeDir(t, d) /\ UNCHANGED data
                                /\ d.final = dir[t].final \/ d.final \notin Attempt
      BY <2>1
    <3> QED BY <2>0, <3>1, ChangeDirFacts
  <2>2. CASE /\ \E a \in Attempt : data' = [data EXCEPT ![t][a] = "altered"]
             /\ UNCHANGED <<dir, disk>>
    BY <2>0, <2>2 DEF DataState
  <2>3. ASSUME NEW a \in dir[t].temp, ChangeDir(t, [dir[t] EXCEPT !.temp = @ \ {a}])
        PROVE  \E d \in DirState : ChangeDir(t, d) /\ d.final = dir[t].final
    <3>1. dir[t].temp \ {a} \in SUBSET Attempt
      BY <2>0 DEF DirState
    <3> QED BY <2>3, <3>1, TempNames
  <2>4. NoFile \in Inode /\ Foreign \in Inode /\ Twin \in Inode
        /\ NoFile \notin Attempt /\ Foreign \notin Attempt /\ Twin \notin Attempt
    BY BoundsAssumption DEF NoFile, Foreign, Twin, Inode, Attempt
  <2>5. ASSUME NEW f \in {NoFile, Foreign, Twin}, ChangeDir(t, [dir[t] EXCEPT !.final = f])
        PROVE  \E d \in DirState : ChangeDir(t, d) /\ d.final \notin Attempt
    BY <2>4, <2>5, FinalNames
  <2>6. dir[t].temp \cup ({dir[t].final} \cap Attempt) \subseteq Attempt
    BY <2>0 DEF DirState
  <2> QED BY <2>1, <2>2, <2>3, <2>5, <2>6 DEF UserEdits
<1>4. CPTypeOK' /\ ObsOK'
  BY <1>1, <1>2, <1>3, CPFacts DEF CPTypeOK, ObsOK, RowInv
<1>5. OneCommand' /\ OnRunning' /\ MigrateOwnsRunning'
  BY <1>1, CPFacts DEF OneCommand, OnRunning, MigrateOwnsRunning, HasReceipt
<1>6. NamesKnown'
  <2>1. pc[t] # "idle" => active[t] \in Attempt
    BY CPFacts, RunningFacts DEF OnRunning
  <2> QED BY <1>1, <1>3, <2>1, CPFacts DEF NamesKnown
<1>7. FinalsSynced'
  BY <1>2, <1>3, CPFacts DEF FinalsSynced
<1>8. WorkerHas'
  BY <1>1, <1>2, <1>3, CPFacts DEF WorkerHas
<1>9. RecoveryHas'
  <2>1. rpc \in Publishing => current \in Task
    BY CurrentFacts DEF Publishing
  <2> QED BY <1>1, <1>2, <1>3, <2>1, CPFacts DEF RecoveryHas, HasReceipt
<1>10. SucceededHas' /\ EvidenceHas'
  BY <1>1, <1>2, <1>3, CPFacts DEF SucceededHas, EvidenceHas, HasReceipt
<1> QED BY <1>4, <1>5, <1>6, <1>7, <1>8, <1>9, <1>10 DEF CPInv

\* A step that changes nothing.
LEMMA StutterKeeps ==
    ASSUME CPInv, RowInv', UNCHANGED allVars
    PROVE  CPInv'
<1> USE DEF allVars, vars, command, recovery, files, ghosts
<1>1. CPTypeOK' /\ ObsOK'
  BY CPFacts DEF CPTypeOK, ObsOK, RowInv
<1>2. OneCommand' /\ OnRunning' /\ MigrateOwnsRunning'
  BY CPFacts DEF OneCommand, OnRunning, MigrateOwnsRunning, HasReceipt
<1>3. NamesKnown' /\ FinalsSynced' /\ WorkerHas'
  BY CPFacts DEF NamesKnown, FinalsSynced, WorkerHas
<1>4. RecoveryHas' /\ SucceededHas' /\ EvidenceHas'
  BY CPFacts DEF RecoveryHas, SucceededHas, EvidenceHas, HasReceipt
<1> QED BY <1>1, <1>2, <1>3, <1>4 DEF CPInv

---------------------------------------------------------------------------
(* Every step keeps the invariant.                                         *)

\* The steps of a worker that touch no row.
LEMMA WorkerStepKeeps ==
    ASSUME CPInv, RowInv', NEW t \in Task,
           \/ OpenSource(t) \/ OpenTargetRoot(t) \/ RefuseNested(t) \/ CreateTemp(t)
           \/ BeginCopy(t) \/ EndCopy(t) \/ FlushTemp(t) \/ VerifyTemp(t)
    PROVE  CPInv'
<1> USE DEF command, recovery, ghosts, files
<1>0. /\ pc[t] # "idle" /\ UNCHANGED <<vars, command, recovery, source, ghosts>>
      /\ root \in {"missing", "volatile", "durable"}
  BY CPFacts
  DEF CPTypeOK, OpenSource, OpenTargetRoot, RefuseNested, CreateTemp, BeginCopy, EndCopy,
      FlushTemp, VerifyTemp, WorkerOnly
<1>1. PICK a \in Attempt : a = active[t]
  BY <1>0, CPFacts, RunningFacts DEF OnRunning
<1>d. data \in [Task -> [Attempt -> DataState]] /\ dir \in [Task -> DirState]
  BY CPFacts DEF CPTypeOK
<1>2. ASSUME NEW step \in {"opened", "failing", "rooted"}, Goto(t, step),
             UNCHANGED <<dir, disk, data>>, root' \in {"missing", "volatile", "durable"}
      PROVE  CPInv'
  BY <1>0, <1>2, WorkerKeeps DEF WorkerStep
<1>3. ASSUME NEW step \in {"reading", "verified"}, Goto(t, step), UNCHANGED files,
             step = "reading" => pc[t] = "created", step = "verified" => pc[t] = "written"
      PROVE  CPInv'
  <2>1. ~tampered[t] =>
            /\ active[t] \in dir'[t].temp
            /\ step = "verified" => data'[t][active[t]] = "synced"
    BY <1>3, CPFacts DEF WorkerHas
  <2> QED BY <1>0, <1>3, <2>1, WorkerKeeps DEF WorkerStep
<1>4. ASSUME OpenSource(t) \/ OpenTargetRoot(t) \/ RefuseNested(t) PROVE CPInv'
  <2>1. /\ \E step \in {"opened", "failing", "rooted"} : Goto(t, step)
        /\ UNCHANGED <<dir, disk, data>> /\ root' \in {"missing", "volatile", "durable"}
    BY <1>0, <1>4 DEF OpenSource, OpenTargetRoot, RefuseNested, WorkerOnly
  <2> QED BY <1>2, <2>1
<1>5. ASSUME BeginCopy(t) \/ VerifyTemp(t) PROVE CPInv'
  <2>1. /\ UNCHANGED files
        /\ \/ Goto(t, "failing")
           \/ pc[t] = "created" /\ Goto(t, "reading")
           \/ pc[t] = "written" /\ Goto(t, "verified")
    BY <1>5 DEF BeginCopy, VerifyTemp, WorkerOnly
  <2> QED BY <1>0, <1>2, <1>3, <2>1
<1>6. ASSUME CreateTemp(t) PROVE CPInv'
  <2>1. CASE Goto(t, "failing") /\ UNCHANGED <<dir, disk, data>>
    BY <1>0, <1>2, <1>6, <2>1 DEF CreateTemp
  <2>2. CASE /\ Goto(t, "created")
             /\ ChangeDir(t, [dir[t] EXCEPT !.temp = @ \cup {active[t]}])
             /\ data' = [data EXCEPT ![t][active[t]] = "partial"]
    <3>1. a \in dir'[t].temp
      <4>1. dir[t].temp \cup {a} \in SUBSET Attempt
        BY <1>d DEF DirState
      <4>2. dir'[t] = [dir[t] EXCEPT !.temp = dir[t].temp \cup {a}]
        BY <1>1, <1>d, <2>2 DEF ChangeDir
      <4> QED BY <4>1, <4>2, TempNames
    <3>2. root' \in {"missing", "volatile", "durable"} /\ "partial" \in DataState
      BY <1>0, <1>6 DEF CreateTemp, DataState
    <3> QED BY <1>0, <1>1, <2>2, <3>1, <3>2, WorkerKeeps DEF WorkerStep
  <2> QED BY <1>6, <2>1, <2>2 DEF CreateTemp
<1>7. ASSUME NEW step \in {"copied", "flushed"}, NEW v \in DataState, Goto(t, step),
             data' = [data EXCEPT ![t][active[t]] = v], UNCHANGED <<root, dir, disk>>,
             pc[t] \in {"reading", "copied"},
             ~tampered[t] => /\ step = "copied" => v = "cached"
                             /\ step = "flushed" => v = "synced"
      PROVE  CPInv'
  <2>1. data'[t][active[t]] = v
    BY <1>1, <1>7, SetDataFacts
  <2>2. ~tampered[t] => active[t] \in dir'[t].temp
    BY <1>7, CPFacts DEF WorkerHas
  <2> QED BY <1>0, <1>7, <2>1, <2>2, WorkerKeeps DEF WorkerStep
<1>8. ASSUME EndCopy(t) PROVE CPInv'
  <2>1. CASE Goto(t, "failing") /\ UNCHANGED data
    BY <1>0, <1>2, <1>8, <2>1 DEF EndCopy
  <2>2. CASE Goto(t, "copied") /\ data' = [data EXCEPT ![t][active[t]] = "cached"]
    BY <1>7, <1>8, <2>2 DEF EndCopy, DataState
  <2> QED BY <1>8, <2>1, <2>2 DEF EndCopy
<1>9. ASSUME FlushTemp(t) PROVE CPInv'
  <2>1. PICK v \in DataState : v = IF data[t][a] = "cached" THEN "synced" ELSE data[t][a]
    BY <1>d DEF DataState
  <2>2. /\ pc[t] = "copied" /\ Goto(t, "flushed") /\ UNCHANGED <<root, dir, disk>>
        /\ data' = [data EXCEPT ![t][active[t]] = v]
    BY <1>1, <1>9, <2>1 DEF FlushTemp
  <2>3. ~tampered[t] => v = "synced"
    BY <1>1, <2>1, <2>2, CPFacts DEF WorkerHas
  <2> QED BY <1>7, <2>2, <2>3
<1> QED BY <1>4, <1>5, <1>6, <1>8, <1>9

\* Steps of migrate's own thread, successful or not.
LEMMA ProducerStepKeeps ==
    ASSUME CPInv, RowInv',
           \/ MigrateNothingToDo \/ ProducerCheck \/ ProducerDone \/ MigrateExit
           \/ MigrateIoError
    PROVE  CPInv'
<1> USE DEF ghosts
<1>1. faults' \in 0 .. MaxFaults
  BY FaultFacts, CPFacts
  DEF CPTypeOK, MigrateNothingToDo, ProducerCheck, ProducerDone, MigrateExit, MigrateIoError
<1>2. /\ proc = "migrate" /\ UNCHANGED <<vars, held, failed, pc, recovery, source, files>>
      /\ UNCHANGED <<how, tampered, powerLost, rootLost>>
  BY DEF MigrateNothingToDo, ProducerCheck, ProducerDone, MigrateExit, MigrateIoError
<1>3. \/ proc' = "migrate" /\ producer # "starting"
         /\ producer' \in {"checking", "claiming", "done"}
      \/ proc' = "migrate" /\ producer' = "done"
      \/ proc' = "none" /\ producer' = "done" /\ \A t \in Task : pc[t] = "idle"
  BY DEF MigrateNothingToDo, ProducerCheck, ProducerDone, MigrateExit, MigrateIoError
<1> QED BY <1>1, <1>2, <1>3, ProducerKeeps

\* The inductive step.
LEMMA CPInvNext ==
    ASSUME CPInv, [CPNext]_allVars
    PROVE  CPInv'
<1>0. RowInv'
  BY TableStep, RowInvNext, CPFacts
<1>1. ASSUME MigrateBegin \/ (\E t \in Task : MigrateSetReady(t)) PROVE CPInv'
  BY <1>0, <1>1, ReadyKeeps
<1>2. ASSUME MigrateAcquire \/ ResumeBegin PROVE CPInv'
  BY <1>0, <1>2, AcquireKeeps
<1>3. ASSUME \/ MigrateNothingToDo \/ ProducerCheck \/ ProducerDone \/ MigrateExit
             \/ MigrateIoError
      PROVE  CPInv'
  BY <1>0, <1>3, ProducerStepKeeps
<1>4. ASSUME NEW t \in Task, ProducerClaim(t) PROVE CPInv'
  BY <1>0, <1>4, ProducerClaimKeeps
<1>5. ASSUME NEW t \in Task, Worker(t) PROVE CPInv'
  <2>1. CASE \/ OpenSource(t) \/ OpenTargetRoot(t) \/ RefuseNested(t) \/ CreateTemp(t)
             \/ BeginCopy(t) \/ EndCopy(t) \/ FlushTemp(t) \/ VerifyTemp(t)
    BY <1>0, <2>1, WorkerStepKeeps
  <2>2. CASE RecordIntent(t) \/ RecordTempWritten(t)
    BY <1>0, <2>2, ProgressKeeps DEF RecordIntent, RecordTempWritten
  <2>3. CASE StoreReceipt(t)
    BY <1>0, <2>3, StoreReceiptKeeps
  <2>4. CASE FailTask(t)
    BY <1>0, <2>4, FailTaskKeeps
  <2> QED BY <1>5, <2>1, <2>2, <2>3, <2>4 DEF Worker
<1>6. ASSUME Resume PROVE CPInv'
  <2>1. CASE ResumeObserve \/ ResumeDecide
    BY <1>0, <2>1, ResumeObserveKeeps, ResumeDecideKeeps
  <2>2. CASE ConfirmFinal \/ ConfirmTemp \/ RecheckTemp
    BY <1>0, <2>2, ConfirmKeeps
  <2>3. CASE UnlinkTemp \/ ReflushTemp \/ RenameNoReplace \/ SyncTarget
    BY <1>0, <2>3, UnlinkTempKeeps, ReflushKeeps, RenameKeeps, SyncTargetKeeps
  <2>4. CASE Publish \/ ResumeExit \/ (\E t \in Task : ResumeTask(t))
    BY <1>0, <2>4, PublishKeeps, ResumeExitKeeps, ResumeTaskKeeps
  <2> QED BY <1>6, <2>1, <2>2, <2>3, <2>4 DEF Resume
<1>7. ASSUME Environment PROVE CPInv'
  <2>1. CASE Kill \/ PowerLoss \/ ResumeIoError
    BY <1>0, <2>1, KillKeeps, PowerLossKeeps, ResumeIoErrorKeeps
  <2>2. ASSUME NEW t \in Task, WorkerIoError(t) \/ SourceChanges(t) \/ UserEdits(t)
        PROVE  CPInv'
    BY <1>0, <2>2, WorkerIoErrorKeeps, SourceChangesKeeps, UserEditsKeeps
  <2> QED BY <1>3, <1>7, <2>1, <2>2 DEF Environment
<1>8. ASSUME UNCHANGED allVars PROVE CPInv'
  BY <1>0, <1>8, StutterKeeps
<1> QED
  BY <1>1, <1>2, <1>3, <1>4, <1>5, <1>6, <1>7, <1>8 DEF CPNext, Migrate

---------------------------------------------------------------------------
(* The theorems.                                                           *)

\* The inductive invariant holds in every reachable state of the commands, faults and
\* edits of migration_service.cpp and recovery_service.cpp.
THEOREM CPInvariant == CPSpec => []CPInv
<1>1. CPInit => CPInv
  BY CPInvInit
<1>2. CPInv /\ [CPNext]_allVars => CPInv'
  BY CPInvNext
<1> QED BY <1>1, <1>2, PTL DEF CPSpec

\* Every variable of the protocol stays in its range.
THEOREM CPTypeCorrect == CPSpec => []CPTypeOK
<1>1. CPInv => CPTypeOK
  BY CPFacts
<1> QED BY <1>1, CPInvariant, PTL

\* migrate and resume, whatever fails around them, change the task tables only by the
\* operations of task_runtime_repository.cpp called as that module allows: CommitProtocol
\* implements TaskRuntime, and every theorem about the repository holds of the program.
THEOREM RuntimeUsed == CPSpec => UsesRuntimeCorrectly
<1>1. CPInit => Init
  BY DEF CPInit
<1>2. CPInv /\ [CPNext]_allVars => [Next]_vars
  BY TableStep
<1> QED BY <1>1, <1>2, CPInvariant, PTL DEF CPSpec, UsesRuntimeCorrectly, Spec

\* A migrate that runs owns every RUNNING task, and has a worker on it, a receipt for it
\* or an error to report.
THEOREM MigrateOwnsRunningSafe == CPSpec => []MigrateOwnsRunning
<1>1. CPInv => MigrateOwnsRunning
  BY CPFacts
<1> QED BY <1>1, CPInvariant, PTL

\* A final that nobody tampered with has the bytes of the planned source.
LEMMA FinalMatches ==
    ASSUME CPInv, NEW t \in Task, ~tampered[t], dir[t].final # NoFile
    PROVE  ObserveFinal(t) = "match"
<1>1. dir[t].final \in Attempt /\ data[t][dir[t].final] = "synced"
  BY CPFacts DEF NamesKnown, FinalsSynced
<1> QED BY <1>1 DEF ObserveFinal, Holds

\* SUCCEEDED is the truth: the attempt has a receipt, a publishing decision was taken,
\* and without a power loss or an edit the final has the bytes of the planned source.
THEOREM SucceededIsRightSafe == CPSpec => []SucceededIsRight
<1>1. ASSUME CPInv PROVE SucceededIsRight
  <2>1. SucceededWasVerified
    BY <1>1, CPFacts DEF SucceededHas, SucceededWasVerified, PublishingDecision
  <2>2. SucceededMatchesSource
    BY <1>1, CPFacts, FinalMatches DEF SucceededHas, SucceededMatchesSource
  <2> QED BY <2>1, <2>2 DEF SucceededIsRight
<1> QED BY <1>1, CPInvariant, PTL

\* Verified bytes are never lost: a RUNNING task with a receipt has them under one of its
\* names, and a task that resume published keeps them through every power loss that does
\* not take the target root.
THEOREM VerifiedBytesSurviveSafe == CPSpec => []VerifiedBytesSurvive
<1>1. ASSUME CPInv PROVE VerifiedBytesSurvive
  <2>1. PublishedIsDurable
    BY <1>1, CPFacts DEF SucceededHas, FinalsSynced, PublishedIsDurable
  <2>2. ASSUME NEW t \in Task, state[t] = "Running", HasReceipt(t), ~tampered[t], ~powerLost
        PROVE  "match" \in {ObserveTemp(t, active[t]), ObserveFinal(t)}
    <3>1. CASE dir[t].final # NoFile
      BY <1>1, <2>2, <3>1, FinalMatches
    <3>2. CASE active[t] \in dir[t].temp /\ data[t][active[t]] = "synced"
      <4>1. active[t] \in Attempt
        BY <1>1, <2>2, RunningFacts
      <4>2. ObserveTemp(t, active[t]) = "match"
        BY <3>2, <4>1 DEF ObserveTemp, Holds
      <4> QED BY <4>2
    <3> QED BY <1>1, <2>2, <3>1, <3>2, CPFacts DEF EvidenceHas
  <2>3. EvidenceKept
    BY <2>2 DEF EvidenceKept
  <2> QED BY <2>1, <2>3 DEF VerifiedBytesSurvive
<1> QED BY <1>1, CPInvariant, PTL

\* A step of a command, without a fault or an edit, keeps the final of a task.
LEMMA FinalKeptStep ==
    ASSUME CPInv, CPNext, NEW t \in Task, dir[t].final # NoFile, faults' = faults
    PROVE  dir'[t].final = dir[t].final
<1>0. dir \in [Task -> DirState] /\ faults \in Nat
  BY CPFacts, FaultAssumption DEF CPTypeOK
<1>1. CASE UNCHANGED dir
  BY <1>1
<1>2. ASSUME NEW u \in Task, NEW S \in SUBSET Attempt,
             ChangeDir(u, [dir[u] EXCEPT !.temp = S])
      PROVE  dir'[t].final = dir[t].final
  BY <1>0, <1>2, TempNames DEF ChangeDir
<1>3. ASSUME NEW u \in Task, CreateTemp(u) PROVE dir'[t].final = dir[t].final
  <2>1. active[u] \in Attempt
    BY <1>3, CPFacts, RunningFacts DEF CreateTemp, OnRunning
  <2>2. dir[u].temp \cup {active[u]} \in SUBSET Attempt
    BY <1>0, <2>1 DEF DirState
  <2>3. \/ UNCHANGED dir
        \/ ChangeDir(u, [dir[u] EXCEPT !.temp = dir[u].temp \cup {active[u]}])
    BY <1>3 DEF CreateTemp
  <2> QED BY <1>1, <1>2, <2>2, <2>3
<1>4. ASSUME UnlinkTemp PROVE dir'[t].final = dir[t].final
  <2>1. PICK u \in Task : u = current
    BY <1>4, CurrentFacts DEF UnlinkTemp
  <2>2. dir[u].temp \ {active[u]} \in SUBSET Attempt
    BY <1>0 DEF DirState
  <2>3. \/ UNCHANGED dir
        \/ ChangeDir(u, [dir[u] EXCEPT !.temp = dir[u].temp \ {active[u]}])
    BY <1>4, <2>1 DEF UnlinkTemp
  <2> QED BY <1>1, <1>2, <2>2, <2>3
<1>5. ASSUME RenameNoReplace PROVE dir'[t].final = dir[t].final
  <2>1. CASE CanRename(current, active[current])
    <3>1. t # current
      BY <2>1 DEF CanRename
    <3> QED BY <1>0, <1>5, <2>1, <3>1 DEF RenameNoReplace, ChangeDir
  <2> QED BY <1>5, <2>1 DEF RenameNoReplace
<1>6. ASSUME Fault PROVE FALSE
  BY <1>0, <1>6 DEF Fault
<1>7. ASSUME Environment PROVE FALSE
  BY <1>6, <1>7
  DEF Environment, Kill, PowerLoss, MigrateIoError, ResumeIoError, WorkerIoError,
      SourceChanges, UserEdits
<1>8. ASSUME Resume PROVE dir'[t].final = dir[t].final
  BY <1>4, <1>5, <1>8
  DEF Resume, ResumeObserve, ResumeDecide, ConfirmFinal, ConfirmTemp, RecheckTemp,
      ReflushTemp, SyncTarget, Publish, ResumeExit, ResumeTask, GiveUp, files
<1>9. ASSUME NEW u \in Task, Worker(u) PROVE dir'[t].final = dir[t].final
  BY <1>3, <1>9
  DEF Worker, OpenSource, OpenTargetRoot, RefuseNested, RecordIntent, BeginCopy, EndCopy,
      FlushTemp, RecordTempWritten, VerifyTemp, StoreReceipt, FailTask, WorkerOnly, files
<1>10. ASSUME MigrateBegin \/ ResumeBegin \/ MigrateAcquire \/ MigrateNothingToDo
              \/ ProducerCheck \/ ProducerDone \/ MigrateExit
              \/ \E u \in Task : MigrateSetReady(u) \/ ProducerClaim(u)
       PROVE  dir'[t].final = dir[t].final
  BY <1>10
  DEF MigrateBegin, ResumeBegin, MigrateAcquire, MigrateNothingToDo, ProducerCheck,
      ProducerDone, MigrateExit, MigrateSetReady, ProducerClaim, files
<1> QED BY <1>7, <1>8, <1>9, <1>10 DEF CPNext, Migrate

\* The program never replaces or removes a file at a final name: the rename is
\* RENAME_NOREPLACE, and the cleanup only unlinks temporary names.
THEOREM ExistingFinalKeptSafe == CPSpec => ExistingFinalKept
<1> DEFINE FinalKept == \A t \in Task :
               dir[t].final # NoFile /\ tampered' = tampered /\ faults' = faults
                   => dir'[t].final = dir[t].final
<1>1. CPInv /\ [CPNext]_allVars => [FinalKept]_allVars
  BY FinalKeptStep
<1> QED BY <1>1, CPInvariant, PTL DEF CPSpec, ExistingFinalKept


===========================================================================
