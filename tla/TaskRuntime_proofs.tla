------------------------ MODULE TaskRuntime_proofs ------------------------
(***************************************************************************)
(* TLAPS proofs about module TaskRuntime, for every set of tasks, every    *)
(* set of evidence and every bound on epochs and attempts.                 *)
(*                                                                         *)
(* The invariants TLC checks are inductive only together, and only with    *)
(* RowsDense: the attempt rows of a task are exactly those numbered up to  *)
(* its attempt_count.  Without it ClaimNextReady could meet an old receipt *)
(* under the attempt id it is about to create.                             *)
(***************************************************************************)
EXTENDS TaskRuntime, TLAPS

RowsDense ==
    \A t \in Task : \A a \in Attempt : fileState[t][a] = "None" <=> a > attempts[t]

RowInv ==
    /\ TypeOK
    /\ OwnershipConsistent
    /\ OneLiveAttempt
    /\ OutcomeAgrees
    /\ RowsDense
    /\ ReceiptMatchesAttempt
    /\ AttemptEpochsOrdered

----------------------------------------------------------------------------
(* Every step of the repository is one of nine changes of the tables.      *)

Outcome == {<<"Succeeded", "Committed">>, <<"Retryable", "Retryable">>,
            <<"Inconsistent", "Inconsistent">>}

\* What FinishTask and RecoverTask have in common: the RUNNING attempt is closed.
Close(t, e, a, next, attemptNext) ==
    /\ <<next, attemptNext>> \in Outcome
    /\ Owns(t, e, a)
    /\ HasAttempt(t, a, e)
    /\ state' = [state EXCEPT ![t] = next]
    /\ owner' = [owner EXCEPT ![t] = 0]
    /\ active' = [active EXCEPT ![t] = 0]
    /\ fileState' = [fileState EXCEPT ![t][a] = attemptNext]
    /\ UNCHANGED <<epoch, attempts, attemptEpoch, receipt, deps>>

\* Every step is one of nine changes: the five calls of an executor and the three of a
\* recovery run differ only in what they check and in the values they write.
LEMMA StepCases ==
    ASSUME Next
    PROVE  \/ MaterializePlan
           \/ AcquireNextExecutionEpoch
           \/ \E t \in Task : AddTask(t)
           \/ \E t \in Task : SetReady(t)
           \/ \E t, d \in Task : AddDependency(t, d)
           \/ \E t \in Task : \E e \in IssuedEpoch : ClaimNextReady(e, t)
           \/ \E t \in Task : \E e \in IssuedEpoch : \E a \in Attempt :
                \E n \in {"CommitIntent", "TempWritten"} : AdvanceAttempt(t, e, a, n)
           \/ \E t \in Task : \E e \in IssuedEpoch : \E a \in Attempt : \E v \in Evidence :
                PersistVerifiedReceipt(t, e, a, v)
           \/ \E t \in Task : \E e \in IssuedEpoch : \E a \in Attempt :
                \E n \in TaskState : \E m \in FileAttemptState :
                Close(t, e, a, n, m)
<1>1. ASSUME NEW t \in Task, NEW e \in IssuedEpoch, NEW a \in Attempt, Executor(t, e, a)
      PROVE  \/ \E n \in {"CommitIntent", "TempWritten"} : AdvanceAttempt(t, e, a, n)
             \/ \E v \in Evidence : PersistVerifiedReceipt(t, e, a, v)
             \/ \E n \in TaskState : \E m \in FileAttemptState : Close(t, e, a, n, m)
  <2>1. CASE MarkCommitIntent(t, e, a) \/ MarkTempWritten(t, e, a)
    BY <2>1 DEF MarkCommitIntent, MarkTempWritten
  <2>2. CASE MarkSucceeded(t, e, a)
    <3>1. Close(t, e, a, "Succeeded", "Committed")
      BY <2>2 DEF MarkSucceeded, FinishTask, Close, Outcome
    <3> QED BY <3>1 DEF TaskState, FileAttemptState
  <2>3. CASE MarkRetryable(t, e, a)
    <3>1. Close(t, e, a, "Retryable", "Retryable")
      BY <2>3 DEF MarkRetryable, FinishTask, Close, Outcome
    <3> QED BY <3>1 DEF TaskState, FileAttemptState
  <2> QED BY <1>1, <2>1, <2>2, <2>3 DEF Executor
<1>2. ASSUME NEW t \in Task, NEW e \in IssuedEpoch, NEW a \in Attempt,
             NEW re \in IssuedEpoch, Recovery(t, re, e, a)
      PROVE  \E n \in TaskState : \E m \in FileAttemptState : Close(t, e, a, n, m)
  <2>1. CASE RecoverSucceeded(t, re, e, a)
    <3>1. Close(t, e, a, "Succeeded", "Committed")
      BY <2>1 DEF RecoverSucceeded, RecoverTask, Close, Outcome
    <3> QED BY <3>1 DEF TaskState, FileAttemptState
  <2>2. CASE RecoverRetryable(t, re, e, a)
    <3>1. Close(t, e, a, "Retryable", "Retryable")
      BY <2>2 DEF RecoverRetryable, RecoverTask, Close, Outcome
    <3> QED BY <3>1 DEF TaskState, FileAttemptState
  <2>3. CASE RecoverInconsistent(t, re, e, a)
    <3>1. Close(t, e, a, "Inconsistent", "Inconsistent")
      BY <2>3 DEF RecoverInconsistent, RecoverTask, Close, Outcome
    <3> QED BY <3>1 DEF TaskState, FileAttemptState
  <2> QED BY <1>2, <2>1, <2>2, <2>3 DEF Recovery
<1> QED BY <1>1, <1>2 DEF Next

----------------------------------------------------------------------------
(* The row invariant.                                                      *)

\* The empty tables satisfy the row invariant.
LEMMA RowInvInit ==
    ASSUME Init PROVE RowInv
<1> USE TaskAssumption, BoundsAssumption, NoReceiptAssumption
<1>1. TypeOK
  BY DEF Init, TypeOK, Epoch, Attempt, TaskState, FileAttemptState
<1>2. OwnershipConsistent /\ OneLiveAttempt /\ OutcomeAgrees
  BY DEF Init, OwnershipConsistent, OneLiveAttempt, OutcomeAgrees, LiveAttempt, Attempt
<1>3. RowsDense /\ ReceiptMatchesAttempt /\ AttemptEpochsOrdered
  BY DEF Init, RowsDense, ReceiptMatchesAttempt, AttemptEpochsOrdered, Attempt
<1> QED BY <1>1, <1>2, <1>3 DEF RowInv

\* No step of the repository breaks the row invariant.
LEMMA RowInvNext ==
    ASSUME RowInv, [Next]_vars
    PROVE  RowInv'
<1> USE TaskAssumption, BoundsAssumption, NoReceiptAssumption DEF taskRow, attemptRow
<1>t. /\ epoch \in Nat /\ MaxEpoch \in Nat /\ MaxAttempts \in Nat
      /\ TypeOK /\ OwnershipConsistent /\ OneLiveAttempt /\ OutcomeAgrees
      /\ RowsDense /\ ReceiptMatchesAttempt /\ AttemptEpochsOrdered
  BY DEF RowInv, TypeOK, Epoch
<1>1. CASE UNCHANGED vars
  <2>1. TypeOK'
    BY <1>t, <1>1 DEF vars, TypeOK
  <2>2. OwnershipConsistent' /\ OneLiveAttempt' /\ OutcomeAgrees'
    BY <1>t, <1>1 DEF vars, OwnershipConsistent, OneLiveAttempt, OutcomeAgrees
  <2>3. RowsDense' /\ ReceiptMatchesAttempt' /\ AttemptEpochsOrdered'
    BY <1>t, <1>1 DEF vars, RowsDense, ReceiptMatchesAttempt, AttemptEpochsOrdered
  <2> QED BY <2>1, <2>2, <2>3 DEF RowInv
<1>2. CASE MaterializePlan
  <2>1. TypeOK'
    BY <1>t, <1>2 DEF MaterializePlan, TypeOK, TaskState
  <2>2. OwnershipConsistent' /\ OneLiveAttempt' /\ OutcomeAgrees'
    BY <1>t, <1>2 DEF MaterializePlan, OwnershipConsistent, OneLiveAttempt, OutcomeAgrees
  <2>3. RowsDense' /\ ReceiptMatchesAttempt' /\ AttemptEpochsOrdered'
    BY <1>t, <1>2
    DEF MaterializePlan, RowsDense, ReceiptMatchesAttempt, AttemptEpochsOrdered
  <2> QED BY <2>1, <2>2, <2>3 DEF RowInv
<1>3. CASE AcquireNextExecutionEpoch
  <2>1. TypeOK'
    BY <1>t, <1>3 DEF AcquireNextExecutionEpoch, TypeOK, Epoch
  <2>2. OwnershipConsistent'
    BY <1>t, <1>3 DEF AcquireNextExecutionEpoch, OwnershipConsistent, TypeOK, Epoch
  <2>3. OneLiveAttempt' /\ OutcomeAgrees' /\ RowsDense' /\ ReceiptMatchesAttempt'
    BY <1>t, <1>3 DEF AcquireNextExecutionEpoch, OneLiveAttempt, OutcomeAgrees, RowsDense,
       ReceiptMatchesAttempt
  <2>4. AttemptEpochsOrdered'
    BY <1>t, <1>3 DEF AcquireNextExecutionEpoch, AttemptEpochsOrdered, TypeOK, Epoch
  <2> QED BY <2>1, <2>2, <2>3, <2>4 DEF RowInv
<1>4. ASSUME NEW t \in Task, AddTask(t)
      PROVE  RowInv'
  <2>1. TypeOK'
    BY <1>t, <1>4 DEF AddTask, TypeOK, TaskState
  <2>2. OwnershipConsistent' /\ OneLiveAttempt' /\ OutcomeAgrees'
    BY <1>t, <1>4 DEF AddTask, TypeOK, OwnershipConsistent, OneLiveAttempt, OutcomeAgrees
  <2>3. RowsDense' /\ ReceiptMatchesAttempt' /\ AttemptEpochsOrdered'
    BY <1>t, <1>4 DEF AddTask, RowsDense, ReceiptMatchesAttempt, AttemptEpochsOrdered
  <2> QED BY <2>1, <2>2, <2>3 DEF RowInv
<1>5. ASSUME NEW t \in Task, SetReady(t)
      PROVE  RowInv'
  <2>1. TypeOK'
    BY <1>t, <1>5 DEF SetReady, TypeOK, TaskState, Epoch
  <2>2. OwnershipConsistent' /\ OneLiveAttempt' /\ OutcomeAgrees'
    BY <1>t, <1>5 DEF SetReady, TypeOK, OwnershipConsistent, OneLiveAttempt, OutcomeAgrees
  <2>3. RowsDense' /\ ReceiptMatchesAttempt' /\ AttemptEpochsOrdered'
    BY <1>t, <1>5 DEF SetReady, RowsDense, ReceiptMatchesAttempt, AttemptEpochsOrdered
  <2> QED BY <2>1, <2>2, <2>3 DEF RowInv
<1>6. ASSUME NEW t \in Task, NEW d \in Task, AddDependency(t, d)
      PROVE  RowInv'
  <2>1. TypeOK'
    BY <1>t, <1>6 DEF AddDependency, TypeOK
  <2>2. OwnershipConsistent' /\ OneLiveAttempt' /\ OutcomeAgrees'
    BY <1>t, <1>6 DEF AddDependency, OwnershipConsistent, OneLiveAttempt, OutcomeAgrees
  <2>3. RowsDense' /\ ReceiptMatchesAttempt' /\ AttemptEpochsOrdered'
    BY <1>t, <1>6
    DEF AddDependency, RowsDense, ReceiptMatchesAttempt, AttemptEpochsOrdered
  <2> QED BY <2>1, <2>2, <2>3 DEF RowInv
<1>7. ASSUME NEW t \in Task, NEW e \in IssuedEpoch, ClaimNextReady(e, t)
      PROVE  RowInv'
  <2> DEFINE new == attempts[t] + 1
  <2>0. /\ e \in 1 .. MaxEpoch /\ e = epoch /\ new \in Attempt /\ state[t] = "Ready"
        /\ attempts[t] \in Nat /\ new \in 0 .. MaxAttempts /\ e \in Epoch
    BY <1>t, <1>7 DEF ClaimNextReady, Claimable, TypeOK, Epoch, Attempt, IssuedEpoch
  <2>s. /\ state' = [state EXCEPT ![t] = "Running"]
        /\ owner' = [owner EXCEPT ![t] = e]
        /\ active' = [active EXCEPT ![t] = new]
        /\ attempts' = [attempts EXCEPT ![t] = new]
        /\ fileState' = [fileState EXCEPT ![t][new] = "Running"]
        /\ attemptEpoch' = [attemptEpoch EXCEPT ![t][new] = e]
        /\ UNCHANGED <<epoch, receipt, deps>>
    BY <1>7 DEF ClaimNextReady
  <2>g. new > attempts[t]
    BY <2>0
  <2> HIDE DEF new
  <2>m. fileState[t][new] = "None"
    <3>1. fileState[t][new] = "None" <=> new > attempts[t]
      BY <1>t, <2>0, Zenon DEF RowsDense
    <3> QED BY <3>1, <2>g
  <2>n. receipt[t][new] = NoReceipt
    BY <1>t, <2>0, <2>m DEF ReceiptMatchesAttempt
  <2>1. TypeOK'
    BY <1>t, <2>0, <2>s DEF TypeOK, TaskState, FileAttemptState
  <2>2. OwnershipConsistent'
    BY <1>t, <2>0, <2>s DEF TypeOK, OwnershipConsistent, Attempt
  <2>3. OneLiveAttempt'
    BY <1>t, <2>0, <2>s DEF TypeOK, OneLiveAttempt, LiveAttempt
  <2>4. OutcomeAgrees'
    BY <1>t, <2>0, <2>s DEF TypeOK, OutcomeAgrees
  <2>5. RowsDense'
    BY <1>t, <2>0, <2>s DEF TypeOK, RowsDense, Attempt, new
  <2>6. ReceiptMatchesAttempt'
    BY <1>t, <2>0, <2>s, <2>n DEF TypeOK, ReceiptMatchesAttempt
  <2>7. AttemptEpochsOrdered'
    <3> SUFFICES ASSUME NEW u \in Task, NEW x \in Attempt, NEW y \in Attempt,
                        x <= y, y <= attempts'[u]
                 PROVE  /\ 1 <= attemptEpoch'[u][x]
                        /\ attemptEpoch'[u][x] <= attemptEpoch'[u][y]
                        /\ attemptEpoch'[u][y] <= epoch'
      BY DEF AttemptEpochsOrdered
    <3>0. x \in Nat /\ y \in Nat /\ e \in Nat /\ 1 <= e
      BY <2>0 DEF Attempt
    <3>1. CASE u # t
      BY <1>t, <2>s, <3>1 DEF TypeOK, AttemptEpochsOrdered
    <3>2. CASE u = t /\ y = new
      <4>1. attemptEpoch'[t][y] = e
        BY <1>t, <2>0, <2>s, <3>2 DEF TypeOK
      <4>2. CASE x = new
        BY <2>0, <2>s, <3>0, <3>2, <4>1, <4>2
      <4>3. CASE x # new
        <5>1. x <= attempts[t]
          BY <2>0, <3>0, <3>2, <4>3 DEF new
        <5>2. attemptEpoch'[t][x] = attemptEpoch[t][x]
          BY <1>t, <2>0, <2>s, <4>3 DEF TypeOK
        <5>3. x <= x
          BY <3>0
        <5> QED BY <1>t, <2>0, <2>s, <3>2, <4>1, <5>1, <5>2, <5>3 DEF AttemptEpochsOrdered
      <4> QED BY <4>2, <4>3
    <3>3. CASE u = t /\ y # new
      <4>1. y <= attempts[t] /\ x # new
        <5>1. attempts'[t] = new
          BY <1>t, <2>s DEF TypeOK
        <5> QED BY <2>0, <3>0, <3>3, <5>1 DEF new
      <4>2. attemptEpoch'[t][x] = attemptEpoch[t][x] /\ attemptEpoch'[t][y] = attemptEpoch[t][y]
        BY <1>t, <2>0, <2>s, <3>3, <4>1 DEF TypeOK
      <4> QED BY <1>t, <2>s, <3>3, <4>1, <4>2 DEF AttemptEpochsOrdered
    <3> QED BY <3>1, <3>2, <3>3
  <2> QED BY <2>1, <2>2, <2>3, <2>4, <2>5, <2>6, <2>7 DEF RowInv
<1>8. ASSUME NEW t \in Task, NEW e \in IssuedEpoch, NEW a \in Attempt,
             NEW n \in {"CommitIntent", "TempWritten"}, AdvanceAttempt(t, e, a, n)
      PROVE  RowInv'
  <2>s. /\ fileState' = [fileState EXCEPT ![t][a] = n]
        /\ UNCHANGED <<epoch, state, owner, active, attempts, attemptEpoch, receipt, deps>>
        /\ fileState[t][a] \in {"Running", "CommitIntent"}
        /\ state[t] = "Running" /\ active[t] = a
    BY <1>8 DEF AdvanceAttempt, ValidAttemptTransition, Owns
  <2>1. TypeOK'
    BY <1>t, <2>s DEF TypeOK, FileAttemptState
  <2>2. OwnershipConsistent'
    BY <1>t, <2>s DEF OwnershipConsistent
  <2>3. OneLiveAttempt'
    BY <1>t, <2>s DEF TypeOK, OneLiveAttempt, LiveAttempt
  <2>4. OutcomeAgrees'
    BY <1>t, <2>s DEF TypeOK, OutcomeAgrees
  <2>5. RowsDense'
    BY <1>t, <2>s DEF TypeOK, RowsDense
  <2>6. ReceiptMatchesAttempt'
    BY <1>t, <2>s DEF TypeOK, ReceiptMatchesAttempt
  <2>7. AttemptEpochsOrdered'
    BY <1>t, <2>s DEF AttemptEpochsOrdered
  <2> QED BY <2>1, <2>2, <2>3, <2>4, <2>5, <2>6, <2>7 DEF RowInv
<1>9. ASSUME NEW t \in Task, NEW e \in IssuedEpoch, NEW a \in Attempt, NEW v \in Evidence,
             PersistVerifiedReceipt(t, e, a, v)
      PROVE  RowInv'
  <2> DEFINE r == [epoch |-> e, content |-> v]
  <2>s. /\ fileState' = [fileState EXCEPT ![t][a] = "VerifiedDurable"]
        /\ receipt' = [receipt EXCEPT ![t][a] = r]
        /\ UNCHANGED <<epoch, state, owner, active, attempts, attemptEpoch, deps>>
        /\ state[t] = "Running" /\ active[t] = a
        /\ attemptEpoch[t][a] = e /\ fileState[t][a] # "None"
    BY <1>9 DEF PersistVerifiedReceipt, Owns, HasAttempt
  <2>0. r \in Receipt /\ r # NoReceipt /\ r.epoch = e
    BY <1>t DEF Receipt, IssuedEpoch, TypeOK, Epoch
  <2> HIDE DEF r
  <2>1. TypeOK'
    BY <1>t, <2>s, <2>0 DEF TypeOK, FileAttemptState
  <2>2. OwnershipConsistent'
    BY <1>t, <2>s DEF OwnershipConsistent
  <2>3. OneLiveAttempt'
    BY <1>t, <2>s DEF TypeOK, OneLiveAttempt, LiveAttempt
  <2>4. OutcomeAgrees'
    BY <1>t, <2>s DEF TypeOK, OutcomeAgrees
  <2>5. RowsDense'
    BY <1>t, <2>s DEF TypeOK, RowsDense
  <2>6. ReceiptMatchesAttempt'
    BY <1>t, <2>s, <2>0 DEF TypeOK, ReceiptMatchesAttempt
  <2>7. AttemptEpochsOrdered'
    BY <1>t, <2>s DEF AttemptEpochsOrdered
  <2> QED BY <2>1, <2>2, <2>3, <2>4, <2>5, <2>6, <2>7 DEF RowInv
<1>10. ASSUME NEW t \in Task, NEW e \in IssuedEpoch, NEW a \in Attempt,
              NEW n \in TaskState, NEW m \in FileAttemptState, Close(t, e, a, n, m)
       PROVE  RowInv'
  <2>s. /\ state' = [state EXCEPT ![t] = n]
        /\ owner' = [owner EXCEPT ![t] = 0]
        /\ active' = [active EXCEPT ![t] = 0]
        /\ fileState' = [fileState EXCEPT ![t][a] = m]
        /\ UNCHANGED <<epoch, attempts, attemptEpoch, receipt, deps>>
        /\ state[t] = "Running" /\ active[t] = a /\ fileState[t][a] # "None"
    BY <1>10 DEF Close, Owns, HasAttempt
  <2>0. \/ n = "Succeeded" /\ m = "Committed"
        \/ n = "Retryable" /\ m = "Retryable"
        \/ n = "Inconsistent" /\ m = "Inconsistent"
    BY <1>10 DEF Close, Outcome
  <2>1. TypeOK'
    BY <1>t, <2>s DEF TypeOK, Epoch
  <2>2. OwnershipConsistent'
    BY <1>t, <2>s, <2>0 DEF TypeOK, OwnershipConsistent
  <2>3. OneLiveAttempt'
    BY <1>t, <2>s, <2>0 DEF TypeOK, OneLiveAttempt, LiveAttempt
  <2>4. OutcomeAgrees'
    BY <1>t, <2>s, <2>0 DEF TypeOK, OutcomeAgrees, OwnershipConsistent
  <2>5. RowsDense'
    BY <1>t, <2>s, <2>0 DEF TypeOK, RowsDense
  <2>6. ReceiptMatchesAttempt'
    BY <1>t, <2>s, <2>0 DEF TypeOK, ReceiptMatchesAttempt
  <2>7. AttemptEpochsOrdered'
    BY <1>t, <2>s DEF AttemptEpochsOrdered
  <2> QED BY <2>1, <2>2, <2>3, <2>4, <2>5, <2>6, <2>7 DEF RowInv
<1> QED BY StepCases, <1>1, <1>2, <1>3, <1>4, <1>5, <1>6, <1>7, <1>8, <1>9, <1>10

\* The four tables always agree with each other: type correctness, ownership, one live
\* attempt per RUNNING task, outcomes, receipts and the order of epochs, for any number
\* of tasks, epochs, attempts and superseded callers.
THEOREM RowInvariant == Spec => []RowInv
<1>1. Init => RowInv
  BY RowInvInit
<1>2. RowInv /\ [Next]_vars => RowInv'
  BY RowInvNext
<1> QED BY <1>1, <1>2, PTL DEF Spec

\* Every column of the task tables keeps its range.
THEOREM TypeCorrect == Spec => []TypeOK
BY RowInvariant, PTL DEF RowInv

\* The ownership columns are a claim ticket: they are set exactly while the task runs.
THEOREM OwnershipSafe == Spec => []OwnershipConsistent
<1>1. RowInv => OwnershipConsistent
  BY DEF RowInv
<1> QED BY <1>1, RowInvariant, PTL

\* At most one attempt of a task is open, the rows of a task and of its newest attempt
\* report the same outcome, and attempts were claimed in the order of their epochs.
THEOREM AttemptHistorySafe == Spec => []AttemptHistory
<1>1. RowInv => AttemptHistory
  BY DEF RowInv, AttemptHistory
<1> QED BY <1>1, RowInvariant, PTL

\* A receipt belongs to an attempt that was verified, and was stored under its epoch.
THEOREM ReceiptsSafe == Spec => []ReceiptMatchesAttempt
<1>1. RowInv => ReceiptMatchesAttempt
  BY DEF RowInv
<1> QED BY <1>1, RowInvariant, PTL

----------------------------------------------------------------------------
(* Fencing: a superseded executor.                                         *)

\* What one step may do to the RUNNING task of an executor whose epoch is not the
\* current one any more.
Frozen ==
    \A t \in Task :
        state[t] = "Running" /\ owner[t] < epoch /\ state'[t] = "Running"
            => /\ fileState'[t] = fileState[t]
               /\ receipt'[t] = receipt[t]
               /\ owner'[t] = owner[t] /\ active'[t] = active[t]

\* Every operation that writes an attempt compares the caller's epoch with the current
\* one, and the operations of a recovery end the attempt.
LEMMA FrozenStep ==
    ASSUME RowInv, Next
    PROVE  Frozen
<1> USE DEF taskRow, attemptRow
<1> SUFFICES ASSUME NEW u \in Task, state[u] = "Running", owner[u] < epoch,
                    state'[u] = "Running"
             PROVE  /\ fileState'[u] = fileState[u]
                    /\ receipt'[u] = receipt[u]
                    /\ owner'[u] = owner[u] /\ active'[u] = active[u]
  BY DEF Frozen
<1>t. TypeOK /\ epoch \in Nat /\ owner[u] \in Nat
  BY BoundsAssumption DEF RowInv, TypeOK, Epoch
<1>1. CASE MaterializePlan
  BY <1>1 DEF MaterializePlan
<1>2. CASE AcquireNextExecutionEpoch
  BY <1>2 DEF AcquireNextExecutionEpoch
<1>3. ASSUME NEW t \in Task, AddTask(t) \/ SetReady(t) \/ \E d \in Task : AddDependency(t, d)
      PROVE  /\ fileState'[u] = fileState[u] /\ receipt'[u] = receipt[u]
             /\ owner'[u] = owner[u] /\ active'[u] = active[u]
  BY <1>t, <1>3 DEF AddTask, SetReady, AddDependency, TypeOK
<1>4. ASSUME NEW t \in Task, NEW e \in IssuedEpoch, ClaimNextReady(e, t)
      PROVE  /\ fileState'[u] = fileState[u] /\ receipt'[u] = receipt[u]
             /\ owner'[u] = owner[u] /\ active'[u] = active[u]
  BY <1>t, <1>4 DEF ClaimNextReady, Claimable, TypeOK
<1>5. ASSUME NEW t \in Task, NEW e \in IssuedEpoch, NEW a \in Attempt,
             \/ \E n \in {"CommitIntent", "TempWritten"} : AdvanceAttempt(t, e, a, n)
             \/ \E v \in Evidence : PersistVerifiedReceipt(t, e, a, v)
      PROVE  /\ fileState'[u] = fileState[u] /\ receipt'[u] = receipt[u]
             /\ owner'[u] = owner[u] /\ active'[u] = active[u]
  <2>1. epoch = e /\ owner[t] = e
    BY <1>5 DEF AdvanceAttempt, PersistVerifiedReceipt, Owns
  <2>2. t # u
    BY <1>t, <2>1
  <2> QED BY <1>t, <1>5, <2>2 DEF AdvanceAttempt, PersistVerifiedReceipt, TypeOK
<1>6. ASSUME NEW t \in Task, NEW e \in IssuedEpoch, NEW a \in Attempt,
             NEW n \in TaskState, NEW m \in FileAttemptState, Close(t, e, a, n, m)
      PROVE  /\ fileState'[u] = fileState[u] /\ receipt'[u] = receipt[u]
             /\ owner'[u] = owner[u] /\ active'[u] = active[u]
  <2>1. state' = [state EXCEPT ![t] = n] /\ n # "Running"
    BY <1>6 DEF Close, Outcome
  <2>2. t # u
    BY <1>t, <2>1 DEF TypeOK
  <2> QED BY <1>t, <1>6, <2>2 DEF Close, TypeOK
<1> QED BY StepCases, <1>1, <1>2, <1>3, <1>4, <1>5, <1>6

\* A superseded executor can do nothing to its attempt but see it ended.
THEOREM SupersededFrozen == Spec => SupersededAttemptFrozen
<1>1. RowInv /\ [Next]_vars => [Frozen]_vars
  BY FrozenStep
<1>2. SupersededAttemptFrozen <=> [][Frozen]_vars
  BY DEF SupersededAttemptFrozen, Frozen
<1> QED BY <1>1, <1>2, RowInvariant, PTL DEF Spec

----------------------------------------------------------------------------
(* Outcomes and evidence.                                                  *)

Kept ==
    \A t \in Task :
        /\ state[t] \in {"Succeeded", "Inconsistent"} => state'[t] = state[t]
        /\ \A a \in Attempt :
            /\ fileState[t][a] \in {"Committed", "Retryable", "Inconsistent"}
                   => fileState'[t][a] = fileState[t][a]
            /\ receipt[t][a] # NoReceipt => receipt'[t][a] = receipt[t][a]

\* A step writes only rows of tasks that are not final and of attempts that are open
\* (OneLiveAttempt) or new (RowsDense).
LEMMA KeptStep ==
    ASSUME RowInv, Next
    PROVE  Kept
<1> USE DEF taskRow, attemptRow
<1>t. /\ TypeOK /\ OneLiveAttempt /\ RowsDense /\ MaxAttempts \in Nat
  BY BoundsAssumption DEF RowInv
<1>1. CASE MaterializePlan
  BY <1>1 DEF MaterializePlan, Kept
<1>2. CASE AcquireNextExecutionEpoch
  BY <1>2 DEF AcquireNextExecutionEpoch, Kept
<1>3. ASSUME NEW t \in Task, AddTask(t) \/ SetReady(t) \/ \E d \in Task : AddDependency(t, d)
      PROVE  Kept
  BY <1>t, <1>3 DEF AddTask, SetReady, AddDependency, TypeOK, Kept
<1>4. ASSUME NEW t \in Task, NEW e \in IssuedEpoch, ClaimNextReady(e, t)
      PROVE  Kept
  <2> DEFINE new == attempts[t] + 1
  <2>1. /\ state' = [state EXCEPT ![t] = "Running"] /\ state[t] = "Ready"
        /\ fileState' = [fileState EXCEPT ![t][new] = "Running"]
        /\ UNCHANGED receipt /\ attempts[t] < MaxAttempts
    BY <1>4 DEF ClaimNextReady, Claimable
  <2>2. new \in Attempt /\ new > attempts[t]
    BY <1>t, <2>1 DEF TypeOK, Attempt
  <2>3. fileState[t][new] = "None"
    BY <1>t, <2>2 DEF RowsDense
  <2> HIDE DEF new
  <2> QED BY <1>t, <2>1, <2>2, <2>3 DEF TypeOK, Kept
<1>5. ASSUME NEW t \in Task, NEW e \in IssuedEpoch, NEW a \in Attempt,
             NEW n \in {"CommitIntent", "TempWritten"}, AdvanceAttempt(t, e, a, n)
      PROVE  Kept
  <2>1. fileState[t][a] \in LiveAttempt
    BY <1>t, <1>5 DEF AdvanceAttempt, Owns, OneLiveAttempt
  <2> QED BY <1>t, <1>5, <2>1 DEF AdvanceAttempt, LiveAttempt, TypeOK, Kept
<1>6. ASSUME NEW t \in Task, NEW e \in IssuedEpoch, NEW a \in Attempt, NEW v \in Evidence,
             PersistVerifiedReceipt(t, e, a, v)
      PROVE  Kept
  <2>1. fileState[t][a] \in LiveAttempt
    BY <1>t, <1>6 DEF PersistVerifiedReceipt, Owns, OneLiveAttempt
  <2> QED BY <1>t, <1>6, <2>1 DEF PersistVerifiedReceipt, LiveAttempt, TypeOK, Kept
<1>7. ASSUME NEW t \in Task, NEW e \in IssuedEpoch, NEW a \in Attempt,
             NEW n \in TaskState, NEW m \in FileAttemptState, Close(t, e, a, n, m)
      PROVE  Kept
  <2>1. fileState[t][a] \in LiveAttempt /\ state[t] = "Running"
    BY <1>t, <1>7 DEF Close, Owns, OneLiveAttempt
  <2> QED BY <1>t, <1>7, <2>1 DEF Close, LiveAttempt, TypeOK, Kept
<1> QED BY StepCases, <1>1, <1>2, <1>3, <1>4, <1>5, <1>6, <1>7

\* Final outcomes, closed attempts and stored receipts are never written again.
THEOREM EvidenceIsImmutable == Spec => EvidenceImmutable
<1>1. RowInv /\ [Next]_vars => [Kept]_vars
  BY KeptStep
<1>2. EvidenceImmutable <=> [][Kept]_vars
  BY DEF EvidenceImmutable, Kept
<1> QED BY <1>1, <1>2, RowInvariant, PTL DEF Spec

----------------------------------------------------------------------------
(* Dependencies.                                                           *)

\* When t is not among the ancestors of d, a dependency-closed set separates them.
LEMMA SeparatingSet ==
    ASSUME NEW t \in Task, NEW d \in Task, t \notin Ancestors(d)
    PROVE  \E C \in SUBSET Task : d \in C /\ t \notin C /\ DependencyClosed(C)
BY DEF Ancestors

\* AddDependency keeps the graph well founded.  A set S that meets the separating set C
\* has a least member inside C, from which neither an old edge (C is closed) nor the new
\* one (t is outside C) leads back into S; a set that misses C does not contain d.
LEMMA AcyclicStep ==
    ASSUME DependenciesAcyclic, Next
    PROVE  DependenciesAcyclic'
<1> USE DEF taskRow, attemptRow
<1>1. CASE UNCHANGED deps
  BY <1>1 DEF DependenciesAcyclic
<1>2. ASSUME NEW t \in Task, NEW d \in Task, AddDependency(t, d)
      PROVE  DependenciesAcyclic'
  <2>1. PICK C \in SUBSET Task : d \in C /\ t \notin C /\ DependencyClosed(C)
    BY <1>2, SeparatingSet DEF AddDependency
  <2>2. deps' = deps \cup {<<t, d>>}
    BY <1>2 DEF AddDependency
  <2> SUFFICES ASSUME NEW S \in SUBSET Task, S # {}
               PROVE  \E x \in S : \A y \in S : <<x, y>> \notin deps'
    BY DEF DependenciesAcyclic
  <2>3. CASE S \cap C # {}
    <3>1. PICK x \in S \cap C : \A y \in S \cap C : <<x, y>> \notin deps
      BY <2>3 DEF DependenciesAcyclic
    <3>2. \A y \in S : <<x, y>> \notin deps'
      BY <2>1, <2>2, <3>1 DEF DependencyClosed
    <3> QED BY <3>1, <3>2
  <2>4. CASE S \cap C = {}
    <3>1. PICK x \in S : \A y \in S : <<x, y>> \notin deps
      BY DEF DependenciesAcyclic
    <3>2. \A y \in S : <<x, y>> \notin deps'
      BY <2>1, <2>2, <2>4, <3>1
    <3> QED BY <3>2
  <2> QED BY <2>3, <2>4
<1>3. UNCHANGED deps \/ \E t, d \in Task : AddDependency(t, d)
  BY StepCases DEF MaterializePlan, AcquireNextExecutionEpoch, AddTask, SetReady,
     ClaimNextReady, AdvanceAttempt, PersistVerifiedReceipt, Close
<1> QED BY <1>1, <1>2, <1>3

\* The ancestor query of AddDependency is enough: no sequence of calls makes a cycle.
THEOREM AcyclicAlways == Spec => []DependenciesAcyclic
<1>1. Init => DependenciesAcyclic
  BY DEF Init, DependenciesAcyclic
<1>2. DependenciesAcyclic /\ [Next]_vars => DependenciesAcyclic'
  <2>1. CASE UNCHANGED vars
    BY <2>1 DEF vars, DependenciesAcyclic
  <2> QED BY <2>1, AcyclicStep
<1> QED BY <1>1, <1>2, PTL DEF Spec
=============================================================================
