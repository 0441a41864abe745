-------------------------- MODULE RuntimeDbWriter --------------------------
(***************************************************************************)
(* RuntimeDbWriter (src/app/runtime_db_writer.cpp): one thread owns the    *)
(* database connection of the concurrent migrate phase; every other thread *)
(* hands it a command and blocks on the command's promise.  The writer     *)
(* groups commands at the head of its queue into one transaction.          *)
(*                                                                         *)
(* A writer is started for one plan and one execution epoch, so the plan   *)
(* id and epoch of the grouping key never differ and are left out.  What   *)
(* an operation does to the rows is module TaskRuntime; here an operation  *)
(* is applied, fails, or throws (the code allocates everywhere, so an      *)
(* exception is possible before and after COMMIT).  The condition variable *)
(* is explicit: the writer sleeps until somebody notifies it.              *)
(***************************************************************************)
EXTENDS Naturals, Sequences, FiniteSets

CONSTANTS
    Client,     \* threads that call the writer
    Task,       \* task ids
    Kind,       \* kinds of command in use, out of the five of the code
    Sends,      \* per thread: the commands it sends, <<kind, task>>
    MaxBatch,   \* max_batch_size: 1 .. 16 in the code
    MaxCalls,   \* bound on accepted commands
    MaxErrors,  \* bound on failing operations
    MaxThrows   \* bound on exceptions

ASSUME WriterAssumption ==
    /\ MaxBatch \in 1 .. 16 /\ MaxCalls \in Nat /\ MaxErrors \in Nat /\ MaxThrows \in Nat
    /\ Kind \subseteq {"Claim", "CommitIntent", "TempWritten", "Receipt", "Retryable"}
    /\ Sends \in [Client -> SUBSET (Kind \X Task)]

NoCall == [id |-> 0]
Command == [id : 1 .. MaxCalls, client : Client, kind : Kind, task : Task]
Answer == {"none", "ok", "error"}

VARIABLES
    commands,   \* the queue commands_
    stopping,   \* stopping_
    fatal,      \* fatal_ is set
    accepted,   \* accepted_command_count_
    cpc,        \* per client: "idle", "notify" (command queued), "get" (on the future)
    call,       \* per client: its command
    promise,    \* per client: the value of its command's promise
    last,       \* per client: what its last call returned
    wpc,        \* the writer thread
    batch,      \* the commands it took
    applied,    \* how many of them have been applied in the open transaction
    result,     \* per command of the batch: the status to complete it with
    answered,   \* how many of them have been completed
    committed,  \* ids of the commands whose transaction committed, in that order
    stopper,    \* the thread in Stop(): "no", "flagged", "joining", "joined"
    errors, throws

queueVars == <<commands, stopping, fatal, accepted>>
clientVars == <<cpc, call, promise, last>>
batchVars == <<batch, applied, result, answered>>
bounds == <<errors, throws>>
writerVars == <<queueVars, clientVars, wpc, batchVars, committed, stopper, bounds>>

WriterInit ==
    /\ commands = <<>> /\ stopping = FALSE /\ fatal = FALSE /\ accepted = 0
    /\ cpc = [c \in Client |-> "idle"]
    /\ call = [c \in Client |-> NoCall]
    /\ promise = [c \in Client |-> "none"]
    /\ last = [c \in Client |-> "none"]
    /\ wpc = "check" /\ batch = <<>> /\ applied = 0 /\ result = <<>> /\ answered = 0
    /\ committed = <<>>
    /\ stopper = "no"
    /\ errors = 0 /\ throws = 0

----------------------------------------------------------------------------
(* Callers.                                                                *)

\* notify_one: the writer is the only thread that waits on changed_.
Notify == wpc' = IF wpc = "asleep" THEN "check" ELSE wpc

\* Enqueue under the mutex; a stopped or failed writer refuses the command.
Enqueue(c, kind, t) ==
    /\ cpc[c] = "idle"
    /\ IF fatal \/ stopping
       THEN /\ last' = [last EXCEPT ![c] = "error"]
            /\ UNCHANGED <<commands, accepted, cpc, call, promise>>
       ELSE /\ accepted < MaxCalls
            /\ LET new == [id |-> accepted + 1, client |-> c, kind |-> kind, task |-> t] IN
               /\ commands' = Append(commands, new)
               /\ call' = [call EXCEPT ![c] = new]
            /\ accepted' = accepted + 1
            /\ cpc' = [cpc EXCEPT ![c] = "notify"]
            /\ UNCHANGED <<promise, last>>
    /\ UNCHANGED <<stopping, fatal, wpc, batchVars, committed, stopper, bounds>>

EnqueueNotify(c) ==     \* after the mutex is released
    /\ cpc[c] = "notify"
    /\ cpc' = [cpc EXCEPT ![c] = "get"]
    /\ Notify
    /\ UNCHANGED <<queueVars, call, promise, last, batchVars, committed, stopper, bounds>>

GetResult(c) ==
    /\ cpc[c] = "get" /\ promise[c] # "none"
    /\ cpc' = [cpc EXCEPT ![c] = "idle"]
    /\ last' = [last EXCEPT ![c] = promise[c]]
    /\ call' = [call EXCEPT ![c] = NoCall] /\ promise' = [promise EXCEPT ![c] = "none"]
    /\ UNCHANGED <<queueVars, wpc, batchVars, committed, stopper, bounds>>

StopFlag ==
    /\ stopper = "no"
    /\ stopping' = TRUE
    /\ stopper' = "flagged"
    /\ UNCHANGED <<commands, fatal, accepted, clientVars, wpc, batchVars, committed>>
    /\ UNCHANGED bounds

\* Mutated: the flag is set and nobody is told.
SilentStopNotify ==
    /\ stopper = "flagged"
    /\ stopper' = "joining"
    /\ UNCHANGED <<queueVars, clientVars, wpc, batchVars, committed, bounds>>

StopNotify ==
    /\ stopper = "flagged"
    /\ stopper' = "joining"
    /\ Notify
    /\ UNCHANGED <<queueVars, clientVars, batchVars, committed, bounds>>

StopJoin ==
    /\ stopper = "joining" /\ wpc = "returned"
    /\ stopper' = "joined"
    /\ UNCHANGED <<queueVars, clientVars, wpc, batchVars, committed, bounds>>

----------------------------------------------------------------------------
(* The writer thread.                                                      *)

\* The first n commands may share a transaction: one kind, no claim, no task twice.
Groupable(q, n) ==
    /\ \A i \in 1 .. n : q[i].kind = q[1].kind /\ q[i].kind # "Claim"
    /\ \A i, j \in 1 .. n : i # j => q[i].task # q[j].task

BatchSize(q) ==
    CHOOSE n \in 1 .. Len(q) :
        /\ n = 1 \/ (n <= MaxBatch /\ Groupable(q, n))
        /\ \A m \in (n + 1) .. Len(q) : m > MaxBatch \/ ~Groupable(q, m)

\* Commands behind the head that fit are taken out of turn.
SkippingTake ==
    LET fits == {i \in 1 .. Len(commands) : commands[i].kind = commands[1].kind}
        Last == CHOOSE i \in fits : \A j \in fits : j <= i
    IN  /\ wpc = "check" /\ commands # <<>>
        /\ batch' = <<commands[Last]>>
        /\ commands' = SubSeq(commands, 1, Last - 1)
                           \o SubSeq(commands, Last + 1, Len(commands))
        /\ wpc' = "run"
        /\ UNCHANGED <<stopping, fatal, accepted, clientVars, applied, result, answered>>
        /\ UNCHANGED <<committed, stopper, bounds>>

Take ==
    /\ wpc = "check" /\ commands # <<>>
    /\ LET n == BatchSize(commands) IN
       /\ batch' = SubSeq(commands, 1, n)
       /\ commands' = SubSeq(commands, n + 1, Len(commands))
    /\ wpc' = "run"
    /\ UNCHANGED <<stopping, fatal, accepted, clientVars, applied, result, answered>>
    /\ UNCHANGED <<committed, stopper, bounds>>

Wait ==
    /\ wpc = "check" /\ commands = <<>> /\ ~stopping
    /\ wpc' = "asleep"
    /\ UNCHANGED <<queueVars, clientVars, batchVars, committed, stopper, bounds>>

WriterReturn ==
    /\ wpc = "check" /\ commands = <<>> /\ stopping
    /\ wpc' = "returned"
    /\ UNCHANGED <<queueVars, clientVars, batchVars, committed, stopper, bounds>>

Ids(q) == [i \in 1 .. Len(q) |-> q[i].id]
AllError == [i \in 1 .. Len(batch) |-> "error"]
AllOk == [i \in 1 .. Len(batch) |-> "ok"]
Completing(r) == result' = r /\ wpc' = "answer"
Failing == errors < MaxErrors /\ errors' = errors + 1 /\ UNCHANGED throws

\* A single command: one transaction of its own.
Execute ==
    /\ wpc = "run" /\ Len(batch) = 1
    /\ \/ Completing(AllOk) /\ committed' = committed \o Ids(batch) /\ UNCHANGED bounds
       \/ Failing /\ Completing(AllError) /\ UNCHANGED committed
    /\ UNCHANGED <<queueVars, clientVars, batch, applied, answered, stopper>>

BeginWriteBatch ==
    /\ wpc = "run" /\ Len(batch) > 1
    /\ \/ wpc' = "apply" /\ UNCHANGED <<result, bounds>>
       \/ Failing /\ Completing(AllError)
    /\ UNCHANGED <<queueVars, clientVars, batch, applied, answered, committed, stopper>>

\* Only the failed command is told of the rollback.
PartialExecuteBatchedOperation ==
    /\ wpc = "apply" /\ applied < Len(batch)
    /\ \/ applied' = applied + 1 /\ UNCHANGED <<wpc, result, bounds>>
       \/ /\ Failing /\ UNCHANGED applied
          /\ Completing([AllOk EXCEPT ![applied + 1] = "error"])
    /\ UNCHANGED <<queueVars, clientVars, batch, answered, committed, stopper>>

\* The loop over the batch runs once too often.
OverrunningExecuteBatchedOperation ==
    /\ wpc = "apply" /\ applied <= Len(batch)
    /\ \/ applied' = applied + 1 /\ UNCHANGED <<wpc, result, bounds>>
       \/ Failing /\ Completing(AllError) /\ UNCHANGED applied
    /\ UNCHANGED <<queueVars, clientVars, batch, answered, committed, stopper>>

\* The first operation that fails ends the batch: everything is rolled back and every
\* command is completed with an error.
ExecuteBatchedOperation ==
    /\ wpc = "apply" /\ applied < Len(batch)
    /\ \/ applied' = applied + 1 /\ UNCHANGED <<wpc, result, bounds>>
       \/ Failing /\ Completing(AllError) /\ UNCHANGED applied
    /\ UNCHANGED <<queueVars, clientVars, batch, answered, committed, stopper>>

CommitWriteBatch ==
    /\ wpc = "apply" /\ applied = Len(batch)
    /\ \/ Completing(AllOk) /\ committed' = committed \o Ids(batch) /\ UNCHANGED bounds
       \/ Failing /\ Completing(AllError) /\ UNCHANGED committed
    /\ UNCHANGED <<queueVars, clientVars, batch, applied, answered, stopper>>

SetValue(i, v) == promise' = [promise EXCEPT ![batch[i].client] = v]

Complete ==
    /\ wpc = "answer"
    /\ IF answered < Len(batch)
       THEN /\ SetValue(answered + 1, result[answered + 1])
            /\ answered' = answered + 1
            /\ UNCHANGED <<wpc, batch, applied, result>>
       ELSE /\ wpc' = "check"
            /\ batch' = <<>> /\ applied' = 0 /\ result' = <<>> /\ answered' = 0
            /\ UNCHANGED promise
    /\ UNCHANGED <<queueVars, cpc, call, last, committed, stopper, bounds>>

\* An exception leaves ExecuteBatch or Execute; RollbackWriteBatch ends what is open.
Throw ==
    /\ wpc \in {"run", "apply"} \/ (wpc = "answer" /\ answered < Len(batch))
    /\ throws < MaxThrows
    /\ throws' = throws + 1
    /\ wpc' = "failBatch"
    /\ UNCHANGED <<queueVars, clientVars, batchVars, committed, stopper, errors>>

\* Fail() completes every command of the batch.  A promise that has a value already
\* throws again, out of the thread function: std::terminate.
FailBatch ==
    /\ wpc = "failBatch"
    /\ IF answered > 0
       THEN wpc' = "terminated" /\ UNCHANGED promise
       ELSE /\ wpc' = "setFatal"
            /\ promise' = [c \in Client |->
                   IF \E i \in 1 .. Len(batch) : batch[i].client = c THEN "error"
                   ELSE promise[c]]
    /\ UNCHANGED <<queueVars, cpc, call, last, batchVars, committed, stopper, bounds>>

\* Under the mutex: no command gets into the queue from here on.
SetFatal ==
    /\ wpc = "setFatal"
    /\ fatal' = TRUE /\ stopping' = TRUE
    /\ batch' = commands /\ commands' = <<>>
    /\ wpc' = "failPending"
    /\ UNCHANGED <<accepted, clientVars, applied, result, answered, committed, stopper>>
    /\ UNCHANGED bounds

FailPending ==
    /\ wpc = "failPending"
    /\ promise' = [c \in Client |->
           IF \E i \in 1 .. Len(batch) : batch[i].client = c THEN "error" ELSE promise[c]]
    /\ wpc' = "returned" /\ batch' = <<>> /\ applied' = 0 /\ result' = <<>>
    /\ UNCHANGED <<queueVars, cpc, call, last, answered, committed, stopper, bounds>>

Writer ==
    \/ Take \/ Wait \/ WriterReturn
    \/ Execute \/ BeginWriteBatch \/ ExecuteBatchedOperation \/ CommitWriteBatch
    \/ Complete \/ FailBatch \/ SetFatal \/ FailPending

Caller(c) == EnqueueNotify(c) \/ GetResult(c)

WriterNext ==
    \/ wpc # "terminated" /\ \/ Writer \/ Throw
                             \/ StopFlag \/ StopNotify \/ StopJoin
                             \/ \E c \in Client : Caller(c)
                             \/ \E c \in Client : \E s \in Sends[c] : Enqueue(c, s[1], s[2])

WriterSpec == WriterInit /\ [][WriterNext]_writerVars

\* The operating system runs every thread that can run.  Nobody has to call or to stop.
WriterFairSpec ==
    /\ WriterSpec
    /\ WF_writerVars(wpc # "terminated" /\ Writer)
    /\ WF_writerVars(wpc # "terminated" /\ (StopNotify \/ StopJoin))
    /\ \A c \in Client : WF_writerVars(wpc # "terminated" /\ Caller(c))

----------------------------------------------------------------------------
(* Properties.                                                             *)

\* Every variable of the writer and its callers stays in its range.
WriterTypeOK ==
    /\ commands \in Seq(Command) /\ batch \in Seq(Command)
    /\ accepted \in 0 .. MaxCalls
    /\ cpc \in [Client -> {"idle", "notify", "get"}]
    /\ call \in [Client -> Command \cup {NoCall}]
    /\ promise \in [Client -> Answer] /\ last \in [Client -> Answer]
    /\ wpc \in {"check", "asleep", "run", "apply", "answer", "failBatch", "setFatal",
                "failPending", "returned", "terminated"}
    /\ applied \in 0 .. Len(batch) \/ fatal
    /\ committed \in Seq(1 .. MaxCalls)
    /\ stopper \in {"no", "flagged", "joining", "joined"}

CommittedIds == {committed[i] : i \in DOMAIN committed}

Store == INSTANCE RuntimeStore WITH
    status <- [c \in Client |->
        IF cpc[c] = "idle" THEN "idle"
        ELSE IF call[c].id \in CommittedIds THEN "applied" ELSE "pending"],
    broken <- throws > 0

\* With batching, rollbacks that hit innocent commands, a racing Stop and exceptions, a
\* call still returns OK exactly when its transaction has been committed.
ImplementsStore == Store!StoreSpec

\* Commands commit in the order in which they were accepted: grouping never lets one
\* overtake another, and none is committed twice.
CommitsFollowAcceptance ==
    \A i, j \in DOMAIN committed : i < j => committed[i] < committed[j]

\* When Stop has returned, the writer thread has gone and no caller is left behind with
\* a promise that nobody will complete.
StopDrains ==
    stopper = "joined" =>
        /\ commands = <<>>
        /\ \A c \in Client : cpc[c] # "idle" => promise[c] # "none"

\* The queue is served first come first served, to the last command.
QueueIsServed == CommitsFollowAcceptance /\ StopDrains

\* Every accepted command is completed and its caller returns, unless the process is
\* terminated: also when Stop or an exception overtakes the command in the queue.
EveryCallReturns ==
    \A c \in Client : cpc[c] = "notify" ~> (cpc[c] = "idle" \/ wpc = "terminated")

\* Stop returns: the join it ends with never waits for a sleeping writer.
StopReturns == (stopper = "flagged") ~> (stopper = "joined" \/ wpc = "terminated")

\* Nobody waits for ever: not a caller for its answer, not Stop for the writer.
CallsReturn == EveryCallReturns /\ StopReturns
=============================================================================
