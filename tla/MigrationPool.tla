--------------------------- MODULE MigrationPool ---------------------------
(***************************************************************************)
(* The threads of one `migrate` run (MigrationService::Execute in          *)
(* src/pipeline/migration_service.cpp): the main thread claims tasks and   *)
(* puts them into a bounded queue, worker threads take them out and        *)
(* execute them, and the first error stops further claims.  One mutex and  *)
(* one condition variable, queue_changed, serve both sides; a thread that  *)
(* finds its predicate false sleeps until the next notify_all.             *)
(*                                                                         *)
(* Database calls go through the store of module RuntimeStore: atomic, and *)
(* OK exactly when committed.  ExecuteClaimedTask is one step here (its    *)
(* steps are module CommitProtocol): the task becomes VERIFIED_DURABLE,    *)
(* or RETRYABLE, or stays RUNNING because MarkRetryable failed too.        *)
(***************************************************************************)
EXTENDS Naturals, Sequences, FiniteSets

CONSTANTS
    Task,       \* the READY tasks of the plan; a smaller number is claimed first
    Worker,     \* worker threads, 1 .. 8 in the code
    Capacity,   \* queue_capacity, 8 in the code
    MaxErrors   \* bound on failing calls

ASSUME PoolAssumption ==
    /\ Task \subseteq Nat \ {0} /\ Worker # {} /\ Capacity \in Nat \ {0}
    /\ MaxErrors \in Nat

NoItem == 0

VARIABLES
    row,            \* per task: its row, as far as this run changes it
    queue,          \* claimed tasks on their way to a worker
    producerDone,   \* producer_done
    firstError,     \* first_error is set (by a worker)
    producerError,  \* producer_error is set
    claimedCount,   \* claimed_count
    ppc,            \* the main thread
    claim,          \* the task it has claimed and not yet queued
    wpc,            \* per worker thread
    item,           \* per worker thread: the task it executes
    failedItem,     \* per worker thread: that execution returned an error
    unmarked,       \* tasks whose MarkRetryable failed
    late,           \* claims made since first_error was set
    errors

shared == <<queue, producerDone, firstError>>
claims == <<producerError, claimedCount, claim, late>>
items == <<item, failedItem>>
results == <<row, unmarked, errors>>
poolVars == <<shared, ppc, claims, wpc, items, results>>

PoolInit ==
    /\ row = [t \in Task |-> "Ready"]
    /\ queue = <<>> /\ producerDone = FALSE
    /\ firstError = FALSE /\ producerError = FALSE /\ claimedCount = 0
    /\ ppc = "wait" /\ claim = NoItem
    /\ wpc = [w \in Worker |-> "wait"]
    /\ item = [w \in Worker |-> NoItem]
    /\ failedItem = [w \in Worker |-> FALSE]
    /\ unmarked = {} /\ late = 0 /\ errors = 0

\* Every sleeping thread tests its predicate again.
Woken(p) == IF p = "asleep" THEN "wait" ELSE p
AllWoken(f) == [w \in Worker |-> Woken(f[w])]

----------------------------------------------------------------------------
(* The main thread.                                                        *)

OverfullMayClaim == Len(queue) <= Capacity \/ firstError

MayClaim == Len(queue) < Capacity \/ firstError

\* The error is looked at only when the queue is full.
ErrorBlindProducerWait ==
    /\ ppc = "wait"
    /\ ppc' = IF Len(queue) < Capacity THEN "claim"
              ELSE IF firstError THEN "finish" ELSE "asleep"
    /\ UNCHANGED <<shared, results, claims, items, wpc>>

ProducerWait ==
    /\ ppc = "wait"
    /\ ppc' = IF ~MayClaim THEN "asleep" ELSE IF firstError THEN "finish" ELSE "claim"
    /\ UNCHANGED <<shared, results, claims, items, wpc>>

ProducerClaims(t) ==    \* ClaimNextReady, without the mutex
    /\ ppc = "claim"
    /\ row[t] = "Ready" /\ \A u \in Task : row[u] = "Ready" => t <= u
    /\ row' = [row EXCEPT ![t] = "Running"]
    /\ claim' = t /\ claimedCount' = claimedCount + 1
    /\ late' = IF firstError THEN late + 1 ELSE late
    /\ ppc' = "push"
    /\ UNCHANGED <<shared, items, producerError, wpc, unmarked, errors>>

ProducerFindsNone ==    \* NotFound
    /\ ppc = "claim" /\ \A t \in Task : row[t] # "Ready"
    /\ ppc' = "finish"
    /\ UNCHANGED <<shared, results, claims, items, wpc>>

ProducerClaimFails ==
    /\ ppc = "claim" /\ errors < MaxErrors
    /\ errors' = errors + 1
    /\ producerError' = TRUE
    /\ ppc' = "finish"
    /\ UNCHANGED <<shared, items, row, claimedCount, claim, wpc, unmarked, late>>

ProducerPush ==
    /\ ppc = "push"
    /\ queue' = Append(queue, claim) /\ claim' = NoItem
    /\ ppc' = "notifyPush"
    /\ UNCHANGED <<results, items, producerDone, firstError, producerError, claimedCount>>
    /\ UNCHANGED <<wpc, late>>

ProducerNotify ==       \* after the mutex is released
    /\ ppc = "notifyPush"
    /\ ppc' = "wait"
    /\ wpc' = AllWoken(wpc)
    /\ UNCHANGED <<shared, results, claims, items>>

ProducerFinish ==
    /\ ppc = "finish"
    /\ producerDone' = TRUE
    /\ ppc' = "notifyDone"
    /\ UNCHANGED <<results, claims, items, queue, firstError, wpc>>

SilentProducerNotifyDone ==
    /\ ppc = "notifyDone"
    /\ ppc' = "join"
    /\ UNCHANGED <<shared, results, claims, items, wpc>>

ProducerNotifyDone ==
    /\ ppc = "notifyDone"
    /\ ppc' = "join"
    /\ wpc' = AllWoken(wpc)
    /\ UNCHANGED <<shared, results, claims, items>>

\* Join the workers, stop the writer and return the first error there is.
ProducerJoin ==
    /\ ppc = "join" /\ \A w \in Worker : wpc[w] = "returned"
    /\ ppc' = IF producerError \/ firstError \/ claimedCount = 0 THEN "failed" ELSE "ok"
    /\ UNCHANGED <<shared, results, claims, items, wpc>>

Producer ==
    \/ ProducerWait \/ ProducerFindsNone \/ ProducerPush \/ ProducerNotify
    \/ ProducerFinish \/ ProducerNotifyDone \/ ProducerJoin
    \/ \E t \in Task : ProducerClaims(t)

----------------------------------------------------------------------------
(* A worker thread.                                                        *)

WorkerSleeps(w) ==
    /\ wpc[w] = "wait" /\ ~producerDone /\ queue = <<>>
    /\ wpc' = [wpc EXCEPT ![w] = "asleep"]
    /\ UNCHANGED <<shared, results, claims, items, ppc>>

WorkerReturns(w) ==
    /\ wpc[w] = "wait" /\ producerDone /\ queue = <<>>
    /\ wpc' = [wpc EXCEPT ![w] = "returned"]
    /\ UNCHANGED <<shared, results, claims, items, ppc>>

\* The item is read under the lock and removed after the execution.
PeekingWorkerPops(w) ==
    /\ wpc[w] = "wait" /\ queue # <<>>
    /\ item' = [item EXCEPT ![w] = Head(queue)]
    /\ queue' = IF \E v \in Worker : item[v] = Head(queue) THEN Tail(queue) ELSE queue
    /\ wpc' = AllWoken([wpc EXCEPT ![w] = "execute"])
    /\ ppc' = Woken(ppc)
    /\ UNCHANGED <<results, claims, producerDone, firstError, failedItem>>

WorkerPops(w) ==        \* under the mutex, notify_all included
    /\ wpc[w] = "wait" /\ queue # <<>>
    /\ item' = [item EXCEPT ![w] = Head(queue)]
    /\ queue' = Tail(queue)
    /\ wpc' = AllWoken([wpc EXCEPT ![w] = "execute"])
    /\ ppc' = Woken(ppc)
    /\ UNCHANGED <<results, claims, producerDone, firstError, failedItem>>

WorkerExecutes(w) ==
    /\ wpc[w] = "execute"
    /\ wpc' = [wpc EXCEPT ![w] = "report"]
    /\ LET t == item[w] IN
       \/ /\ row' = [row EXCEPT ![t] = "Verified"]
          /\ UNCHANGED <<failedItem, unmarked, errors>>
       \/ /\ errors < MaxErrors /\ errors' = errors + 1
          /\ row' = [row EXCEPT ![t] = "Retryable"]
          /\ failedItem' = [failedItem EXCEPT ![w] = TRUE]
          /\ UNCHANGED unmarked
       \/ /\ errors + 1 < MaxErrors /\ errors' = errors + 2
          /\ failedItem' = [failedItem EXCEPT ![w] = TRUE]
          /\ unmarked' = unmarked \cup {t}
          /\ UNCHANGED row
    /\ UNCHANGED <<shared, claims, ppc, item>>

\* The result is not looked at.
DeafWorkerReports(w) ==
    /\ wpc[w] = "report"
    /\ item' = [item EXCEPT ![w] = NoItem]
    /\ failedItem' = [failedItem EXCEPT ![w] = FALSE]
    /\ wpc' = AllWoken([wpc EXCEPT ![w] = "wait"])
    /\ ppc' = Woken(ppc)
    /\ UNCHANGED <<shared, results, claims>>

WorkerReports(w) ==     \* under the mutex, notify_all included
    /\ wpc[w] = "report"
    /\ firstError' = (firstError \/ failedItem[w])
    /\ item' = [item EXCEPT ![w] = NoItem]
    /\ failedItem' = [failedItem EXCEPT ![w] = FALSE]
    /\ wpc' = AllWoken([wpc EXCEPT ![w] = "wait"])
    /\ ppc' = Woken(ppc)
    /\ UNCHANGED <<results, claims, queue, producerDone>>

WorkerThread(w) ==
    \/ WorkerSleeps(w) \/ WorkerReturns(w) \/ WorkerPops(w) \/ WorkerExecutes(w)
    \/ WorkerReports(w)

----------------------------------------------------------------------------
PoolNext == Producer \/ ProducerClaimFails \/ \E w \in Worker : WorkerThread(w)

PoolSpec == PoolInit /\ [][PoolNext]_poolVars

\* Every thread that can run is run; a copy ends, with success or with an error.
PoolFairSpec ==
    /\ PoolSpec
    /\ WF_poolVars(Producer)
    /\ \A w \in Worker : WF_poolVars(WorkerThread(w))

----------------------------------------------------------------------------
(* Properties.                                                             *)

Ended == ppc \in {"ok", "failed"}

\* Every variable of the pool stays in its range, and the queue within its capacity
\* although its length is tested and used under two different locks.
PoolTypeOK ==
    /\ row \in [Task -> {"Ready", "Running", "Verified", "Retryable"}]
    /\ queue \in Seq(Task) /\ Len(queue) <= Capacity
    /\ ppc \in {"wait", "asleep", "claim", "push", "notifyPush", "finish", "notifyDone",
                "join", "ok", "failed"}
    /\ claim \in Task \cup {NoItem}
    /\ wpc \in [Worker -> {"wait", "asleep", "execute", "report", "returned"}]
    /\ item \in [Worker -> Task \cup {NoItem}]

\* A claimed task is in exactly one place until it is executed: with the main thread,
\* once in the queue, or with one worker.
OneExecutor ==
    \A t \in Task :
        LET places == {<<"queue", i>> : i \in {j \in DOMAIN queue : queue[j] = t}}
                      \cup {<<"worker", w>> : w \in {v \in Worker : item[v] = t}}
                      \cup {<<"claim", n>> : n \in {claim} \cap {t}}
        IN  /\ Cardinality(places) <= 1
            /\ row[t] = "Running" /\ t \notin unmarked => Cardinality(places) = 1

\* A run that has ended has executed everything it claimed: a task is left RUNNING
\* without a receipt only if its own MarkRetryable failed.
NothingAbandoned ==
    Ended => \A t \in Task : row[t] = "Running" => t \in unmarked

\* Every claimed task is handed to exactly one worker and is in nobody's hands at the end.
TasksHandedOver == OneExecutor /\ NothingAbandoned

\* migrate reports success only if every task of the plan is verified and waits for
\* resume; no error of a worker or of a claim is lost on the way.
SuccessMeansAllVerified == ppc = "ok" => \A t \in Task : row[t] = "Verified"

\* After the first error at most the claim already under way is made.
ErrorStopsClaims == late <= 1

\* The run ends: no interleaving leaves the main thread and the workers waiting for
\* each other's notification.
RunEnds == <>Ended
=============================================================================
