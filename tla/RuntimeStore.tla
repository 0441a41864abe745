---------------------------- MODULE RuntimeStore ----------------------------
(***************************************************************************)
(* What migrate's threads may rely on when they write task rows through a  *)
(* MigrationRuntimeStore (include/photobridge/app/                         *)
(* migration_runtime_store.h, runtime_db_writer.h): a call returns only    *)
(* after its repository transaction has completed, OK exactly when that    *)
(* transaction has been committed.  Calls of several threads may share one *)
(* transaction.  After an exception in the store an error no longer means  *)
(* that nothing was committed.                                             *)
(***************************************************************************)
CONSTANT Client     \* threads that call the store

VARIABLES
    status,     \* per client: "idle", or its call is "pending" or "applied"
    last,       \* per client: what its last call returned
    broken      \* an exception was thrown while the store worked

storeVars == <<status, last, broken>>

StoreInit ==
    /\ status = [c \in Client |-> "idle"]
    /\ last = [c \in Client |-> "none"]
    /\ broken = FALSE

Call(c) ==
    /\ status[c] = "idle"
    /\ status' = [status EXCEPT ![c] = "pending"]
    /\ UNCHANGED <<last, broken>>

Refuse(c) ==
    /\ status[c] = "idle"
    /\ last' = [last EXCEPT ![c] = "error"]
    /\ UNCHANGED <<status, broken>>

Commit(S) ==
    /\ S # {} /\ \A c \in S : status[c] = "pending"
    /\ status' = [c \in Client |-> IF c \in S THEN "applied" ELSE status[c]]
    /\ UNCHANGED <<last, broken>>

Break ==
    /\ broken' = TRUE
    /\ UNCHANGED <<status, last>>

Return(c) ==
    /\ \/ status[c] = "applied" /\ last' = [last EXCEPT ![c] = "ok"]
       \/ /\ status[c] = "pending" \/ (status[c] = "applied" /\ broken)
          /\ last' = [last EXCEPT ![c] = "error"]
    /\ status' = [status EXCEPT ![c] = "idle"]
    /\ UNCHANGED broken

StoreNext ==
    \/ Break
    \/ \E c \in Client : Call(c) \/ Refuse(c) \/ Return(c)
    \/ \E S \in SUBSET Client : Commit(S)

StoreSpec == StoreInit /\ [][StoreNext]_storeVars
=============================================================================
