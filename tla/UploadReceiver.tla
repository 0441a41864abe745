-------------------------- MODULE UploadReceiver --------------------------
(***************************************************************************)
(* The upload receiver of `serve`: the HTTP handlers                       *)
(* (src/filesystem/http_server.cpp) and the store behind them              *)
(* (src/filesystem/upload_session_store.cpp).                              *)
(*                                                                         *)
(* Handlers run on a pool of threads (the library's default) and share ONE *)
(* SQLite connection, opened with FULLMUTEX: single calls are serialised,  *)
(* transactions are not.  While one thread has a transaction open, BEGIN   *)
(* of another thread fails, and a statement another thread executes        *)
(* without BEGIN (MarkUploadFailed) becomes part of that transaction and   *)
(* is undone if it is rolled back; a SELECT without BEGIN (GetSession)     *)
(* sees the rows it has written.  So every SQLite call that matters is a   *)
(* step of its own: `db` is what the connection sees, `committed` what is  *)
(* on disk, `txn` the thread whose transaction is open.                    *)
(*                                                                         *)
(* A body is one of a few contents.  Sizes of single files, file names,    *)
(* authorisation, JSON and the received-bytes counter of a session are     *)
(* left out; requests refused before BEGIN change nothing and are          *)
(* stuttering steps.  UPDATE and the sqlite3_changes call after it are one *)
(* step: the only foreign statement that can come between them updates     *)
(* exactly one row, and so did the UPDATE.  (If the session was COMPLETE   *)
(* already, such a statement makes CompleteSession commit and answer 200;  *)
(* the rows are as if that statement had come after the rollback.)         *)
(***************************************************************************)
EXTENDS Naturals, FiniteSets

CONSTANTS
    Request,        \* handler threads
    Session, File,
    SessionOf,      \* the session a file is registered in
    Size,           \* per session: expected_total_bytes
    MaxReserved,    \* quota: max_reserved_bytes
    Body,           \* contents clients send
    Hashed,         \* files registered with a client_digest ...
    Announced,      \* ... which is the digest of this body
    NoOne,          \* no thread, no file, no digest
    MaxRequests,    \* bound on requests
    MaxFaults       \* bound on kills, power losses and failing calls

Absent == "absent"      \* no such name
Partial == "partial"    \* some of a body

ASSUME UploadAssumption ==
    /\ SessionOf \in [File -> Session] /\ Size \in [Session -> Nat]
    /\ MaxReserved \in Nat /\ MaxRequests \in Nat /\ MaxFaults \in Nat
    /\ Hashed \subseteq File /\ Announced \in Body
    /\ NoOne \notin Request \cup File \cup Body \cup Session
    /\ Body \cap {Absent, Partial} = {}

UploadFileState == {"Absent", "Pending", "Receiving", "Received", "Failed"}
UploadSessionState == {"Absent", "Open", "Complete"}    \* FAILED is never written
Rows == [file : [File -> UploadFileState], digest : [File -> Body \cup {NoOne}],
         session : [Session -> UploadSessionState]]

\* Threads that have begun an upload and not yet ended it in the table ...
Receiving == {"create", "body", "hash", "mark422", "markFailed", "publish", "syncDir",
              "commitBegin", "commitUpdate", "commitCommit"}
\* ... and those with an open transaction.
InTransaction == {"putSelect", "putUpdate", "putCommit", "commitUpdate", "commitCommit",
                  "completeSelect", "completeCommit", "createCheck", "createInsert",
                  "createCommit", "rollback"}
Step == Receiving \cup InTransaction \cup {"idle", "putBegin", "unlink422",
                                           "completeBegin", "createBegin"}

NoRequest == [file |-> NoOne, body |-> NoOne, session |-> NoOne]
VARIABLES
    server,     \* "serving", "down" or "recovering" (UploadSessionStore::Open)
    db,         \* the rows as the connection sees them
    committed,  \* the committed rows
    txn,        \* the thread whose transaction is open
    pc,         \* per thread: the next call of its handler
    req,        \* per thread: its request
    temp,       \* per file: what is at TempPath
    final,      \* per file: what is at FinalPath
    synced,     \* files whose final name has been synced
    noDir,      \* sessions whose directory incoming/<s> a power loss has taken ...
    noTempDir,  \* ... and those whose incoming/.tmp/<s> it has taken
    settled,    \* sessions whose directories, if they are there, are on the disk
    acked,      \* files a PUT has been told are RECEIVED
    shown,      \* files a GET of their session has shown as RECEIVED
    adopted,    \* files RecoverInterruptedUploads marked RECEIVED
    unreadable, \* files whose final it could not read or commit
    powerLost, requests, faults

rows == <<db, committed, txn>>
handlers == <<pc, req>>
names == <<temp, final, synced>>
dirs == <<noDir, noTempDir, settled>>
history == <<acked, shown, adopted, unreadable, powerLost, dirs>>
uploadVars == <<server, rows, handlers, names, history, requests, faults>>

UploadInit ==
    /\ server = "serving"
    /\ db = [file |-> [f \in File |-> "Absent"], digest |-> [f \in File |-> NoOne],
             session |-> [s \in Session |-> "Absent"]]
    /\ committed = db /\ txn = NoOne
    /\ pc = [r \in Request |-> "idle"] /\ req = [r \in Request |-> NoRequest]
    /\ temp = [f \in File |-> Absent] /\ final = [f \in File |-> Absent] /\ synced = {}
    /\ noDir = {} /\ noTempDir = {} /\ settled = {}
    /\ acked = {} /\ shown = {} /\ adopted = {} /\ unreadable = {} /\ powerLost = FALSE
    /\ requests = 0 /\ faults = 0

----------------------------------------------------------------------------
(* The shared connection.                                                  *)

Goto(r, step) == pc' = [pc EXCEPT ![r] = step] /\ UNCHANGED req
Finish(r) == pc' = [pc EXCEPT ![r] = "idle"] /\ req' = [req EXCEPT ![r] = NoRequest]

\* The result of BEGIN is not looked at: the thread goes on in the other's transaction.
UncheckedBegin(r, at, next) ==
    /\ pc[r] = at
    /\ txn' = IF txn = NoOne THEN r ELSE txn
    /\ Goto(r, next)
    /\ UNCHANGED <<server, db, committed, names, history, requests, faults>>

\* BEGIN IMMEDIATE.  Inside another thread's transaction it is an error: the handler
\* answers 500 and does nothing more.
Begin(r, at, next) ==
    /\ pc[r] = at
    /\ IF txn = NoOne THEN txn' = r /\ Goto(r, next) ELSE Finish(r) /\ UNCHANGED txn
    /\ UNCHANGED <<server, db, committed, names, history, requests, faults>>

Commit == committed' = db /\ txn' = NoOne /\ UNCHANGED db

Rollback(r) ==
    /\ pc[r] = "rollback"
    /\ db' = committed /\ txn' = NoOne
    /\ Finish(r)
    /\ UNCHANGED <<server, committed, names, history, requests, faults>>

\* One statement without BEGIN: committed at once, or part of whatever is open.
Autocommit(rowsNow) ==
    /\ db' = rowsNow
    /\ committed' = IF txn = NoOne THEN rowsNow ELSE committed
    /\ UNCHANGED txn

SetFile(f, s) == [db EXCEPT !.file[f] = s]

\* UPDATE ... SET state = 3 WHERE ... AND state = 1.
MarkUploadFailed(f) ==
    Autocommit(IF db.file[f] = "Receiving" THEN SetFile(f, "Failed") ELSE db)

----------------------------------------------------------------------------
(* POST /sessions and POST /sessions/<s>/complete.                         *)

Arrives(r) ==
    /\ server = "serving" /\ pc[r] = "idle"
    /\ requests < MaxRequests /\ requests' = requests + 1

StartCreate(r, s) ==
    /\ Arrives(r)
    /\ db.session[s] = "Absent" /\ \A q \in Request : req[q].session # s
    /\ pc' = [pc EXCEPT ![r] = "createBegin"]
    /\ req' = [req EXCEPT ![r].session = s]
    /\ UNCHANGED <<server, rows, names, history, faults>>

\* SUM(expected_total_bytes) over all sessions that are not FAILED: the bytes, each a
\* session and a number in it, are counted.
Registered(d) == {s \in Session : d.session[s] # "Absent"}
ReservedBytes(d) == UNION {{s} \X (1 .. Size[s]) : s \in Registered(d)}
Reserved(d) == Cardinality(ReservedBytes(d))

\* The new session itself is not counted.
LaxWithinQuota(s) == Reserved(db) <= MaxReserved

WithinQuota(s) == Reserved(db) + Size[s] <= MaxReserved

CreateBegin(r) == Begin(r, "createBegin", "createCheck")

CreateCheck(r) ==       \* SELECT SUM
    /\ pc[r] = "createCheck"
    /\ Goto(r, IF WithinQuota(req[r].session) THEN "createInsert" ELSE "rollback")
    /\ UNCHANGED <<server, rows, names, history, requests, faults>>

CreateInsert(r) ==      \* the two directories, then the rows
    /\ pc[r] = "createInsert"
    /\ LET s == req[r].session IN
       db' = [db EXCEPT !.session[s] = "Open",
                        !.file = [f \in File |->
                            IF SessionOf[f] = s THEN "Pending" ELSE db.file[f]]]
    /\ Goto(r, "createCommit")
    /\ UNCHANGED <<server, committed, txn, names, history, requests, faults>>

CreateCommit(r) ==
    /\ pc[r] = "createCommit"
    /\ Commit /\ Finish(r)
    /\ UNCHANGED <<server, names, history, requests, faults>>

StartComplete(r, s) ==
    /\ Arrives(r)
    /\ pc' = [pc EXCEPT ![r] = "completeBegin"]
    /\ req' = [req EXCEPT ![r].session = s]
    /\ UNCHANGED <<server, rows, names, history, faults>>

CompleteBegin(r) == Begin(r, "completeBegin", "completeSelect")

Incomplete(s) == {f \in File : SessionOf[f] = s /\ db.file[f] # "Received"}

CompleteSelect(r) ==    \* the count, then UPDATE ... WHERE state = 0
    /\ pc[r] = "completeSelect"
    /\ LET s == req[r].session IN
       IF db.session[s] = "Open" /\ Incomplete(s) = {}
       THEN db' = [db EXCEPT !.session[s] = "Complete"] /\ Goto(r, "completeCommit")
       ELSE Goto(r, "rollback") /\ UNCHANGED db
    /\ UNCHANGED <<server, committed, txn, names, history, requests, faults>>

CompleteCommit(r) ==
    /\ pc[r] = "completeCommit"
    /\ Commit /\ Finish(r)
    /\ UNCHANGED <<server, names, history, requests, faults>>

----------------------------------------------------------------------------
(* PUT /sessions/<s>/files/<f>.                                            *)

StartPut(r, f, b) ==    \* GetFile
    /\ Arrives(r)
    /\ db.file[f] # "Absent"
    /\ pc' = [pc EXCEPT ![r] = "putBegin"]
    /\ req' = [req EXCEPT ![r].file = f, ![r].body = b]
    /\ UNCHANGED <<server, rows, names, history, faults>>

PutBegin(r) == Begin(r, "putBegin", "putSelect")

PutSelect(r) ==         \* RECEIVED: answer 200; RECEIVING: answer 409
    /\ pc[r] = "putSelect"
    /\ LET f == req[r].file IN
       /\ Goto(r, IF db.file[f] \in {"Received", "Receiving"} THEN "rollback"
                  ELSE "putUpdate")
       /\ acked' = IF db.file[f] = "Received" THEN acked \cup {f} ELSE acked
    /\ UNCHANGED <<server, rows, names, shown, adopted, unreadable, powerLost, dirs,
                   requests, faults>>

PutUpdate(r) ==         \* UPDATE ... SET state = 1 WHERE ... AND state IN (0, 3)
    /\ pc[r] = "putUpdate"
    /\ IF db.file[req[r].file] \in {"Pending", "Failed"}
       THEN db' = SetFile(req[r].file, "Receiving") /\ Goto(r, "putCommit")
       ELSE Goto(r, "rollback") /\ UNCHANGED db
    /\ UNCHANGED <<server, committed, txn, names, history, requests, faults>>

PutCommit(r) ==
    /\ pc[r] = "putCommit"
    /\ Commit /\ Goto(r, "create")
    /\ UNCHANGED <<server, names, history, requests, faults>>

CreateTempFile(r) ==    \* remove what is there, then O_CREAT | O_EXCL
    /\ pc[r] = "create"
    /\ IF SessionOf[req[r].file] \in noTempDir
       THEN Goto(r, "markFailed") /\ UNCHANGED temp
       ELSE temp' = [temp EXCEPT ![req[r].file] = Partial] /\ Goto(r, "body")
    /\ UNCHANGED <<server, rows, final, synced, history, requests, faults>>

\* All bytes written, their number right, fsync and close succeeded.  If another
\* request has unlinked the name meanwhile, the file has none.
ReceiveBody(r) ==
    /\ pc[r] = "body"
    /\ temp' = [temp EXCEPT ![req[r].file] = IF @ = Absent THEN Absent ELSE req[r].body]
    /\ Goto(r, "hash")
    /\ UNCHANGED <<server, rows, final, synced, history, requests, faults>>

\* Too many bytes, too few, a lost connection or a failed write.
ReceiveBodyFails(r) ==
    /\ pc[r] = "body"
    /\ temp' = [temp EXCEPT ![req[r].file] = Absent]
    /\ Goto(r, "markFailed")
    /\ UNCHANGED <<server, rows, final, synced, history, requests, faults>>

HandlerMarksFailed(r) ==
    /\ pc[r] = "markFailed"
    /\ MarkUploadFailed(req[r].file)
    /\ Finish(r)
    /\ UNCHANGED <<server, names, history, requests, faults>>

UnhashedHashMatches(f, b) == TRUE

HashMatches(f, b) == f \in Hashed => b = Announced

CheckClientDigest(r) ==
    /\ pc[r] = "hash"
    /\ Goto(r, IF HashMatches(req[r].file, req[r].body) THEN "publish" ELSE "mark422")
    /\ UNCHANGED <<server, rows, names, history, requests, faults>>

MarkMismatch(r) ==
    /\ pc[r] = "mark422"
    /\ MarkUploadFailed(req[r].file)
    /\ Goto(r, "unlink422")
    /\ UNCHANGED <<server, names, history, requests, faults>>

\* The name may belong to the next request for the file by now.
UnlinkMismatch(r) ==
    /\ pc[r] = "unlink422"
    /\ temp' = [temp EXCEPT ![req[r].file] = Absent]
    /\ Finish(r)
    /\ UNCHANGED <<server, rows, final, synced, history, requests, faults>>

PublishNoReplace(r) ==
    /\ pc[r] = "publish"
    /\ LET f == req[r].file IN
       IF temp[f] # Absent /\ final[f] = Absent /\ SessionOf[f] \notin noDir
       THEN /\ final' = [final EXCEPT ![f] = temp[f]]
            /\ temp' = [temp EXCEPT ![f] = Absent]
            /\ Goto(r, "syncDir")
       ELSE Goto(r, "markFailed") /\ UNCHANGED <<temp, final>>
    /\ UNCHANGED <<server, rows, synced, history, requests, faults>>

SyncDirectory(r) ==     \* of the session: every name in it
    /\ pc[r] = "syncDir"
    /\ synced' = synced \cup {f \in File : /\ SessionOf[f] = SessionOf[req[r].file]
                                           /\ final[f] # Absent}
    /\ Goto(r, "commitBegin")
    /\ UNCHANGED <<server, rows, temp, final, history, requests, faults>>

CommitBegin(r) == Begin(r, "commitBegin", "commitUpdate")

\* The client has its answer before COMMIT.
EarlyCommitUpdate(r) ==
    /\ pc[r] = "commitUpdate"
    /\ LET f == req[r].file IN
       /\ db' = [db EXCEPT !.file[f] = "Received", !.digest[f] = req[r].body]
       /\ acked' = acked \cup {f}
    /\ Goto(r, "commitCommit")
    /\ UNCHANGED <<server, committed, txn, names, shown, adopted, unreadable, powerLost>>
    /\ UNCHANGED <<dirs, requests, faults>>

CommitUpdate(r) ==      \* UPDATE ... SET state = 2 WHERE ... AND state = 1
    /\ pc[r] = "commitUpdate"
    /\ LET f == req[r].file IN
       IF db.file[f] = "Receiving"
       THEN /\ db' = [db EXCEPT !.file[f] = "Received", !.digest[f] = req[r].body]
            /\ Goto(r, "commitCommit")
       ELSE Goto(r, "rollback") /\ UNCHANGED db
    /\ UNCHANGED <<server, committed, txn, names, history, requests, faults>>

CommitCommit(r) ==      \* and answer 201
    /\ pc[r] = "commitCommit"
    /\ Commit /\ Finish(r)
    /\ acked' = acked \cup {req[r].file}
    /\ UNCHANGED <<server, names, shown, adopted, unreadable, powerLost, dirs>>
    /\ UNCHANGED <<requests, faults>>

\* GET /sessions/<s>: GetSession reads the rows one after the other, without BEGIN, and so
\* also what an open transaction of another thread has written.  (States other than RECEIVED,
\* and the state of the session, are shown too and not kept here.)
GetSession(f) ==
    /\ server = "serving" /\ db.file[f] = "Received"
    /\ shown' = shown \cup {f}
    /\ UNCHANGED <<server, rows, handlers, names, acked, adopted, unreadable, powerLost>>
    /\ UNCHANGED <<dirs, requests, faults>>

Handler(r) ==
    \/ CreateBegin(r) \/ CreateCheck(r) \/ CreateInsert(r) \/ CreateCommit(r)
    \/ CompleteBegin(r) \/ CompleteSelect(r) \/ CompleteCommit(r)
    \/ PutBegin(r) \/ PutSelect(r) \/ PutUpdate(r) \/ PutCommit(r)
    \/ CreateTempFile(r) \/ ReceiveBody(r) \/ ReceiveBodyFails(r)
    \/ CheckClientDigest(r) \/ MarkMismatch(r) \/ UnlinkMismatch(r)
    \/ PublishNoReplace(r) \/ SyncDirectory(r)
    \/ CommitBegin(r) \/ CommitUpdate(r) \/ CommitCommit(r)
    \/ HandlerMarksFailed(r) \/ Rollback(r)

----------------------------------------------------------------------------
(* Faults, and the start of the server.                                    *)

Fault == faults < MaxFaults /\ faults' = faults + 1 /\ UNCHANGED requests

\* A statement or COMMIT fails: rollback() and an error.
StatementFails(r) ==
    /\ pc[r] \in InTransaction \ {"rollback"} /\ Fault
    /\ Goto(r, "rollback")
    /\ UNCHANGED <<server, rows, names, history>>

\* The rename fails for another reason than an existing final.
PublishFails(r) ==
    /\ pc[r] = "publish" /\ Fault
    /\ Goto(r, "markFailed")
    /\ UNCHANGED <<server, rows, names, history>>

\* The result of MarkUploadFailed is not looked at: the row stays RECEIVING.
MarkFails(r) ==
    /\ pc[r] \in {"mark422", "markFailed"} /\ Fault
    /\ IF pc[r] = "mark422" THEN Goto(r, "unlink422") ELSE Finish(r)
    /\ UNCHANGED <<server, rows, names, history>>

\* The failed upload is released for a retry.
ReleasingSyncFails(r) ==
    /\ pc[r] = "syncDir" /\ Fault
    /\ MarkUploadFailed(req[r].file)
    /\ Finish(r)
    /\ UNCHANGED <<server, names, history>>

SyncFails(r) ==         \* answer 500; the row stays RECEIVING
    /\ pc[r] = "syncDir" /\ Fault
    /\ Finish(r)
    /\ UNCHANGED <<server, rows, names, history>>

\* Threads and the open transaction are gone.
Stopped ==
    /\ server' = "down"
    /\ db' = committed /\ txn' = NoOne /\ UNCHANGED committed
    /\ pc' = [r \in Request |-> "idle"] /\ req' = [r \in Request |-> NoRequest]

Kill ==
    /\ server # "down" /\ Fault
    /\ Stopped
    /\ UNCHANGED <<names, history>>

\* Renames that were not synced may be undone; contents were synced before the rename.
\* The directories CreateSession has made may be gone with all that is in them, for their
\* parents are never synced; nothing makes them again.  What is left is on the disk.
PowerLoss ==
    /\ Fault
    /\ Stopped
    /\ powerLost' = TRUE
    /\ settled' = settled \cup Registered(committed)
    /\ \E taken, takenTemp \in SUBSET (Registered(committed) \ settled),
          undone \in SUBSET {f \in File : final[f] # Absent /\ f \notin synced} :
           /\ noDir' = noDir \cup taken /\ noTempDir' = noTempDir \cup takenTemp
           /\ temp' = [f \in File |->
                          IF SessionOf[f] \in takenTemp THEN Absent
                          ELSE IF f \in undone THEN final[f] ELSE temp[f]]
           /\ final' = [f \in File |->
                          IF SessionOf[f] \in taken \/ f \in undone THEN Absent
                          ELSE final[f]]
           /\ synced' = {f \in File : final'[f] # Absent}
    /\ UNCHANGED <<acked, shown, adopted, unreadable>>

Open ==
    /\ server = "down"
    /\ server' = "recovering"
    /\ UNCHANGED <<rows, handlers, names, history, requests, faults>>

\* What is left of the body is adopted too, without looking for the final name.
TempAdoptingRecoverUpload(f) ==
    /\ server = "recovering" /\ db.file[f] = "Receiving"
    /\ IF temp[f] # Absent
       THEN /\ Autocommit([db EXCEPT !.file[f] = "Received", !.digest[f] = temp[f]])
            /\ temp' = [temp EXCEPT ![f] = Absent]
            /\ adopted' = adopted \cup {f}
       ELSE Autocommit(SetFile(f, "Failed")) /\ UNCHANGED <<temp, adopted>>
    /\ UNCHANGED <<server, handlers, final, synced, acked, shown, unreadable, powerLost>>
    /\ UNCHANGED <<dirs, requests, faults>>

\* A RECEIVING row whose final has the expected size is committed with the digest of
\* what is there (the directory is not synced); any other becomes FAILED.
RecoverUpload(f) ==
    /\ server = "recovering" /\ db.file[f] = "Receiving"
    /\ IF final[f] # Absent
       THEN /\ Autocommit([db EXCEPT !.file[f] = "Received", !.digest[f] = final[f]])
            /\ temp' = [temp EXCEPT ![f] = Absent]
            /\ adopted' = adopted \cup {f}
       ELSE Autocommit(SetFile(f, "Failed")) /\ UNCHANGED <<temp, adopted>>
    /\ UNCHANGED <<server, handlers, final, synced, acked, shown, unreadable, powerLost>>
    /\ UNCHANGED <<dirs, requests, faults>>

\* Hashing the final or CommitUpload fails: FAILED, and the final stays.
RecoverUnreadable(f) ==
    /\ server = "recovering" /\ db.file[f] = "Receiving" /\ final[f] # Absent /\ Fault
    /\ Autocommit(SetFile(f, "Failed"))
    /\ unreadable' = unreadable \cup {f}
    /\ UNCHANGED <<server, handlers, names, acked, shown, adopted, powerLost, dirs>>

Listen ==
    /\ server = "recovering" /\ \A f \in File : db.file[f] # "Receiving"
    /\ server' = "serving"
    /\ UNCHANGED <<rows, handlers, names, history, requests, faults>>

UploadNext ==
    \/ \E r \in Request :
        \/ Handler(r)
        \/ StatementFails(r) \/ PublishFails(r) \/ MarkFails(r) \/ SyncFails(r)
        \/ \E s \in Session : StartCreate(r, s) \/ StartComplete(r, s)
        \/ \E f \in File, b \in Body : StartPut(r, f, b)
    \/ \E f \in File : GetSession(f) \/ RecoverUpload(f) \/ RecoverUnreadable(f)
    \/ Kill \/ PowerLoss \/ Open \/ Listen

UploadSpec == UploadInit /\ [][UploadNext]_uploadVars

----------------------------------------------------------------------------
(* Properties.                                                             *)

Receives(r, f) == pc[r] \in Receiving /\ req[r].file = f

\* Every variable stays in its range; a transaction belongs to a thread that is in one.
UploadTypeOK ==
    /\ server \in {"serving", "down", "recovering"}
    /\ db \in Rows /\ committed \in Rows
    /\ pc \in [Request -> Step]
    /\ \A r \in Request : txn = r <=> pc[r] \in InTransaction
    /\ temp \in [File -> Body \cup {Absent, Partial}]
    /\ final \in [File -> Body \cup {Absent}]
    /\ synced \subseteq File /\ faults \in 0 .. MaxFaults
    /\ noDir \subseteq settled /\ noTempDir \subseteq settled /\ settled \subseteq Session

\* Whatever the threads do to each other's transactions, one request at a time receives
\* a file, and while it does the table says RECEIVING.
OneReceiver ==
    \A r \in Request, f \in File : Receives(r, f) =>
        /\ \A q \in Request : Receives(q, f) => q = r
        /\ committed.file[f] = "Receiving"

\* What is at the final name is on the disk to stay: the name has been synced.  Of a file
\* that a restarted server adopted this holds until a power loss, and a power loss may take
\* the directory of a session, whose own name is never synced.
Stored(f) ==
    \/ SessionOf[f] \in noDir
    \/ f \in adopted /\ (powerLost \/ final[f] # Absent)
    \/ f \in synced /\ final[f] # Absent

\* A RECEIVED file is stored, with the content whose digest is in the table.
ReceivedIsStored ==
    \A f \in File : committed.file[f] = "Received" =>
        Stored(f) /\ final[f] \in {committed.digest[f], Absent}

\* A client whose PUT was answered RECEIVED, by 201 or by 200, is told the truth for ever:
\* no rollback of another thread and no restart takes the row back.
AcknowledgedStays == \A f \in acked : committed.file[f] = "Received"

\* A file that a GET has shown as RECEIVED is stored, although the row it saw may not have
\* been committed and may be rolled back (COMMIT fails, the server is killed): the name
\* was synced before the row was written.
ShownIsStored == \A f \in shown : Stored(f)

\* RECEIVED is lasting: in the table, in the directory and towards the client.
ReceivedStays == ReceivedIsStored /\ AcknowledgedStays /\ ShownIsStored

\* A file registered with a digest is RECEIVED only with that content, although the
\* restarted server adopts what it finds without comparing it with client_digest.
HashedIsRight ==
    \A f \in Hashed : committed.file[f] = "Received" => committed.digest[f] = Announced

\* A session is COMPLETE only when all its files are RECEIVED, in the committed rows.
CompleteIsFull ==
    \A s \in Session : committed.session[s] = "Complete" =>
        \A f \in File : SessionOf[f] = s => committed.file[f] = "Received"

\* COMPLETE is earned: all files are there, and those announced with a digest match it.
CompleteIsRight == HashedIsRight /\ CompleteIsFull

\* Sessions created at the same time never reserve more than the quota together.
QuotaHeld == Reserved(committed) <= MaxReserved

\* A file that may be uploaded again has nothing at its final name, where the upload
\* would fail on it for ever; only a final that recovery could not read is in the way.
\* (Where a power loss has taken a directory of the session, no upload succeeds again.)
RetryIsOpen ==
    \A f \in File : committed.file[f] \in {"Pending", "Failed"} =>
        final[f] = Absent \/ f \in unreadable

\* The answer 409 "upload is already receiving" is given only while another request is
\* receiving that file.
BusyMeansReceiving ==
    [][\A r \in Request :
        /\ pc[r] = "putSelect" /\ pc'[r] = "rollback" /\ faults' = faults
        /\ db.file[req[r].file] = "Receiving"
        => \E q \in Request : Receives(q, req[r].file)]_uploadVars
=============================================================================
