----------------------- MODULE UploadReceiver_proofs -----------------------
(***************************************************************************)
(* TLAPS proofs about module UploadReceiver, for every set of handler      *)
(* threads, sessions, files and contents: a file has one receiver, what is *)
(* RECEIVED stays received and stored, COMPLETE sessions are full, digests *)
(* match, and a file that may be uploaded again can be.                    *)
(***************************************************************************)
EXTENDS UploadReceiver, FiniteSetTheorems, TLAPS

\* Steps of a PUT, and of the two requests about a session.
PutStep == Receiving \cup {"putBegin", "putSelect", "putUpdate", "putCommit", "unlink422"}
SessionStep == {"createBegin", "createCheck", "createInsert", "createCommit",
                "completeBegin", "completeSelect", "completeCommit"}

\* Requests keep what they were sent with.
RequestsOK ==
    /\ txn \in Request \cup {NoOne}
    /\ req \in [Request -> [file : File \cup {NoOne}, body : Body \cup {NoOne},
                            session : Session \cup {NoOne}]]
    /\ \A r \in Request :
           /\ pc[r] \in PutStep => req[r].file \in File /\ req[r].body \in Body
           /\ pc[r] \in SessionStep => req[r].session \in Session
    /\ acked \subseteq File /\ adopted \subseteq File

\* Nothing runs in a server that is down or recovering.
StoppedIsIdle == server # "serving" => \A r \in Request : pc[r] = "idle"

\* The rows of the connection and the committed rows: the same without a transaction, and
\* RECEIVED is only ever added, by the thread that commits an upload.
DbAhead ==
    /\ txn = NoOne => db = committed
    /\ \A f \in File : committed.file[f] = "Received" =>
           db.file[f] = "Received" /\ db.digest[f] = committed.digest[f]
    /\ \A f \in File : db.file[f] = "Received" =>
           \/ committed.file[f] = "Received"
           \/ \E r \in Request : pc[r] \in {"commitCommit", "rollback"} /\ req[r].file = f
    /\ \A s \in Session : db.session[s] = "Absent" => committed.session[s] = "Absent"

\* A session about to be created does not exist, and one thread creates it.
Creating == {"createBegin", "createCheck", "createInsert"}
CreatorsAlone ==
    \A r \in Request : pc[r] \in Creating =>
        /\ db.session[req[r].session] = "Absent"
        /\ \A q \in Request : pc[q] \in Creating \cup {"createCommit"}
                              /\ req[q].session = req[r].session => q = r

\* What the properties say of the committed rows holds of the rows of the connection too.
FilesAreRegistered(d) ==
    \A f \in File : d.session[SessionOf[f]] = "Absent" => d.file[f] = "Absent"
StoredRows(d) ==
    \A f \in File : d.file[f] = "Received" =>
        Stored(f) /\ final[f] \in {d.digest[f], Absent}
Matching(d) == \A f \in Hashed : d.file[f] = "Received" => d.digest[f] = Announced
Full(d) ==
    \A s \in Session : d.session[s] = "Complete" =>
        \A f \in File : SessionOf[f] = s => d.file[f] = "Received"
Free(f) == final[f] = Absent \/ f \in unreadable
Reopened(d) == \A f \in File : d.file[f] \in {"Absent", "Pending", "Failed"} => Free(f)
RowsRight(d) ==
    FilesAreRegistered(d) /\ StoredRows(d) /\ Matching(d) /\ Full(d) /\ Reopened(d)

\* A receiver is alone with its row, its temp and its final.
BeforePublish == {"create", "body", "hash", "mark422", "markFailed", "publish"}
AfterPublish == {"syncDir", "commitBegin", "commitUpdate", "commitCommit"}
RowOfReceiver ==
    \A r \in Request, f \in File : Receives(r, f) =>
        /\ committed.file[f] = "Receiving"
        /\ \/ db.file[f] = "Receiving" /\ pc[r] # "commitCommit"
           \/ /\ pc[r] = "commitCommit"
              /\ db.file[f] = "Received" /\ db.digest[f] = req[r].body
ReceiverAlone ==
    \A r, q \in Request, f \in File : Receives(r, f) /\ Receives(q, f) => q = r
NamesOfReceiver ==
    \A r \in Request, f \in File : Receives(r, f) =>
        /\ pc[r] = "body" => temp[f] \in {Absent, Partial}
        /\ pc[r] \in {"hash", "publish"} => temp[f] \in {Absent, req[r].body}
        /\ pc[r] \in BeforePublish => Free(f)
        /\ pc[r] \in AfterPublish => final[f] = req[r].body
        /\ pc[r] \in AfterPublish \cup {"publish"} => HashMatches(f, req[r].body)
        /\ pc[r] \in {"commitBegin", "commitUpdate", "commitCommit"} => f \in synced

\* A PUT about to become the receiver finds no other.
NextReceiver ==
    \A r \in Request : pc[r] = "putCommit" =>
        /\ db.file[req[r].file] = "Receiving" /\ Free(req[r].file)
        /\ \A q \in Request : ~Receives(q, req[r].file)

\* What is at a synced name is there, and a final matches the digest announced for it.
NamesRight ==
    /\ \A f \in synced : final[f] # Absent
    /\ \A f \in Hashed : final[f] \in {Absent, Announced}

\* The inductive invariant.
UploadInv ==
    /\ UploadTypeOK /\ RequestsOK /\ StoppedIsIdle
    /\ DbAhead /\ CreatorsAlone
    /\ RowsRight(db) /\ RowsRight(committed)
    /\ RowOfReceiver /\ ReceiverAlone /\ NamesOfReceiver /\ NextReceiver
    /\ NamesRight /\ AcknowledgedStays

---------------------------------------------------------------------------
(* The invariant is inductive.                                             *)

\* The initial state satisfies the invariant.
LEMMA UploadInvInit == UploadInit => UploadInv
<1> SUFFICES ASSUME UploadInit PROVE UploadInv
  OBVIOUS
<1> USE UploadAssumption DEF UploadInit
<1>1. UploadTypeOK /\ RequestsOK
  BY DEF UploadTypeOK, RequestsOK, Rows, UploadFileState, UploadSessionState, Step,
     InTransaction, Receiving, PutStep, SessionStep, NoRequest, Absent, Partial
<1>2. StoppedIsIdle /\ DbAhead /\ CreatorsAlone /\ NextReceiver
  BY DEF StoppedIsIdle, DbAhead, CreatorsAlone, Creating, NextReceiver
<1>3. RowsRight(db) /\ RowsRight(committed)
  BY DEF RowsRight, FilesAreRegistered, StoredRows, Stored, Matching, Full, Reopened, Free
<1>4. RowOfReceiver /\ ReceiverAlone /\ NamesOfReceiver
  BY DEF RowOfReceiver, ReceiverAlone, NamesOfReceiver, Receives, Receiving
<1>5. NamesRight /\ AcknowledgedStays
  BY DEF NamesRight, AcknowledgedStays
<1> QED BY <1>1, <1>2, <1>3, <1>4, <1>5 DEF UploadInv

\* The invariant taken apart.
LEMMA UploadFacts ==
    ASSUME UploadInv
    PROVE  /\ UploadTypeOK /\ RequestsOK /\ StoppedIsIdle /\ DbAhead /\ CreatorsAlone
           /\ RowsRight(db) /\ RowsRight(committed) /\ RowOfReceiver /\ ReceiverAlone
           /\ NamesOfReceiver /\ NextReceiver /\ NamesRight /\ AcknowledgedStays
  BY DEF UploadInv

\* A handler that goes on keeps its request, and the other threads stay where they are.
LEMMA GotoFacts ==
    ASSUME UploadInv, NEW r \in Request, NEW step, Goto(r, step)
    PROVE  /\ pc'[r] = step /\ req' = req
           /\ \A q \in Request : q # r => pc'[q] = pc[q]
  BY UploadFacts DEF Goto, UploadTypeOK

\* The answer of a handler frees its thread.
LEMMA FinishFacts ==
    ASSUME UploadInv, NEW r \in Request, Finish(r)
    PROVE  /\ pc'[r] = "idle" /\ req'[r] = NoRequest
           /\ \A q \in Request : q # r => pc'[q] = pc[q] /\ req'[q] = req[q]
           /\ pc' \in [Request -> Step]
  BY UploadFacts DEF Finish, UploadTypeOK, RequestsOK, Step

\* What one UPDATE does to the rows.
LEMMA SetFileFacts ==
    ASSUME UploadInv, NEW f \in File, NEW state \in UploadFileState
    PROVE  /\ SetFile(f, state) \in Rows
           /\ SetFile(f, state).file[f] = state
           /\ \A g \in File : g # f => SetFile(f, state).file[g] = db.file[g]
           /\ SetFile(f, state).digest = db.digest /\ SetFile(f, state).session = db.session
  BY UploadFacts DEF SetFile, UploadTypeOK, Rows

\* The rows after a file has been received with content b.
ReceivedRows(f, b) == [db EXCEPT !.file[f] = "Received", !.digest[f] = b]

\* CommitUpload writes state and digest of one file and nothing else.
LEMMA ReceivedRowsFacts ==
    ASSUME UploadInv, NEW f \in File, NEW b \in Body
    PROVE  /\ ReceivedRows(f, b) \in Rows
           /\ ReceivedRows(f, b).file[f] = "Received" /\ ReceivedRows(f, b).digest[f] = b
           /\ \A g \in File : g # f => /\ ReceivedRows(f, b).file[g] = db.file[g]
                                       /\ ReceivedRows(f, b).digest[g] = db.digest[g]
           /\ ReceivedRows(f, b).session = db.session
  BY UploadFacts DEF ReceivedRows, UploadTypeOK, Rows, UploadFileState

\* The rows after session s has been created.
OpenedRows(s) ==
    [db EXCEPT !.session[s] = "Open",
               !.file = [f \in File |-> IF SessionOf[f] = s THEN "Pending" ELSE db.file[f]]]

\* CreateSession writes the session and its files, PENDING, and nothing else.
LEMMA OpenedRowsFacts ==
    ASSUME UploadInv, NEW s \in Session
    PROVE  /\ OpenedRows(s) \in Rows
           /\ \A f \in File : OpenedRows(s).file[f] =
                  IF SessionOf[f] = s THEN "Pending" ELSE db.file[f]
           /\ OpenedRows(s).digest = db.digest
           /\ \A t \in Session : OpenedRows(s).session[t] =
                  IF t = s THEN "Open" ELSE db.session[t]
<1>1. /\ db = [file |-> db.file, digest |-> db.digest, session |-> db.session]
      /\ db.file \in [File -> UploadFileState] /\ db.digest \in [File -> Body \cup {NoOne}]
      /\ db.session \in [Session -> UploadSessionState]
  BY UploadFacts DEF UploadTypeOK, Rows
<1>2. PICK files : files = [f \in File |-> IF SessionOf[f] = s THEN "Pending" ELSE db.file[f]]
  OBVIOUS
<1>3. OpenedRows(s) = [db EXCEPT !.session[s] = "Open", !.file = files]
  BY <1>2 DEF OpenedRows
<1>4. /\ OpenedRows(s).file = files /\ OpenedRows(s).digest = db.digest
      /\ OpenedRows(s).session = [db.session EXCEPT ![s] = "Open"]
      /\ OpenedRows(s) = [file |-> OpenedRows(s).file, digest |-> OpenedRows(s).digest,
                          session |-> OpenedRows(s).session]
  BY <1>1, <1>3
<1>5. /\ files \in [File -> UploadFileState]
      /\ [db.session EXCEPT ![s] = "Open"] \in [Session -> UploadSessionState]
  BY <1>1, <1>2 DEF UploadFileState, UploadSessionState
<1>6. OpenedRows(s) \in Rows
  BY <1>1, <1>4, <1>5 DEF Rows
<1> QED BY <1>1, <1>2, <1>4, <1>6

\* A handler outside a transaction gives up: nothing but its thread changes.
LEMMA FinishKeeps ==
    ASSUME UploadInv, NEW r \in Request, pc[r] \notin InTransaction, Finish(r),
           UNCHANGED <<server, rows, names, history>>, faults' \in 0 .. MaxFaults
    PROVE  UploadInv'
<1> USE UploadAssumption DEF rows, names, history, dirs
<1>1. /\ pc'[r] = "idle" /\ req'[r] = NoRequest
      /\ \A q \in Request : q # r => pc'[q] = pc[q] /\ req'[q] = req[q]
      /\ pc' \in [Request -> Step]
  BY FinishFacts
<1>2. ASSUME NEW q \in Request, pc'[q] # "idle" PROVE q # r /\ pc'[q] = pc[q] /\ req'[q] = req[q]
  BY <1>1, <1>2
<1>3. ASSUME NEW q \in Request, NEW f \in File, Receives(q, f)'
      PROVE  Receives(q, f) /\ pc'[q] = pc[q] /\ req'[q] = req[q]
  BY <1>1, <1>3 DEF Receives, Receiving
<1>4. UploadTypeOK'
  <2>1. \A q \in Request : txn = q <=> pc'[q] \in InTransaction
    BY <1>1, UploadFacts DEF UploadTypeOK, InTransaction
  <2> QED BY <1>1, <2>1, UploadFacts DEF UploadTypeOK
<1>5. RequestsOK' /\ StoppedIsIdle'
  <2>1. req' \in [Request -> [file : File \cup {NoOne}, body : Body \cup {NoOne},
                              session : Session \cup {NoOne}]]
    BY UploadFacts DEF RequestsOK, Finish, NoRequest
  <2> QED BY <1>1, <2>1, UploadFacts DEF RequestsOK, StoppedIsIdle, PutStep, SessionStep,
             Receiving
<1>6. DbAhead'
  BY <1>1, UploadFacts DEF DbAhead, InTransaction
<1>7. CreatorsAlone'
  BY <1>1, <1>2, UploadFacts DEF CreatorsAlone, Creating
<1>8. RowsRight(db)' /\ RowsRight(committed)' /\ NamesRight' /\ AcknowledgedStays'
  BY UploadFacts DEF RowsRight, FilesAreRegistered, StoredRows, Stored, Matching, Full,
     Reopened, Free, NamesRight, AcknowledgedStays
<1>9. RowOfReceiver' /\ ReceiverAlone'
  BY <1>3, UploadFacts DEF RowOfReceiver, ReceiverAlone
<1>10. NamesOfReceiver'
  BY <1>3, UploadFacts DEF NamesOfReceiver, Free
<1>11. NextReceiver'
  BY <1>2, <1>3, UploadFacts DEF NextReceiver, Free, RequestsOK, PutStep
<1> QED
  BY <1>4, <1>5, <1>6, <1>7, <1>8, <1>9, <1>10, <1>11 DEF UploadInv

\* BEGIN succeeds: the rows of the connection are the committed ones.
LEMMA BeginKeeps ==
    ASSUME UploadInv, NEW r \in Request, NEW at, NEW next,
           <<at, next>> \in {<<"createBegin", "createCheck">>, <<"putBegin", "putSelect">>,
                             <<"completeBegin", "completeSelect">>,
                             <<"commitBegin", "commitUpdate">>},
           Begin(r, at, next)
    PROVE  UploadInv'
<1> USE UploadAssumption DEF rows, names, history, dirs
<1>1. CASE txn # NoOne
  <2>1. at \notin InTransaction /\ pc[r] = at /\ faults' \in 0 .. MaxFaults
    BY UploadFacts DEF Begin, InTransaction, UploadTypeOK
  <2> QED BY <1>1, <2>1, FinishKeeps DEF Begin
<1>2. CASE txn = NoOne
  <2>1. /\ pc[r] = at /\ pc'[r] = next /\ req' = req /\ txn' = r
        /\ \A q \in Request : q # r => pc'[q] = pc[q]
        /\ UNCHANGED <<server, db, committed, names, history, faults>> /\ db = committed
    BY <1>2, GotoFacts, UploadFacts DEF Begin, DbAhead
  <2>2. /\ at \notin InTransaction /\ next \in InTransaction /\ next \in Step /\ at # "idle"
        /\ at \in PutStep <=> next \in PutStep
        /\ at \in SessionStep <=> next \in SessionStep
        /\ at \in Receiving <=> next \in Receiving
        /\ at \in Creating <=> next \in Creating
        /\ next \notin {"createCommit", "putCommit", "commitCommit", "rollback"}
    BY DEF InTransaction, Step, PutStep, SessionStep, Receiving, Creating
  <2>3. \A q \in Request, f \in File : Receives(q, f)' <=> Receives(q, f)
    BY <2>1, <2>2 DEF Receives
  <2>4. UploadTypeOK'
    <3>1. \A q \in Request : pc[q] \notin InTransaction
      BY <1>2, UploadFacts DEF UploadTypeOK
    <3>2. pc' \in [Request -> Step]
      BY <1>2, <2>2, UploadFacts DEF Begin, Goto, UploadTypeOK
    <3>3. \A q \in Request : txn' = q <=> pc'[q] \in InTransaction
      BY <2>1, <2>2, <3>1
    <3> QED BY <2>1, <3>2, <3>3, UploadFacts DEF UploadTypeOK
  <2>5. RequestsOK' /\ StoppedIsIdle'
    BY <2>1, <2>2, UploadFacts DEF RequestsOK, StoppedIsIdle
  <2>6. DbAhead'
    BY <2>1, UploadFacts DEF DbAhead
  <2>7. CreatorsAlone'
    BY <2>1, <2>2, UploadFacts DEF CreatorsAlone, Creating
  <2>8. RowsRight(db)' /\ RowsRight(committed)' /\ NamesRight' /\ AcknowledgedStays'
    BY <2>1, UploadFacts DEF RowsRight, FilesAreRegistered, StoredRows, Stored, Matching,
       Full, Reopened, Free, NamesRight, AcknowledgedStays
  <2>9. RowOfReceiver' /\ ReceiverAlone'
    BY <2>1, <2>2, <2>3, UploadFacts DEF RowOfReceiver, ReceiverAlone
  <2>10. NamesOfReceiver'
    <3>1. \A q \in Request, f \in File : Receives(q, f) /\ pc'[q] # pc[q] =>
              pc[q] = "commitBegin" /\ pc'[q] = "commitUpdate"
      BY <2>1 DEF Receives, Receiving
    <3> QED BY <2>1, <2>3, <3>1, UploadFacts DEF NamesOfReceiver, Free, BeforePublish,
               AfterPublish
  <2>11. NextReceiver'
    BY <2>1, <2>2, <2>3, UploadFacts DEF NextReceiver, Free, RequestsOK, PutStep
  <2> QED
    BY <2>4, <2>5, <2>6, <2>7, <2>8, <2>9, <2>10, <2>11 DEF UploadInv
<1> QED BY <1>1, <1>2

\* The rows of a new session are written.
LEMMA CreateInsertKeeps ==
    ASSUME UploadInv, NEW r \in Request, CreateInsert(r)
    PROVE  UploadInv'
<1> USE UploadAssumption DEF names, history, dirs
<1> DEFINE s == req[r].session
<1>1. /\ pc[r] = "createInsert" /\ s \in Session /\ db.session[s] = "Absent" /\ req' = req
      /\ \A q \in Request : q # r => pc'[q] = pc[q]
      /\ db' = OpenedRows(s) /\ pc'[r] = "createCommit"
      /\ UNCHANGED <<server, committed, txn, names, history, faults>>
  BY UploadFacts, GotoFacts
  DEF CreateInsert, OpenedRows, RequestsOK, CreatorsAlone, Creating, SessionStep
<1>2. \A f \in File : SessionOf[f] = s => db.file[f] = "Absent" /\ committed.file[f] = "Absent"
  BY <1>1, UploadFacts DEF RowsRight, FilesAreRegistered, DbAhead
<1>3. /\ db' \in Rows /\ db'.digest = db.digest
      /\ \A f \in File : \/ db'.file[f] = db.file[f]
                         \/ SessionOf[f] = s /\ db'.file[f] = "Pending"
      /\ \A t \in Session : \/ db'.session[t] = db.session[t] /\ t # s
                            \/ t = s /\ db'.session[t] = "Open"
  BY <1>1, OpenedRowsFacts, UploadFacts DEF UploadTypeOK
<1> HIDE DEF s
<1>4. \A q \in Request, f \in File : Receives(q, f)' => Receives(q, f) /\ q # r
  BY <1>1 DEF Receives, Receiving
<1>5. UploadTypeOK'
  <2>1. pc' \in [Request -> Step]
    BY UploadFacts DEF CreateInsert, Goto, UploadTypeOK, Step, InTransaction
  <2>2. \A q \in Request : txn = q <=> pc'[q] \in InTransaction
    BY <1>1, UploadFacts DEF UploadTypeOK, InTransaction
  <2> QED BY <1>1, <1>3, <2>1, <2>2, UploadFacts DEF UploadTypeOK
<1>6. RequestsOK' /\ StoppedIsIdle'
  BY <1>1, UploadFacts DEF RequestsOK, StoppedIsIdle, PutStep, SessionStep, Receiving, s
<1>7. txn = r
  BY <1>1, UploadFacts DEF UploadTypeOK, InTransaction
<1>8. DbAhead'
  <2>1. \A f \in File : committed.file[f] = "Received" =>
            db'.file[f] = "Received" /\ db'.digest[f] = committed.digest[f]
    BY <1>2, <1>3, UploadFacts DEF DbAhead
  <2>2. ASSUME NEW f \in File, db'.file[f] = "Received" PROVE committed.file[f] = "Received"
    <3>1. db.file[f] = "Received"
      BY <1>3, <2>2
    <3>2. \A q \in Request : pc[q] \notin {"commitCommit", "rollback"}
      BY <1>1, <1>7, UploadFacts DEF UploadTypeOK, InTransaction
    <3> QED BY <3>1, <3>2, UploadFacts DEF DbAhead
  <2>3. \A t \in Session : db'.session[t] = "Absent" => committed.session[t] = "Absent"
    BY <1>3, UploadFacts DEF DbAhead
  <2>4. txn' # NoOne
    BY <1>1, <1>7
  <2> QED BY <1>1, <2>1, <2>2, <2>3, <2>4 DEF DbAhead
<1>9. CreatorsAlone'
  <2>1. ASSUME NEW q \in Request, pc'[q] \in Creating
        PROVE  /\ db'.session[req[q].session] = "Absent"
               /\ \A p \in Request : pc'[p] \in Creating \cup {"createCommit"}
                                     /\ req[p].session = req[q].session => p = q
    <3>1. q # r /\ pc'[q] = pc[q] /\ req[q].session \in Session
      BY <1>1, <2>1, UploadFacts DEF RequestsOK, SessionStep, Creating
    <3>2. req[q].session # s
      BY <1>1, <2>1, <3>1, UploadFacts DEF CreatorsAlone, Creating, s
    <3>3. db'.session[req[q].session] = "Absent"
      BY <1>3, <2>1, <3>1, <3>2, UploadFacts DEF CreatorsAlone, Creating
    <3> QED BY <1>1, <2>1, <3>1, <3>2, <3>3, UploadFacts DEF CreatorsAlone, Creating, s
  <2> QED BY <1>1, <2>1 DEF CreatorsAlone, Creating
<1>10. RowsRight(db)'
  <2>1. FilesAreRegistered(db)'
    BY <1>1, <1>3, UploadFacts DEF RowsRight, FilesAreRegistered
  <2>2. StoredRows(db)' /\ Matching(db)'
    BY <1>1, <1>3, UploadFacts DEF RowsRight, StoredRows, Stored, Matching
  <2>3. Full(db)'
    BY <1>1, <1>3, UploadFacts DEF RowsRight, Full
  <2>4. Reopened(db)'
    BY <1>1, <1>2, <1>3, UploadFacts DEF RowsRight, Reopened, Free
  <2> QED BY <2>1, <2>2, <2>3, <2>4 DEF RowsRight
<1>11. RowsRight(committed)' /\ NamesRight' /\ AcknowledgedStays'
  BY <1>1, UploadFacts DEF RowsRight, FilesAreRegistered, StoredRows, Stored, Matching,
     Full, Reopened, Free, NamesRight, AcknowledgedStays
<1>12. RowOfReceiver' /\ ReceiverAlone'
  <2>1. \A q \in Request, f \in File : Receives(q, f) => db'.file[f] = db.file[f]
    BY <1>2, <1>3, UploadFacts DEF RowOfReceiver
  <2> QED BY <1>1, <1>3, <1>4, <2>1, UploadFacts DEF RowOfReceiver, ReceiverAlone
<1>13. NamesOfReceiver'
  BY <1>1, <1>4, UploadFacts DEF NamesOfReceiver, Free
<1>14. NextReceiver'
  BY <1>1, <1>7, UploadFacts DEF NextReceiver, UploadTypeOK, InTransaction
<1> QED
  BY <1>5, <1>6, <1>8, <1>9, <1>10, <1>11, <1>12, <1>13, <1>14 DEF UploadInv

\* A PUT takes the row.
LEMMA PutUpdateKeeps ==
    ASSUME UploadInv, NEW r \in Request, PutUpdate(r)
    PROVE  UploadInv'
<1> USE UploadAssumption DEF names, history, dirs
<1> DEFINE f == req[r].file
<1>1. /\ pc[r] = "putUpdate" /\ f \in File /\ req' = req
      /\ \A q \in Request : q # r => pc'[q] = pc[q]
      /\ \/ /\ db.file[f] \in {"Pending", "Failed"} /\ db' = SetFile(f, "Receiving")
            /\ pc'[r] = "putCommit"
         \/ db' = db /\ pc'[r] = "rollback"
      /\ UNCHANGED <<server, committed, txn, names, history, faults>>
  BY UploadFacts, GotoFacts DEF PutUpdate, RequestsOK, PutStep
<1>2. txn = r /\ \A q \in Request : q # r => pc[q] \notin InTransaction
  BY <1>1, UploadFacts DEF UploadTypeOK, InTransaction
<1>3. /\ db' \in Rows /\ db'.digest = db.digest /\ db'.session = db.session
      /\ \A g \in File : g # f => db'.file[g] = db.file[g]
      /\ \/ db'.file[f] = db.file[f] /\ pc'[r] = "rollback"
         \/ /\ db.file[f] \in {"Pending", "Failed"} /\ db'.file[f] = "Receiving"
            /\ pc'[r] = "putCommit"
  BY <1>1, SetFileFacts, UploadFacts DEF UploadTypeOK, UploadFileState
<1> HIDE DEF f
<1>4. \A q \in Request, g \in File : Receives(q, g)' => Receives(q, g) /\ q # r
  BY <1>1 DEF Receives, Receiving
<1>5. \A q \in Request : Receives(q, f) => db.file[f] = "Receiving" \/ q = r
  BY <1>1, <1>2, UploadFacts DEF RowOfReceiver, InTransaction
<1>6. UploadTypeOK'
  <2>1. pc' \in [Request -> Step]
    BY UploadFacts DEF PutUpdate, Goto, UploadTypeOK, Step, InTransaction
  <2>2. \A q \in Request : txn = q <=> pc'[q] \in InTransaction
    BY <1>1, UploadFacts DEF UploadTypeOK, InTransaction
  <2> QED BY <1>1, <1>3, <2>1, <2>2, UploadFacts DEF UploadTypeOK
<1>7. RequestsOK' /\ StoppedIsIdle'
  BY <1>1, UploadFacts DEF RequestsOK, StoppedIsIdle, PutStep, SessionStep, Receiving, f
<1>8. DbAhead'
  <2>1. \A g \in File : db'.file[g] = "Received" => db.file[g] = "Received"
    BY <1>3
  <2>2. \A g \in File : committed.file[g] = "Received" => db'.file[g] = "Received"
    BY <1>3, UploadFacts DEF DbAhead
  <2>3. txn' # NoOne /\ \A q \in Request : pc[q] \notin {"commitCommit", "rollback"}
    BY <1>1, <1>2 DEF InTransaction
  <2> QED BY <1>1, <1>3, <2>1, <2>2, <2>3, UploadFacts DEF DbAhead
<1>9. CreatorsAlone'
  <2>1. \A q \in Request : pc'[q] \in Creating \cup {"createCommit"} =>
            q # r /\ pc'[q] = pc[q]
    BY <1>1 DEF Creating
  <2> QED BY <1>1, <1>3, <2>1, UploadFacts DEF CreatorsAlone, Creating
<1>10. RowsRight(db)'
  <2>1. FilesAreRegistered(db)'
    BY <1>1, <1>3, UploadFacts DEF RowsRight, FilesAreRegistered
  <2>2. StoredRows(db)' /\ Matching(db)'
    BY <1>1, <1>3, UploadFacts DEF RowsRight, StoredRows, Stored, Matching
  <2>3. Full(db)' /\ Reopened(db)'
    BY <1>1, <1>3, UploadFacts DEF RowsRight, Full, Reopened, Free
  <2> QED BY <2>1, <2>2, <2>3 DEF RowsRight
<1>11. RowsRight(committed)' /\ NamesRight' /\ AcknowledgedStays'
  BY <1>1, UploadFacts DEF RowsRight, FilesAreRegistered, StoredRows, Stored, Matching,
     Full, Reopened, Free, NamesRight, AcknowledgedStays
<1>12. RowOfReceiver' /\ ReceiverAlone'
  BY <1>1, <1>3, <1>4, <1>5, UploadFacts DEF RowOfReceiver, ReceiverAlone
<1>13. NamesOfReceiver'
  BY <1>1, <1>4, UploadFacts DEF NamesOfReceiver, Free
<1>14. NextReceiver'
  <2>1. \A q \in Request : pc'[q] = "putCommit" => q = r
    BY <1>1, <1>2 DEF InTransaction
  <2>2. pc'[r] = "putCommit" => db'.file[f] = "Receiving" /\ Free(f)
    BY <1>1, <1>3, UploadFacts DEF RowsRight, Reopened
  <2>3. ASSUME pc'[r] = "putCommit", NEW q \in Request
        PROVE  ~(pc'[q] \in Receiving /\ req[q].file = f)
    <3>1. db.file[f] # "Receiving"
      BY <1>3, <2>3
    <3>2. ~Receives(q, f) \/ q = r
      BY <1>5, <3>1
    <3> QED BY <1>1, <2>3, <3>2 DEF Receives, Receiving
  <2> QED BY <1>1, <2>1, <2>2, <2>3 DEF NextReceiver, Free, Receives, f
<1> QED
  BY <1>6, <1>7, <1>8, <1>9, <1>10, <1>11, <1>12, <1>13, <1>14 DEF UploadInv

\* A receiver writes RECEIVED into its transaction.
LEMMA CommitUpdateKeeps ==
    ASSUME UploadInv, NEW r \in Request, CommitUpdate(r)
    PROVE  UploadInv'
<1> USE UploadAssumption DEF names, history, dirs
<1>1. PICK f \in File : f = req[r].file
  BY UploadFacts DEF CommitUpdate, RequestsOK, PutStep, Receiving
<1>2. /\ pc[r] = "commitUpdate" /\ req' = req /\ req[r].body \in Body /\ Receives(r, f)
      /\ \A q \in Request : q # r => pc'[q] = pc[q]
      /\ \/ db' = ReceivedRows(f, req[r].body) /\ pc'[r] = "commitCommit"
         \/ db' = db /\ pc'[r] = "rollback"
      /\ UNCHANGED <<server, committed, txn, names, history, faults>>
  BY <1>1, UploadFacts, GotoFacts
  DEF CommitUpdate, ReceivedRows, RequestsOK, PutStep, Receives, Receiving
<1>3. txn = r /\ \A q \in Request : q # r => pc[q] \notin InTransaction
  BY <1>2, UploadFacts DEF UploadTypeOK, InTransaction
<1>4. /\ db' \in Rows /\ db'.session = db.session
      /\ \A g \in File : g # f => db'.file[g] = db.file[g] /\ db'.digest[g] = db.digest[g]
      /\ \/ db'.file[f] = db.file[f] /\ db'.digest[f] = db.digest[f] /\ pc'[r] = "rollback"
         \/ /\ db'.file[f] = "Received" /\ db'.digest[f] = req[r].body
            /\ pc'[r] = "commitCommit"
  BY <1>2, ReceivedRowsFacts, UploadFacts DEF UploadTypeOK
<1>5. /\ db.file[f] = "Receiving" /\ committed.file[f] = "Receiving"
      /\ final[f] = req[r].body /\ f \in synced /\ HashMatches(f, req[r].body)
  BY <1>2, UploadFacts DEF RowOfReceiver, NamesOfReceiver, AfterPublish
<1>6. /\ \A q \in Request, g \in File : Receives(q, g)' => Receives(q, g)
      /\ \A g \in File : Receives(r, g)' => pc'[r] = "commitCommit" /\ g = f
      /\ \A q \in Request : Receives(q, f) => q = r
  <2>1. \A q \in Request, g \in File : Receives(q, g)' => Receives(q, g)
    BY <1>2 DEF Receives, Receiving
  <2>2. \A g \in File : Receives(r, g)' => pc'[r] = "commitCommit" /\ g = f
    BY <1>1, <1>2 DEF Receives, Receiving
  <2>3. \A q \in Request : Receives(q, f) => q = r
    BY <1>2, UploadFacts DEF ReceiverAlone
  <2> QED BY <2>1, <2>2, <2>3
<1>7. UploadTypeOK'
  <2>1. pc' \in [Request -> Step]
    BY UploadFacts DEF CommitUpdate, Goto, UploadTypeOK, Step, InTransaction
  <2>2. \A q \in Request : txn = q <=> pc'[q] \in InTransaction
    BY <1>2, UploadFacts DEF UploadTypeOK, InTransaction
  <2> QED BY <1>2, <1>4, <2>1, <2>2, UploadFacts DEF UploadTypeOK
<1>8. RequestsOK' /\ StoppedIsIdle'
  BY <1>1, <1>2, UploadFacts DEF RequestsOK, StoppedIsIdle, PutStep, SessionStep, Receiving
<1>9. DbAhead'
  <2>1. \A g \in File : db'.file[g] = "Received" =>
            \/ committed.file[g] = "Received"
            \/ pc'[r] \in {"commitCommit", "rollback"} /\ req[r].file = g
    <3>1. \A q \in Request : pc[q] \notin {"commitCommit", "rollback"}
      BY <1>2, <1>3 DEF InTransaction
    <3> QED BY <1>1, <1>4, <3>1, UploadFacts DEF DbAhead
  <2>2. txn' # NoOne
    BY <1>2, <1>3
  <2> QED BY <1>2, <1>4, <1>5, <2>1, <2>2, UploadFacts DEF DbAhead
<1>10. CreatorsAlone'
  <2>1. \A q \in Request : pc'[q] \in Creating \cup {"createCommit"} =>
            q # r /\ pc'[q] = pc[q]
    BY <1>2 DEF Creating
  <2> QED BY <1>2, <1>4, <2>1, UploadFacts DEF CreatorsAlone, Creating
<1>11. RowsRight(db)'
  <2>1. FilesAreRegistered(db)' /\ Full(db)'
    BY <1>2, <1>4, <1>5, UploadFacts DEF RowsRight, FilesAreRegistered, Full
  <2>2. StoredRows(db)' /\ Matching(db)'
    BY <1>2, <1>4, <1>5, UploadFacts DEF RowsRight, StoredRows, Stored, Matching, HashMatches
  <2>3. Reopened(db)'
    BY <1>2, <1>4, <1>5, UploadFacts DEF RowsRight, Reopened, Free
  <2> QED BY <2>1, <2>2, <2>3 DEF RowsRight
<1>12. RowsRight(committed)' /\ NamesRight' /\ AcknowledgedStays'
  BY <1>2, UploadFacts DEF RowsRight, FilesAreRegistered, StoredRows, Stored, Matching,
     Full, Reopened, Free, NamesRight, AcknowledgedStays
<1>13. RowOfReceiver' /\ ReceiverAlone'
  <2>1. ReceiverAlone'
    BY <1>6, UploadFacts DEF ReceiverAlone
  <2>2. ASSUME NEW q \in Request, NEW g \in File, Receives(q, g)'
        PROVE  /\ committed.file[g] = "Receiving"
               /\ \/ db'.file[g] = "Receiving" /\ pc'[q] # "commitCommit"
                  \/ /\ pc'[q] = "commitCommit"
                     /\ db'.file[g] = "Received" /\ db'.digest[g] = req[q].body
    <3>1. CASE q = r
      BY <1>1, <1>2, <1>4, <1>5, <1>6, <2>2, <3>1 DEF Receives
    <3>2. CASE q # r
      <4>1. g # f /\ Receives(q, g) /\ pc'[q] = pc[q]
        BY <1>2, <1>6, <2>2, <3>2
      <4> QED BY <1>4, <4>1, UploadFacts DEF RowOfReceiver
    <3> QED BY <3>1, <3>2
  <2> QED BY <1>2, <2>1, <2>2 DEF RowOfReceiver
<1>14. NamesOfReceiver'
  <2>1. ASSUME NEW q \in Request, NEW g \in File, Receives(q, g)'
        PROVE  Receives(q, g) /\ (pc'[q] = pc[q] \/ (q = r /\ pc'[q] = "commitCommit"))
    BY <1>2, <1>6, <2>1
  <2> QED
    BY <1>2, <2>1, UploadFacts DEF NamesOfReceiver, Free, BeforePublish, AfterPublish
<1>15. NextReceiver'
  BY <1>2, <1>3, UploadFacts DEF NextReceiver, InTransaction
<1> QED
  BY <1>7, <1>8, <1>9, <1>10, <1>11, <1>12, <1>13, <1>14, <1>15 DEF UploadInv

\* A receiver publishes what is at its temp name, unless it is gone or the final exists.
LEMMA PublishKeeps ==
    ASSUME UploadInv, NEW r \in Request, PublishNoReplace(r)
    PROVE  UploadInv'
<1> USE UploadAssumption DEF rows, history, dirs
<1>1. PICK f \in File : f = req[r].file
  BY UploadFacts DEF PublishNoReplace, RequestsOK, PutStep, Receiving
<1>2. /\ pc[r] = "publish" /\ req' = req /\ req[r].body \in Body /\ Receives(r, f)
      /\ \A q \in Request : q # r => pc'[q] = pc[q]
      /\ UNCHANGED <<server, rows, synced, history, faults>>
  BY <1>1, UploadFacts, GotoFacts
  DEF PublishNoReplace, RequestsOK, PutStep, Receives, Receiving
<1>3. \/ /\ temp[f] # Absent /\ final[f] = Absent /\ pc'[r] = "syncDir"
         /\ final' = [final EXCEPT ![f] = temp[f]] /\ temp' = [temp EXCEPT ![f] = Absent]
      \/ pc'[r] = "markFailed" /\ UNCHANGED <<temp, final>>
  BY <1>1, <1>2, GotoFacts DEF PublishNoReplace
<1>4. /\ db.file[f] = "Receiving" /\ committed.file[f] = "Receiving"
      /\ temp[f] \in {Absent, req[r].body} /\ HashMatches(f, req[r].body) /\ Free(f)
  BY <1>2, UploadFacts DEF RowOfReceiver, NamesOfReceiver, AfterPublish, BeforePublish
<1>5. /\ temp' \in [File -> Body \cup {Absent, Partial}] /\ final' \in [File -> Body \cup {Absent}]
      /\ \A g \in File : g # f => temp'[g] = temp[g] /\ final'[g] = final[g]
      /\ \/ final'[f] = req[r].body /\ final[f] = Absent /\ pc'[r] = "syncDir"
         \/ final'[f] = final[f] /\ pc'[r] = "markFailed"
  BY <1>2, <1>3, <1>4, UploadFacts DEF UploadTypeOK
<1>6. \A q \in Request, g \in File :
          /\ Receives(q, g)' <=> Receives(q, g)
          /\ Receives(q, g) /\ q # r => g # f
  BY <1>1, <1>2, <1>5, UploadFacts DEF Receives, Receiving, ReceiverAlone
<1>7. UploadTypeOK'
  <2>1. pc' \in [Request -> Step]
    BY UploadFacts DEF PublishNoReplace, Goto, UploadTypeOK, Step, Receiving
  <2>2. \A q \in Request : txn = q <=> pc'[q] \in InTransaction
    BY <1>2, <1>5, UploadFacts DEF UploadTypeOK, InTransaction
  <2> QED BY <1>2, <1>5, <2>1, <2>2, UploadFacts DEF UploadTypeOK
<1>8. RequestsOK' /\ StoppedIsIdle'
  BY <1>1, <1>2, <1>5, UploadFacts
  DEF RequestsOK, StoppedIsIdle, PutStep, SessionStep, Receiving
<1>9. DbAhead'
  BY <1>2, UploadFacts DEF DbAhead
<1>10. CreatorsAlone'
  <2>1. \A q \in Request : pc'[q] \in Creating \cup {"createCommit"} =>
            q # r /\ pc'[q] = pc[q]
    BY <1>2, <1>5 DEF Creating
  <2> QED BY <1>2, <2>1, UploadFacts DEF CreatorsAlone, Creating
<1>11. ASSUME NEW d \in {db, committed}
       PROVE  \A g \in File : d.file[g] # "Receiving" => final'[g] = final[g]
  BY <1>4, <1>5
<1>12. RowsRight(db)' /\ RowsRight(committed)'
  BY <1>2, <1>11, UploadFacts DEF RowsRight, FilesAreRegistered, StoredRows, Stored,
     Matching, Full, Reopened, Free
<1>13. NamesRight' /\ AcknowledgedStays'
  <2>1. \A g \in synced : final'[g] # Absent
    BY <1>2, <1>5, UploadFacts DEF NamesRight, UploadTypeOK
  <2>2. \A g \in Hashed : final'[g] \in {Absent, Announced}
    BY <1>4, <1>5, UploadFacts DEF NamesRight, HashMatches
  <2> QED BY <1>2, <2>1, <2>2, UploadFacts DEF NamesRight, AcknowledgedStays
<1>14. RowOfReceiver' /\ ReceiverAlone'
  <2>1. \A q \in Request : pc'[q] = "commitCommit" <=> pc[q] = "commitCommit"
    BY <1>2, <1>5
  <2> QED BY <1>2, <1>6, <2>1, UploadFacts DEF RowOfReceiver, ReceiverAlone
<1>15. NamesOfReceiver'
  <2>1. ASSUME NEW q \in Request, NEW g \in File, Receives(q, g)'
        PROVE  (/\ pc[q] = "body" => temp[g] \in {Absent, Partial}
                /\ pc[q] \in {"hash", "publish"} => temp[g] \in {Absent, req[q].body}
                /\ pc[q] \in BeforePublish => Free(g)
                /\ pc[q] \in AfterPublish => final[g] = req[q].body
                /\ pc[q] \in AfterPublish \cup {"publish"} => HashMatches(g, req[q].body)
                /\ pc[q] \in {"commitBegin", "commitUpdate", "commitCommit"} => g \in synced)'
    <3>1. CASE q = r
      <4>1. g = f
        BY <1>1, <1>2, <2>1, <3>1 DEF Receives
      <4> QED
        BY <1>2, <1>4, <1>5, <3>1, <4>1 DEF BeforePublish, AfterPublish, Free, HashMatches
    <3>2. CASE q # r
      <4>1. g # f /\ Receives(q, g) /\ pc'[q] = pc[q]
        BY <1>2, <1>6, <2>1, <3>2
      <4> QED BY <1>2, <1>5, <4>1, UploadFacts DEF NamesOfReceiver, Free, HashMatches
    <3> QED BY <3>1, <3>2
  <2> QED BY <2>1 DEF NamesOfReceiver
<1>16. NextReceiver'
  <2>1. ASSUME NEW q \in Request, pc'[q] = "putCommit"
        PROVE  /\ db.file[req[q].file] = "Receiving" /\ Free(req[q].file)'
               /\ \A p \in Request : ~Receives(p, req[q].file)'
    <3>1. pc[q] = "putCommit" /\ req[q].file \in File
      BY <1>2, <1>5, <2>1, UploadFacts DEF RequestsOK, PutStep
    <3>2. req[q].file # f
      BY <1>2, <3>1, UploadFacts DEF NextReceiver
    <3> QED BY <1>2, <1>5, <1>6, <3>1, <3>2, UploadFacts DEF NextReceiver, Free
  <2> QED BY <1>2, <2>1 DEF NextReceiver
<1> QED
  BY <1>7, <1>8, <1>9, <1>10, <1>12, <1>13, <1>14, <1>15, <1>16 DEF UploadInv

\* Recovery settles one RECEIVING row: RECEIVED with the digest of the final, or FAILED
\* when there is no final or it cannot be read.
LEMMA RecoverKeeps ==
    ASSUME UploadInv, NEW f \in File, RecoverUpload(f) \/ RecoverUnreadable(f)
    PROVE  UploadInv'
<1> USE UploadAssumption DEF rows, handlers, names, history, dirs
<1>1. /\ server = "recovering" /\ db.file[f] = "Receiving" /\ db = committed /\ txn = NoOne
      /\ db' = committed' /\ (\A r \in Request : pc[r] = "idle")
      /\ UNCHANGED <<server, txn, pc, req, final, synced, acked, powerLost, dirs>>
      /\ faults' \in 0 .. MaxFaults /\ adopted' \subseteq File
      /\ temp' \in [File -> Body \cup {Absent, Partial}]
      /\ adopted \subseteq adopted' /\ unreadable \subseteq unreadable'
  <2>1. server = "recovering" /\ \A r \in Request : pc[r] = "idle"
    BY UploadFacts DEF RecoverUpload, RecoverUnreadable, StoppedIsIdle
  <2>2. txn = NoOne /\ db = committed
    BY <2>1, UploadFacts DEF UploadTypeOK, InTransaction, RequestsOK, DbAhead
  <2>3. temp' \in [File -> Body \cup {Absent, Partial}] /\ faults' \in 0 .. MaxFaults
    BY UploadFacts DEF RecoverUpload, RecoverUnreadable, UploadTypeOK, Fault
  <2> QED
    BY <2>1, <2>2, <2>3, UploadFacts
    DEF RecoverUpload, RecoverUnreadable, RequestsOK, Autocommit
<1>2. \/ db' = ReceivedRows(f, final[f]) /\ final[f] # Absent /\ f \in adopted'
      \/ db' = SetFile(f, "Failed") /\ (final[f] = Absent \/ f \in unreadable')
  BY <1>1 DEF RecoverUpload, RecoverUnreadable, Autocommit, ReceivedRows
<1>3. /\ db' \in Rows /\ db'.session = db.session
      /\ \A g \in File : g # f => db'.file[g] = db.file[g] /\ db'.digest[g] = db.digest[g]
      /\ \/ /\ db'.file[f] = "Received" /\ db'.digest[f] = final[f] /\ f \in adopted'
            /\ final[f] # Absent
         \/ db'.file[f] = "Failed" /\ (final[f] = Absent \/ f \in unreadable')
  <2>1. final[f] # Absent => final[f] \in Body
    BY UploadFacts DEF UploadTypeOK
  <2> QED BY <1>2, <2>1, SetFileFacts, ReceivedRowsFacts DEF UploadFileState
<1>4. UploadTypeOK' /\ RequestsOK' /\ StoppedIsIdle'
  BY <1>1, <1>3, UploadFacts DEF UploadTypeOK, RequestsOK, StoppedIsIdle
<1>5. DbAhead' /\ CreatorsAlone' /\ NextReceiver'
  BY <1>1 DEF DbAhead, CreatorsAlone, Creating, NextReceiver
<1>6. RowOfReceiver' /\ ReceiverAlone' /\ NamesOfReceiver'
  BY <1>1 DEF RowOfReceiver, ReceiverAlone, NamesOfReceiver, Receives, Receiving
<1>7. RowsRight(db)'
  <2>1. FilesAreRegistered(db)' /\ Full(db)'
    BY <1>1, <1>3, UploadFacts DEF RowsRight, FilesAreRegistered, Full
  <2>2. StoredRows(db)' /\ Matching(db)'
    BY <1>1, <1>3, UploadFacts DEF RowsRight, StoredRows, Stored, Matching, NamesRight
  <2>3. Reopened(db)'
    BY <1>1, <1>3, UploadFacts DEF RowsRight, Reopened, Free
  <2> QED BY <2>1, <2>2, <2>3 DEF RowsRight
<1>8. RowsRight(committed)'
  BY <1>1, <1>7 DEF RowsRight, FilesAreRegistered, StoredRows, Stored, Matching, Full,
     Reopened, Free
<1>9. NamesRight' /\ AcknowledgedStays'
  BY <1>1, <1>3, UploadFacts DEF NamesRight, AcknowledgedStays, RequestsOK
<1> QED BY <1>4, <1>5, <1>6, <1>7, <1>8, <1>9 DEF UploadInv

\* A receiver that gave up marks its row FAILED, or the mark fails.
LEMMA MarkKeeps ==
    ASSUME UploadInv, NEW r \in Request, NEW f \in File, f = req[r].file,
           pc[r] \in {"mark422", "markFailed"},
           MarkUploadFailed(f) \/ UNCHANGED rows,
           \/ Goto(r, "unlink422") /\ pc[r] = "mark422"
           \/ Finish(r),
           UNCHANGED <<server, names, history>>, faults' \in 0 .. MaxFaults
    PROVE  UploadInv'
<1> USE UploadAssumption DEF names, history, dirs
<1>1. /\ Receives(r, f) /\ Free(f) /\ pc[r] \notin InTransaction /\ txn # r
      /\ db.file[f] = "Receiving" /\ committed.file[f] = "Receiving"
  BY UploadFacts DEF Receives, Receiving, InTransaction, NamesOfReceiver, BeforePublish,
     RowOfReceiver, UploadTypeOK
<1>2. /\ pc'[r] \in {"unlink422", "idle"} /\ (\A q \in Request : q # r => pc'[q] = pc[q])
      /\ (\A q \in Request : q # r => req'[q] = req[q])
      /\ req'[r] \in {req[r], NoRequest} /\ (pc'[r] = "unlink422" => req'[r] = req[r])
      /\ pc' \in [Request -> Step]
  BY GotoFacts, FinishFacts, UploadFacts DEF Goto, UploadTypeOK, Step
<1>3. /\ txn' = txn /\ db' \in Rows /\ db'.session = db.session /\ db'.digest = db.digest
      /\ (\A g \in File : g # f => db'.file[g] = db.file[g])
      /\ db'.file[f] \in {"Receiving", "Failed"}
  BY <1>1, SetFileFacts, UploadFacts
  DEF MarkUploadFailed, Autocommit, rows, UploadFileState, UploadTypeOK
<1>4. (txn = NoOne => committed' = db') /\ (txn # NoOne => committed' = committed)
  BY UploadFacts DEF MarkUploadFailed, Autocommit, rows, DbAhead
<1>5. /\ committed' \in Rows /\ committed'.session = committed.session
      /\ committed'.digest = committed.digest
      /\ (\A g \in File : g # f => committed'.file[g] = committed.file[g])
      /\ committed'.file[f] \in {"Receiving", "Failed"}
  BY <1>1, <1>3, <1>4, UploadFacts DEF DbAhead, UploadTypeOK
<1>6. /\ \A q \in Request, g \in File : Receives(q, g)' => Receives(q, g)
      /\ \A q \in Request, g \in File : Receives(q, g)' => q # r /\ g # f
  <2>1. \A q \in Request, g \in File : Receives(q, g)' => Receives(q, g) /\ q # r
    BY <1>2 DEF Receives, Receiving
  <2> QED BY <1>1, <2>1, UploadFacts DEF ReceiverAlone
<1>7. UploadTypeOK'
  <2>1. \A q \in Request : txn = q <=> pc'[q] \in InTransaction
    BY <1>1, <1>2, UploadFacts DEF UploadTypeOK, InTransaction
  <2> QED BY <1>2, <1>3, <1>5, <2>1, UploadFacts DEF UploadTypeOK
<1>8. RequestsOK' /\ StoppedIsIdle'
  <2>1. req' \in [Request -> [file : File \cup {NoOne}, body : Body \cup {NoOne},
                              session : Session \cup {NoOne}]]
    BY UploadFacts DEF RequestsOK, Finish, Goto, NoRequest
  <2>2. pc[r] \in PutStep /\ server = "serving"
    BY <1>1, UploadFacts DEF PutStep, Receiving, StoppedIsIdle
  <2>3. \A q \in Request :
            /\ pc'[q] \in PutStep => req'[q].file \in File /\ req'[q].body \in Body
            /\ pc'[q] \in SessionStep => req'[q].session \in Session
    BY <1>2, <2>2, UploadFacts DEF RequestsOK, PutStep, Receiving, SessionStep
  <2> QED BY <1>3, <2>1, <2>2, <2>3, UploadFacts DEF RequestsOK, StoppedIsIdle
<1>9. DbAhead'
  <2>1. \A g \in File : committed'.file[g] = "Received" =>
            db'.file[g] = "Received" /\ db'.digest[g] = committed'.digest[g]
    BY <1>3, <1>5, UploadFacts DEF DbAhead
  <2>2. ASSUME NEW g \in File, db'.file[g] = "Received"
        PROVE  \/ committed'.file[g] = "Received"
               \/ \E q \in Request : pc'[q] \in {"commitCommit", "rollback"} /\ req'[q].file = g
    <3>1. g # f /\ db.file[g] = "Received" /\ committed'.file[g] = committed.file[g]
      BY <1>3, <1>5, <2>2
    <3>2. \A q \in Request : pc[q] \in {"commitCommit", "rollback"} =>
              pc'[q] = pc[q] /\ req'[q] = req[q]
      BY <1>2
    <3> QED BY <3>1, <3>2, UploadFacts DEF DbAhead
  <2> QED BY <1>3, <1>4, <1>5, <2>1, <2>2, UploadFacts DEF DbAhead
<1>10. CreatorsAlone'
  <2>1. \A q \in Request : pc'[q] \in Creating \cup {"createCommit"} =>
            q # r /\ pc'[q] = pc[q] /\ req'[q] = req[q]
    BY <1>2 DEF Creating
  <2> QED BY <1>3, <2>1, UploadFacts DEF CreatorsAlone, Creating
<1>11. RowsRight(db)'
  <2>1. FilesAreRegistered(db)' /\ Full(db)'
    BY <1>1, <1>3, UploadFacts DEF RowsRight, FilesAreRegistered, Full
  <2>2. StoredRows(db)' /\ Matching(db)'
    BY <1>3, UploadFacts DEF RowsRight, StoredRows, Stored, Matching
  <2>3. Reopened(db)'
    BY <1>1, <1>3, UploadFacts DEF RowsRight, Reopened, Free
  <2> QED BY <2>1, <2>2, <2>3 DEF RowsRight
<1>12. RowsRight(committed)'
  <2>1. FilesAreRegistered(committed)' /\ Full(committed)'
    BY <1>1, <1>5, UploadFacts DEF RowsRight, FilesAreRegistered, Full
  <2>2. StoredRows(committed)' /\ Matching(committed)'
    BY <1>5, UploadFacts DEF RowsRight, StoredRows, Stored, Matching
  <2>3. Reopened(committed)'
    BY <1>1, <1>5, UploadFacts DEF RowsRight, Reopened, Free
  <2> QED BY <2>1, <2>2, <2>3 DEF RowsRight
<1>13. NamesRight' /\ AcknowledgedStays'
  BY <1>1, <1>5, UploadFacts DEF NamesRight, AcknowledgedStays, RequestsOK
<1>14. RowOfReceiver' /\ ReceiverAlone'
  <2>1. ReceiverAlone'
    BY <1>6, UploadFacts DEF ReceiverAlone
  <2>2. ASSUME NEW q \in Request, NEW g \in File, Receives(q, g)'
        PROVE  q # r /\ g # f /\ Receives(q, g) /\ pc'[q] = pc[q] /\ req'[q] = req[q]
    BY <1>2, <1>6, <2>2
  <2> QED BY <1>3, <1>5, <2>1, <2>2, UploadFacts DEF RowOfReceiver
<1>15. NamesOfReceiver'
  <2>1. ASSUME NEW q \in Request, NEW g \in File, Receives(q, g)'
        PROVE  q # r /\ Receives(q, g) /\ pc'[q] = pc[q] /\ req'[q] = req[q]
    BY <1>2, <1>6, <2>1
  <2> QED BY <2>1, UploadFacts DEF NamesOfReceiver, Free
<1>16. NextReceiver'
  <2>1. ASSUME NEW q \in Request, pc'[q] = "putCommit"
        PROVE  /\ db'.file[req'[q].file] = "Receiving" /\ Free(req[q].file) /\ req'[q] = req[q]
               /\ req[q].file \in File /\ (\A p \in Request : ~Receives(p, req[q].file))
    <3>1. pc[q] = "putCommit" /\ req'[q] = req[q] /\ req[q].file \in File
      BY <1>2, <2>1, UploadFacts DEF RequestsOK, PutStep
    <3>2. req[q].file # f
      BY <1>1, <3>1, UploadFacts DEF NextReceiver
    <3> QED BY <1>3, <3>1, <3>2, UploadFacts DEF NextReceiver
  <2> QED BY <1>6, <2>1 DEF NextReceiver, Free
<1> QED
  BY <1>7, <1>8, <1>9, <1>10, <1>11, <1>12, <1>13, <1>14, <1>15, <1>16 DEF UploadInv

\* COMMIT of the transaction of thread r, which has put its own rows in order.
LEMMA CommitFacts ==
    ASSUME UploadInv, NEW r \in Request, pc[r] \in InTransaction \ {"rollback"}, Commit
    PROVE  /\ db' = db /\ committed' = db /\ txn' = NoOne /\ txn = r
           /\ RowsRight(db)
           /\ \A q \in Request : q # r => pc[q] \notin InTransaction
           /\ \A g \in File : committed.file[g] = "Received" => db.file[g] = "Received"
  BY UploadFacts DEF Commit, UploadTypeOK, InTransaction, DbAhead

\* COMMIT of BeginUpload: the thread becomes the receiver of its file.
LEMMA PutCommitKeeps ==
    ASSUME UploadInv, NEW r \in Request, PutCommit(r)
    PROVE  UploadInv'
<1> USE UploadAssumption DEF names, history, dirs
<1>1. PICK f \in File : f = req[r].file
  BY UploadFacts DEF PutCommit, RequestsOK, PutStep
<1>2. /\ pc[r] = "putCommit" /\ pc'[r] = "create" /\ req' = req /\ db' = db /\ committed' = db
      /\ txn' = NoOne /\ (\A q \in Request : q # r => pc'[q] = pc[q] /\ pc[q] \notin InTransaction)
      /\ UNCHANGED <<server, names, history, faults>> /\ txn = r
      /\ (\A g \in File : committed.file[g] = "Received" => db.file[g] = "Received")
  BY GotoFacts, CommitFacts DEF PutCommit, InTransaction
<1>3. /\ db.file[f] = "Receiving" /\ Free(f)
      /\ \A q \in Request : ~Receives(q, f)
  BY <1>1, <1>2, UploadFacts DEF NextReceiver
<1>4. \A q \in Request, g \in File : Receives(q, g)' =>
          (Receives(q, g) /\ q # r) \/ (q = r /\ g = f)
  BY <1>1, <1>2 DEF Receives
<1>5. UploadTypeOK'
  <2>1. pc' \in [Request -> Step]
    BY UploadFacts DEF PutCommit, Goto, UploadTypeOK, Step, Receiving
  <2>2. \A q \in Request : txn' = q <=> pc'[q] \in InTransaction
    BY <1>2 DEF InTransaction
  <2> QED BY <1>2, <2>1, <2>2, UploadFacts DEF UploadTypeOK
<1>6. RequestsOK' /\ StoppedIsIdle'
  BY <1>1, <1>2, UploadFacts DEF RequestsOK, StoppedIsIdle, PutStep, SessionStep, Receiving
<1>7. DbAhead' /\ AcknowledgedStays' /\ NamesRight'
  BY <1>2, UploadFacts DEF DbAhead, AcknowledgedStays, NamesRight, RequestsOK
<1>8. CreatorsAlone'
  <2>1. \A q \in Request : pc'[q] \in Creating \cup {"createCommit"} =>
            q # r /\ pc'[q] = pc[q]
    BY <1>2 DEF Creating
  <2> QED BY <1>2, <2>1, UploadFacts DEF CreatorsAlone, Creating
<1>9. RowsRight(db)' /\ RowsRight(committed)'
  BY <1>2, UploadFacts DEF RowsRight, FilesAreRegistered, StoredRows, Stored, Matching,
     Full, Reopened, Free
<1>10. RowOfReceiver' /\ ReceiverAlone'
  <2>1. ASSUME NEW q \in Request, NEW g \in File, Receives(q, g)'
        PROVE  db.file[g] = "Receiving" /\ pc'[q] # "commitCommit"
    <3>1. CASE q = r
      BY <1>2, <1>3, <1>4, <2>1, <3>1
    <3>2. CASE q # r
      <4>1. Receives(q, g) /\ pc'[q] = pc[q] /\ pc[q] # "commitCommit"
        BY <1>2, <1>4, <2>1, <3>2 DEF InTransaction
      <4> QED BY <4>1, UploadFacts DEF RowOfReceiver
    <3> QED BY <3>1, <3>2
  <2>2. ReceiverAlone'
    <3>1. ASSUME NEW p \in Request, NEW q \in Request, NEW g \in File,
                 Receives(p, g)', Receives(q, g)'
          PROVE  p = q
      BY <1>3, <1>4, <3>1, UploadFacts DEF ReceiverAlone
    <3> QED BY <3>1 DEF ReceiverAlone
  <2> QED BY <1>2, <2>1, <2>2 DEF RowOfReceiver
<1>11. NamesOfReceiver'
  <2>1. ASSUME NEW q \in Request, NEW g \in File, Receives(q, g)'
        PROVE  (/\ pc[q] = "body" => temp[g] \in {Absent, Partial}
                /\ pc[q] \in {"hash", "publish"} => temp[g] \in {Absent, req[q].body}
                /\ pc[q] \in BeforePublish => Free(g)
                /\ pc[q] \in AfterPublish => final[g] = req[q].body
                /\ pc[q] \in AfterPublish \cup {"publish"} => HashMatches(g, req[q].body)
                /\ pc[q] \in {"commitBegin", "commitUpdate", "commitCommit"} => g \in synced)'
    <3>1. CASE q = r
      BY <1>2, <1>3, <1>4, <2>1, <3>1 DEF BeforePublish, AfterPublish, Free
    <3>2. CASE q # r
      <4>1. Receives(q, g) /\ pc'[q] = pc[q]
        BY <1>2, <1>4, <2>1, <3>2
      <4> QED BY <1>2, <4>1, UploadFacts DEF NamesOfReceiver, Free, HashMatches
    <3> QED BY <3>1, <3>2
  <2> QED BY <2>1 DEF NamesOfReceiver
<1>12. NextReceiver'
  BY <1>2 DEF NextReceiver, InTransaction
<1> QED
  BY <1>5, <1>6, <1>7, <1>8, <1>9, <1>10, <1>11, <1>12 DEF UploadInv

\* Every step preserves the invariant.
LEMMA UploadInvNext == UploadInv /\ [UploadNext]_uploadVars => UploadInv'
<1> SUFFICES ASSUME UploadInv, [UploadNext]_uploadVars PROVE UploadInv'
  OBVIOUS
<1> USE UploadAssumption DEF rows, handlers, names, history, dirs
<1>1. ASSUME NEW r \in Request, Rollback(r) PROVE UploadInv'
  <2>1. UploadTypeOK'
    BY <1>1, UploadFacts DEF Rollback, Finish, NoRequest, UploadTypeOK, RequestsOK, Rows,
       UploadFileState, UploadSessionState, Step, Receiving, InTransaction, PutStep,
       SessionStep, NamesOfReceiver, Receives
  <2>2. RequestsOK' /\ StoppedIsIdle'
    BY <1>1, UploadFacts DEF Rollback, Finish, NoRequest, UploadTypeOK, RequestsOK,
       StoppedIsIdle, PutStep, SessionStep, Receiving, Step
  <2>3. DbAhead'
    BY <1>1, UploadFacts DEF Rollback, Finish, NoRequest, UploadTypeOK, RequestsOK,
       DbAhead, Rows, InTransaction
  <2>4. CreatorsAlone'
    BY <1>1, UploadFacts DEF Rollback, Finish, NoRequest, UploadTypeOK, RequestsOK,
       CreatorsAlone, Creating, DbAhead, Rows, InTransaction, SessionStep
  <2>5. RowsRight(db)' /\ RowsRight(committed)'
    BY <1>1, UploadFacts DEF Rollback, Finish, NoRequest, UploadTypeOK, RequestsOK,
       RowsRight, FilesAreRegistered, StoredRows, Stored, Matching, Full, Reopened, Free, Rows,
       PutStep, Receiving
  <2>6. RowOfReceiver' /\ ReceiverAlone'
    BY <1>1, UploadFacts DEF Rollback, Finish, NoRequest, UploadTypeOK, RequestsOK,
       RowOfReceiver, ReceiverAlone, Receives, Receiving, InTransaction, Rows, PutStep
  <2>7. NamesOfReceiver'
    BY <1>1, UploadFacts DEF Rollback, Finish, NoRequest, UploadTypeOK, RequestsOK,
       NamesOfReceiver, Receives, Receiving, BeforePublish, AfterPublish, Free, PutStep,
       HashMatches, ReceiverAlone
  <2>8. NextReceiver'
    BY <1>1, UploadFacts DEF Rollback, Finish, NoRequest, UploadTypeOK, RequestsOK,
       NextReceiver, Receives, Receiving, InTransaction, Free, PutStep, Rows
  <2>9. NamesRight' /\ AcknowledgedStays'
    BY <1>1, UploadFacts DEF Rollback, Finish, NoRequest, UploadTypeOK, RequestsOK,
       NamesRight, AcknowledgedStays, DbAhead, Rows, PutStep
  <2> QED BY <2>1, <2>2, <2>3, <2>4, <2>5, <2>6, <2>7, <2>8, <2>9 DEF UploadInv
<1>2. ASSUME NEW r \in Request, CompleteSelect(r) PROVE UploadInv'
  <2> DEFINE s == req[r].session
  <2>a. /\ pc[r] = "completeSelect" /\ req' = req /\ s \in Session
        /\ pc'[r] \in {"completeCommit", "rollback"}
        /\ \A q \in Request : q # r => pc'[q] = pc[q]
    BY <1>2, GotoFacts, UploadFacts DEF CompleteSelect, RequestsOK, SessionStep
  <2>b. pc' \in [Request -> Step]
    BY <1>2, <2>a, UploadFacts DEF CompleteSelect, Goto, UploadTypeOK, Step, InTransaction
  <2>c. /\ UNCHANGED <<server, committed, txn, names, history, requests, faults>>
        /\ \/ db' = db
           \/ /\ \A f \in File : SessionOf[f] = s => db.file[f] = "Received"
              /\ db.session[s] = "Open" /\ db' = [db EXCEPT !.session[s] = "Complete"]
    BY <1>2 DEF CompleteSelect, Incomplete
  <2>d. /\ db' \in Rows /\ db'.file = db.file /\ db'.digest = db.digest
        /\ \A t \in Session :
               \/ db'.session[t] = db.session[t]
               \/ /\ t = s /\ db.session[s] = "Open" /\ db'.session[s] = "Complete"
                  /\ \A f \in File : SessionOf[f] = s => db.file[f] = "Received"
    <3>1. db \in Rows
      BY UploadFacts DEF UploadTypeOK
    <3>2. PICK now : now = [db.session EXCEPT ![s] = "Complete"]
      OBVIOUS
    <3>3. /\ now \in [Session -> UploadSessionState] /\ now[s] = "Complete"
          /\ \A t \in Session : t # s => now[t] = db.session[t]
      BY <2>a, <3>1, <3>2 DEF Rows, UploadSessionState
    <3>4. ASSUME db' = [db EXCEPT !.session = now]
          PROVE  db' \in Rows /\ db'.file = db.file /\ db'.digest = db.digest
                 /\ db'.session = now
      BY <3>1, <3>3, <3>4 DEF Rows
    <3>5. CASE db' = db
      BY <3>1, <3>5
    <3>6. CASE db' # db
      <4>1. /\ \A f \in File : SessionOf[f] = s => db.file[f] = "Received"
            /\ db.session[s] = "Open" /\ db' = [db EXCEPT !.session = now]
        BY <2>c, <3>2, <3>6
      <4> QED BY <4>1, <3>3, <3>4
    <3> QED BY <3>5, <3>6
  <2> HIDE DEF s
  <2>1. UploadTypeOK'
    <3>1. \A q \in Request : pc'[q] \in InTransaction <=> pc[q] \in InTransaction
      BY <2>a DEF InTransaction
    <3> QED BY <2>b, <2>c, <2>d, <3>1, UploadFacts DEF UploadTypeOK, names, history, dirs
  <2>2. RequestsOK' /\ StoppedIsIdle'
    BY <1>2, UploadFacts DEF CompleteSelect, Goto, Incomplete, UploadTypeOK, RequestsOK,
       StoppedIsIdle, PutStep, SessionStep, Receiving, Step, NoRequest
  <2>3. DbAhead'
    <3>1. txn # NoOne
      BY <2>a, UploadFacts, UploadAssumption DEF UploadTypeOK, InTransaction
    <3> QED BY <2>a, <2>c, <2>d, <3>1, UploadFacts DEF DbAhead
  <2>4. CreatorsAlone'
    BY <1>2, UploadFacts DEF CompleteSelect, Goto, Incomplete, UploadTypeOK, RequestsOK,
       CreatorsAlone, Creating, DbAhead, Rows, InTransaction, SessionStep
  <2>5. RowsRight(db)' /\ RowsRight(committed)'
    <3>1. \A f \in File : /\ Stored(f)' <=> Stored(f)
                          /\ Free(f)' <=> Free(f)
      BY <2>c DEF Stored, Free, names, history, dirs
    <3>2. RowsRight(committed)'
      BY <2>c, <3>1, UploadFacts DEF names, RowsRight, FilesAreRegistered, StoredRows,
         Matching, Full, Reopened
    <3>3. StoredRows(db)' /\ Matching(db)' /\ Reopened(db)'
      BY <2>c, <2>d, <3>1, UploadFacts, UploadAssumption
      DEF names, RowsRight, StoredRows, Matching, Reopened
    <3>4. FilesAreRegistered(db)' /\ Full(db)'
      BY <2>d, UploadFacts, UploadAssumption DEF RowsRight, FilesAreRegistered, Full
    <3> QED BY <3>2, <3>3, <3>4 DEF RowsRight
  <2>6. RowOfReceiver' /\ ReceiverAlone'
    <3>1. \A q \in Request, f \in File : Receives(q, f)' => Receives(q, f) /\ pc'[q] = pc[q]
      BY <2>a DEF Receives, Receiving
    <3> QED BY <2>a, <2>c, <2>d, <3>1, UploadFacts DEF RowOfReceiver, ReceiverAlone
  <2>7. NamesOfReceiver'
    BY <1>2, UploadFacts DEF CompleteSelect, Goto, Incomplete, UploadTypeOK, RequestsOK,
       NamesOfReceiver, Receives, Receiving, BeforePublish, AfterPublish, Free, PutStep,
       HashMatches, ReceiverAlone
  <2>8. NextReceiver'
    BY <1>2, UploadFacts DEF CompleteSelect, Goto, Incomplete, UploadTypeOK, RequestsOK,
       NextReceiver, Receives, Receiving, InTransaction, Free, PutStep, Rows
  <2>9. NamesRight' /\ AcknowledgedStays'
    BY <1>2, UploadFacts DEF CompleteSelect, Goto, Incomplete, UploadTypeOK, RequestsOK,
       NamesRight, AcknowledgedStays, DbAhead, Rows, PutStep
  <2> QED BY <2>1, <2>2, <2>3, <2>4, <2>5, <2>6, <2>7, <2>8, <2>9 DEF UploadInv
<1>3. ASSUME NEW r \in Request, CreateCommit(r) PROVE UploadInv'
  <2>1. UploadTypeOK'
    BY <1>3, UploadFacts DEF CreateCommit, Commit, Finish, NoRequest, UploadTypeOK,
       RequestsOK, Rows, UploadFileState, UploadSessionState, Step, Receiving,
       InTransaction, PutStep, SessionStep, NamesOfReceiver, Receives
  <2>2. RequestsOK' /\ StoppedIsIdle'
    BY <1>3, UploadFacts DEF CreateCommit, Commit, Finish, NoRequest, UploadTypeOK,
       RequestsOK, StoppedIsIdle, PutStep, SessionStep, Receiving, Step
  <2>3. DbAhead'
    BY <1>3, UploadFacts DEF CreateCommit, Commit, Finish, NoRequest, UploadTypeOK,
       RequestsOK, DbAhead, Rows, InTransaction
  <2>4. CreatorsAlone'
    BY <1>3, UploadFacts DEF CreateCommit, Commit, Finish, NoRequest, UploadTypeOK,
       RequestsOK, CreatorsAlone, Creating, DbAhead, Rows, InTransaction, SessionStep
  <2>5. RowsRight(db)' /\ RowsRight(committed)'
    BY <1>3, UploadFacts DEF CreateCommit, Commit, Finish, NoRequest, UploadTypeOK,
       RequestsOK, RowsRight, FilesAreRegistered, StoredRows, Stored, Matching, Full,
       Reopened, Free, Rows, PutStep, Receiving
  <2>6. RowOfReceiver' /\ ReceiverAlone'
    BY <1>3, UploadFacts DEF CreateCommit, Commit, Finish, NoRequest, UploadTypeOK,
       RequestsOK, RowOfReceiver, ReceiverAlone, Receives, Receiving, InTransaction, Rows,
       PutStep
  <2>7. NamesOfReceiver'
    BY <1>3, UploadFacts DEF CreateCommit, Commit, Finish, NoRequest, UploadTypeOK,
       RequestsOK, NamesOfReceiver, Receives, Receiving, BeforePublish, AfterPublish,
       Free, PutStep, HashMatches, ReceiverAlone
  <2>8. NextReceiver'
    BY <1>3, UploadFacts DEF CreateCommit, Commit, Finish, NoRequest, UploadTypeOK,
       RequestsOK, NextReceiver, Receives, Receiving, InTransaction, Free, PutStep, Rows
  <2>9. NamesRight' /\ AcknowledgedStays'
    BY <1>3, UploadFacts DEF CreateCommit, Commit, Finish, NoRequest, UploadTypeOK,
       RequestsOK, NamesRight, AcknowledgedStays, DbAhead, Rows, PutStep
  <2> QED BY <2>1, <2>2, <2>3, <2>4, <2>5, <2>6, <2>7, <2>8, <2>9 DEF UploadInv
<1>4. ASSUME NEW r \in Request, CompleteCommit(r) PROVE UploadInv'
  <2>1. UploadTypeOK'
    BY <1>4, UploadFacts DEF CompleteCommit, Commit, Finish, NoRequest, UploadTypeOK,
       RequestsOK, Rows, UploadFileState, UploadSessionState, Step, Receiving,
       InTransaction, PutStep, SessionStep, NamesOfReceiver, Receives
  <2>2. RequestsOK' /\ StoppedIsIdle'
    BY <1>4, UploadFacts DEF CompleteCommit, Commit, Finish, NoRequest, UploadTypeOK,
       RequestsOK, StoppedIsIdle, PutStep, SessionStep, Receiving, Step
  <2>3. DbAhead'
    BY <1>4, UploadFacts DEF CompleteCommit, Commit, Finish, NoRequest, UploadTypeOK,
       RequestsOK, DbAhead, Rows, InTransaction
  <2>4. CreatorsAlone'
    BY <1>4, UploadFacts DEF CompleteCommit, Commit, Finish, NoRequest, UploadTypeOK,
       RequestsOK, CreatorsAlone, Creating, DbAhead, Rows, InTransaction, SessionStep
  <2>5. RowsRight(db)' /\ RowsRight(committed)'
    BY <1>4, UploadFacts DEF CompleteCommit, Commit, Finish, NoRequest, UploadTypeOK,
       RequestsOK, RowsRight, FilesAreRegistered, StoredRows, Stored, Matching, Full,
       Reopened, Free, Rows, PutStep, Receiving
  <2>6. RowOfReceiver' /\ ReceiverAlone'
    BY <1>4, UploadFacts DEF CompleteCommit, Commit, Finish, NoRequest, UploadTypeOK,
       RequestsOK, RowOfReceiver, ReceiverAlone, Receives, Receiving, InTransaction, Rows,
       PutStep
  <2>7. NamesOfReceiver'
    BY <1>4, UploadFacts DEF CompleteCommit, Commit, Finish, NoRequest, UploadTypeOK,
       RequestsOK, NamesOfReceiver, Receives, Receiving, BeforePublish, AfterPublish,
       Free, PutStep, HashMatches, ReceiverAlone
  <2>8. NextReceiver'
    BY <1>4, UploadFacts DEF CompleteCommit, Commit, Finish, NoRequest, UploadTypeOK,
       RequestsOK, NextReceiver, Receives, Receiving, InTransaction, Free, PutStep, Rows
  <2>9. NamesRight' /\ AcknowledgedStays'
    BY <1>4, UploadFacts DEF CompleteCommit, Commit, Finish, NoRequest, UploadTypeOK,
       RequestsOK, NamesRight, AcknowledgedStays, DbAhead, Rows, PutStep
  <2> QED BY <2>1, <2>2, <2>3, <2>4, <2>5, <2>6, <2>7, <2>8, <2>9 DEF UploadInv
<1>5. ASSUME NEW r \in Request, CommitCommit(r) PROVE UploadInv'
  <2>1. UploadTypeOK'
    BY <1>5, UploadFacts DEF CommitCommit, Commit, Finish, NoRequest, UploadTypeOK,
       RequestsOK, Rows, UploadFileState, UploadSessionState, Step, Receiving,
       InTransaction, PutStep, SessionStep, NamesOfReceiver, Receives
  <2>2. RequestsOK' /\ StoppedIsIdle'
    BY <1>5, UploadFacts DEF CommitCommit, Commit, Finish, NoRequest, UploadTypeOK,
       RequestsOK, StoppedIsIdle, PutStep, SessionStep, Receiving, Step
  <2>3. DbAhead'
    BY <1>5, UploadFacts DEF CommitCommit, Commit, Finish, NoRequest, UploadTypeOK,
       RequestsOK, DbAhead, Rows, InTransaction
  <2>4. CreatorsAlone'
    BY <1>5, UploadFacts DEF CommitCommit, Commit, Finish, NoRequest, UploadTypeOK,
       RequestsOK, CreatorsAlone, Creating, DbAhead, Rows, InTransaction, SessionStep
  <2>5. RowsRight(db)' /\ RowsRight(committed)'
    BY <1>5, UploadFacts DEF CommitCommit, Commit, Finish, NoRequest, UploadTypeOK,
       RequestsOK, RowsRight, FilesAreRegistered, StoredRows, Stored, Matching, Full,
       Reopened, Free, Rows, PutStep, Receiving
  <2>6. RowOfReceiver' /\ ReceiverAlone'
    BY <1>5, UploadFacts DEF CommitCommit, Commit, Finish, NoRequest, UploadTypeOK,
       RequestsOK, RowOfReceiver, ReceiverAlone, Receives, Receiving, InTransaction, Rows,
       PutStep
  <2>7. NamesOfReceiver'
    BY <1>5, UploadFacts DEF CommitCommit, Commit, Finish, NoRequest, UploadTypeOK,
       RequestsOK, NamesOfReceiver, Receives, Receiving, BeforePublish, AfterPublish,
       Free, PutStep, HashMatches, ReceiverAlone
  <2>8. NextReceiver'
    BY <1>5, UploadFacts DEF CommitCommit, Commit, Finish, NoRequest, UploadTypeOK,
       RequestsOK, NextReceiver, Receives, Receiving, InTransaction, Free, PutStep, Rows
  <2>9. NamesRight' /\ AcknowledgedStays'
    <3>1. /\ pc[r] = "commitCommit" /\ committed' = db /\ UNCHANGED <<final, synced>>
          /\ acked' = acked \cup {req[r].file}
      BY <1>5 DEF CommitCommit, Commit
    <3>2. req[r].file \in File /\ db.file[req[r].file] = "Received"
      BY <3>1, UploadFacts DEF RequestsOK, PutStep, Receiving, RowOfReceiver, Receives
    <3>3. AcknowledgedStays'
      BY <3>1, <3>2, UploadFacts DEF AcknowledgedStays, DbAhead, RequestsOK
    <3> QED BY <3>1, <3>3, UploadFacts DEF NamesRight
  <2> QED BY <2>1, <2>2, <2>3, <2>4, <2>5, <2>6, <2>7, <2>8, <2>9 DEF UploadInv
<1>6. ASSUME NEW r \in Request, PutSelect(r) PROVE UploadInv'
  <2>1. UploadTypeOK'
    BY <1>6, UploadFacts DEF PutSelect, Goto, UploadTypeOK, RequestsOK, Rows,
       UploadFileState, UploadSessionState, Step, Receiving, InTransaction, PutStep,
       SessionStep, NamesOfReceiver, Receives
  <2>2. RequestsOK' /\ StoppedIsIdle'
    BY <1>6, UploadFacts DEF PutSelect, Goto, UploadTypeOK, RequestsOK, StoppedIsIdle,
       PutStep, SessionStep, Receiving, Step, NoRequest
  <2>3. DbAhead'
    BY <1>6, UploadFacts DEF PutSelect, Goto, UploadTypeOK, RequestsOK, DbAhead, Rows,
       InTransaction
  <2>4. CreatorsAlone'
    BY <1>6, UploadFacts DEF PutSelect, Goto, UploadTypeOK, RequestsOK, CreatorsAlone,
       Creating, DbAhead, Rows, InTransaction, SessionStep
  <2>5. RowsRight(db)' /\ RowsRight(committed)'
    BY <1>6, UploadFacts DEF PutSelect, Goto, UploadTypeOK, RequestsOK, RowsRight,
       FilesAreRegistered, StoredRows, Stored, Matching, Full, Reopened, Free, Rows, PutStep,
       Receiving
  <2>6. RowOfReceiver' /\ ReceiverAlone'
    BY <1>6, UploadFacts DEF PutSelect, Goto, UploadTypeOK, RequestsOK, RowOfReceiver,
       ReceiverAlone, Receives, Receiving, InTransaction, Rows, PutStep
  <2>7. NamesOfReceiver'
    BY <1>6, UploadFacts DEF PutSelect, Goto, UploadTypeOK, RequestsOK, NamesOfReceiver,
       Receives, Receiving, BeforePublish, AfterPublish, Free, PutStep, HashMatches,
       ReceiverAlone
  <2>8. NextReceiver'
    BY <1>6, UploadFacts DEF PutSelect, Goto, UploadTypeOK, RequestsOK, NextReceiver,
       Receives, Receiving, InTransaction, Free, PutStep, Rows
  <2>9. NamesRight' /\ AcknowledgedStays'
    <3>1. /\ pc[r] = "putSelect" /\ txn = r /\ committed' = committed
          /\ UNCHANGED <<final, synced>> /\ acked' \subseteq acked \cup {req[r].file}
          /\ (req[r].file \in acked' => req[r].file \in acked \/ db.file[req[r].file] = "Received")
      BY <1>6, UploadFacts DEF PutSelect, UploadTypeOK, InTransaction
    <3>2. \A q \in Request : pc[q] \notin {"commitCommit", "rollback"}
      BY <3>1, UploadFacts DEF UploadTypeOK, InTransaction
    <3>3. req[r].file \in File
      BY <3>1, UploadFacts DEF RequestsOK, PutStep
    <3>4. AcknowledgedStays'
      BY <3>1, <3>2, <3>3, UploadFacts DEF AcknowledgedStays, DbAhead
    <3> QED BY <3>1, <3>4, UploadFacts DEF NamesRight
  <2> QED BY <2>1, <2>2, <2>3, <2>4, <2>5, <2>6, <2>7, <2>8, <2>9 DEF UploadInv
<1>7. ASSUME NEW r \in Request, CreateTempFile(r) PROVE UploadInv'
  <2>1. UploadTypeOK'
    <3>1. /\ pc[r] = "create" /\ UNCHANGED <<server, rows, final, synced, history, faults>>
          /\ \A q \in Request : pc'[q] \in InTransaction <=> pc[q] \in InTransaction
      BY <1>7, GotoFacts, UploadFacts DEF CreateTempFile, InTransaction
    <3>2. pc' \in [Request -> Step]
      BY <1>7, UploadFacts DEF CreateTempFile, Goto, UploadTypeOK, Step, Receiving
    <3>3. temp' \in [File -> Body \cup {Absent, Partial}]
      BY <1>7, UploadFacts DEF CreateTempFile, UploadTypeOK
    <3> QED BY <3>1, <3>2, <3>3, UploadFacts DEF UploadTypeOK, rows, history, dirs
  <2>2. RequestsOK' /\ StoppedIsIdle'
    BY <1>7, UploadFacts DEF CreateTempFile, Goto, UploadTypeOK, RequestsOK,
       StoppedIsIdle, PutStep, SessionStep, Receiving, Step, NoRequest
  <2>3. DbAhead'
    BY <1>7, UploadFacts DEF CreateTempFile, Goto, UploadTypeOK, RequestsOK, DbAhead,
       Rows, InTransaction
  <2>4. CreatorsAlone'
    BY <1>7, UploadFacts DEF CreateTempFile, Goto, UploadTypeOK, RequestsOK,
       CreatorsAlone, Creating, DbAhead, Rows, InTransaction, SessionStep
  <2>5. RowsRight(db)' /\ RowsRight(committed)'
    BY <1>7, UploadFacts DEF CreateTempFile, Goto, UploadTypeOK, RequestsOK, RowsRight,
       FilesAreRegistered, StoredRows, Stored, Matching, Full, Reopened, Free, Rows, PutStep,
       Receiving
  <2>6. RowOfReceiver' /\ ReceiverAlone'
    <3>1. /\ pc[r] = "create" /\ req' = req /\ UNCHANGED rows
          /\ pc'[r] \in {"markFailed", "body"}
          /\ \A q \in Request : q # r => pc'[q] = pc[q]
      BY <1>7, GotoFacts, UploadFacts DEF CreateTempFile
    <3>2. \A q \in Request, f \in File :
              Receives(q, f)' => /\ Receives(q, f)
                                 /\ pc'[q] = "commitCommit" <=> pc[q] = "commitCommit"
      BY <3>1 DEF Receives, Receiving
    <3> QED BY <3>1, <3>2, UploadFacts DEF rows, RowOfReceiver, ReceiverAlone
  <2>7. NamesOfReceiver'
    BY <1>7, UploadFacts DEF CreateTempFile, Goto, UploadTypeOK, RequestsOK,
       NamesOfReceiver, Receives, Receiving, BeforePublish, AfterPublish, Free, PutStep,
       HashMatches, ReceiverAlone
  <2>8. NextReceiver'
    BY <1>7, UploadFacts DEF CreateTempFile, Goto, UploadTypeOK, RequestsOK, NextReceiver,
       Receives, Receiving, InTransaction, Free, PutStep, Rows
  <2>9. NamesRight' /\ AcknowledgedStays'
    BY <1>7, UploadFacts DEF CreateTempFile, Goto, UploadTypeOK, RequestsOK, NamesRight,
       AcknowledgedStays, DbAhead, Rows, PutStep
  <2> QED BY <2>1, <2>2, <2>3, <2>4, <2>5, <2>6, <2>7, <2>8, <2>9 DEF UploadInv
<1>8. ASSUME NEW r \in Request, ReceiveBody(r) PROVE UploadInv'
  <2>1. UploadTypeOK'
    BY <1>8, UploadFacts DEF ReceiveBody, Goto, UploadTypeOK, RequestsOK, Rows,
       UploadFileState, UploadSessionState, Step, Receiving, InTransaction, PutStep,
       SessionStep, NamesOfReceiver, Receives
  <2>2. RequestsOK' /\ StoppedIsIdle'
    BY <1>8, UploadFacts DEF ReceiveBody, Goto, UploadTypeOK, RequestsOK, StoppedIsIdle,
       PutStep, SessionStep, Receiving, Step, NoRequest
  <2>3. DbAhead'
    BY <1>8, UploadFacts DEF ReceiveBody, Goto, UploadTypeOK, RequestsOK, DbAhead, Rows,
       InTransaction
  <2>4. CreatorsAlone'
    BY <1>8, UploadFacts DEF ReceiveBody, Goto, UploadTypeOK, RequestsOK, CreatorsAlone,
       Creating, DbAhead, Rows, InTransaction, SessionStep
  <2>5. RowsRight(db)' /\ RowsRight(committed)'
    BY <1>8, UploadFacts DEF ReceiveBody, Goto, UploadTypeOK, RequestsOK, RowsRight,
       FilesAreRegistered, StoredRows, Stored, Matching, Full, Reopened, Free, Rows, PutStep,
       Receiving
  <2>6. RowOfReceiver' /\ ReceiverAlone'
    BY <1>8, UploadFacts DEF ReceiveBody, Goto, UploadTypeOK, RequestsOK, RowOfReceiver,
       ReceiverAlone, Receives, Receiving, InTransaction, Rows, PutStep
  <2>7. NamesOfReceiver'
    BY <1>8, UploadFacts DEF ReceiveBody, Goto, UploadTypeOK, RequestsOK, NamesOfReceiver,
       Receives, Receiving, BeforePublish, AfterPublish, Free, PutStep, HashMatches,
       ReceiverAlone
  <2>8. NextReceiver'
    BY <1>8, UploadFacts DEF ReceiveBody, Goto, UploadTypeOK, RequestsOK, NextReceiver,
       Receives, Receiving, InTransaction, Free, PutStep, Rows
  <2>9. NamesRight' /\ AcknowledgedStays'
    BY <1>8, UploadFacts DEF ReceiveBody, Goto, UploadTypeOK, RequestsOK, NamesRight,
       AcknowledgedStays, DbAhead, Rows, PutStep
  <2> QED BY <2>1, <2>2, <2>3, <2>4, <2>5, <2>6, <2>7, <2>8, <2>9 DEF UploadInv
<1>9. ASSUME NEW r \in Request, ReceiveBodyFails(r) PROVE UploadInv'
  <2>1. UploadTypeOK'
    BY <1>9, UploadFacts DEF ReceiveBodyFails, Goto, UploadTypeOK, RequestsOK, Rows,
       UploadFileState, UploadSessionState, Step, Receiving, InTransaction, PutStep,
       SessionStep, NamesOfReceiver, Receives
  <2>2. RequestsOK' /\ StoppedIsIdle'
    BY <1>9, UploadFacts DEF ReceiveBodyFails, Goto, UploadTypeOK, RequestsOK,
       StoppedIsIdle, PutStep, SessionStep, Receiving, Step, NoRequest
  <2>3. DbAhead'
    BY <1>9, UploadFacts DEF ReceiveBodyFails, Goto, UploadTypeOK, RequestsOK, DbAhead,
       Rows, InTransaction
  <2>4. CreatorsAlone'
    BY <1>9, UploadFacts DEF ReceiveBodyFails, Goto, UploadTypeOK, RequestsOK,
       CreatorsAlone, Creating, DbAhead, Rows, InTransaction, SessionStep
  <2>5. RowsRight(db)' /\ RowsRight(committed)'
    BY <1>9, UploadFacts DEF ReceiveBodyFails, Goto, UploadTypeOK, RequestsOK, RowsRight,
       FilesAreRegistered, StoredRows, Stored, Matching, Full, Reopened, Free, Rows, PutStep,
       Receiving
  <2>6. RowOfReceiver' /\ ReceiverAlone'
    BY <1>9, UploadFacts DEF ReceiveBodyFails, Goto, UploadTypeOK, RequestsOK,
       RowOfReceiver, ReceiverAlone, Receives, Receiving, InTransaction, Rows, PutStep
  <2>7. NamesOfReceiver'
    BY <1>9, UploadFacts DEF ReceiveBodyFails, Goto, UploadTypeOK, RequestsOK,
       NamesOfReceiver, Receives, Receiving, BeforePublish, AfterPublish, Free, PutStep,
       HashMatches, ReceiverAlone
  <2>8. NextReceiver'
    BY <1>9, UploadFacts DEF ReceiveBodyFails, Goto, UploadTypeOK, RequestsOK,
       NextReceiver, Receives, Receiving, InTransaction, Free, PutStep, Rows
  <2>9. NamesRight' /\ AcknowledgedStays'
    BY <1>9, UploadFacts DEF ReceiveBodyFails, Goto, UploadTypeOK, RequestsOK, NamesRight,
       AcknowledgedStays, DbAhead, Rows, PutStep
  <2> QED BY <2>1, <2>2, <2>3, <2>4, <2>5, <2>6, <2>7, <2>8, <2>9 DEF UploadInv
<1>10. ASSUME NEW r \in Request, CheckClientDigest(r) PROVE UploadInv'
  <2>1. UploadTypeOK'
    BY <1>10, UploadFacts DEF CheckClientDigest, Goto, UploadTypeOK, RequestsOK, Rows,
       UploadFileState, UploadSessionState, Step, Receiving, InTransaction, PutStep,
       SessionStep, NamesOfReceiver, Receives
  <2>2. RequestsOK' /\ StoppedIsIdle'
    BY <1>10, UploadFacts DEF CheckClientDigest, Goto, UploadTypeOK, RequestsOK,
       StoppedIsIdle, PutStep, SessionStep, Receiving, Step, NoRequest
  <2>3. DbAhead'
    BY <1>10, UploadFacts DEF CheckClientDigest, Goto, UploadTypeOK, RequestsOK, DbAhead,
       Rows, InTransaction
  <2>4. CreatorsAlone'
    BY <1>10, UploadFacts DEF CheckClientDigest, Goto, UploadTypeOK, RequestsOK,
       CreatorsAlone, Creating, DbAhead, Rows, InTransaction, SessionStep
  <2>5. RowsRight(db)' /\ RowsRight(committed)'
    BY <1>10, UploadFacts DEF CheckClientDigest, Goto, UploadTypeOK, RequestsOK,
       RowsRight, FilesAreRegistered, StoredRows, Stored, Matching, Full, Reopened, Free, Rows,
       PutStep, Receiving
  <2>6. RowOfReceiver' /\ ReceiverAlone'
    BY <1>10, UploadFacts DEF CheckClientDigest, Goto, UploadTypeOK, RequestsOK,
       RowOfReceiver, ReceiverAlone, Receives, Receiving, InTransaction, Rows, PutStep
  <2>7. NamesOfReceiver'
    BY <1>10, UploadFacts DEF CheckClientDigest, Goto, UploadTypeOK, RequestsOK,
       NamesOfReceiver, Receives, Receiving, BeforePublish, AfterPublish, Free, PutStep,
       HashMatches, ReceiverAlone
  <2>8. NextReceiver'
    BY <1>10, UploadFacts DEF CheckClientDigest, Goto, UploadTypeOK, RequestsOK,
       NextReceiver, Receives, Receiving, InTransaction, Free, PutStep, Rows
  <2>9. NamesRight' /\ AcknowledgedStays'
    BY <1>10, UploadFacts DEF CheckClientDigest, Goto, UploadTypeOK, RequestsOK,
       NamesRight, AcknowledgedStays, DbAhead, Rows, PutStep
  <2> QED BY <2>1, <2>2, <2>3, <2>4, <2>5, <2>6, <2>7, <2>8, <2>9 DEF UploadInv
<1>11. ASSUME NEW r \in Request, SyncDirectory(r) PROVE UploadInv'
  <2>1. UploadTypeOK'
    BY <1>11, UploadFacts DEF SyncDirectory, Goto, UploadTypeOK, RequestsOK, Rows,
       UploadFileState, UploadSessionState, Step, Receiving, InTransaction, PutStep,
       SessionStep, NamesOfReceiver, Receives
  <2>2. RequestsOK' /\ StoppedIsIdle'
    BY <1>11, UploadFacts DEF SyncDirectory, Goto, UploadTypeOK, RequestsOK,
       StoppedIsIdle, PutStep, SessionStep, Receiving, Step, NoRequest
  <2>3. DbAhead'
    BY <1>11, UploadFacts DEF SyncDirectory, Goto, UploadTypeOK, RequestsOK, DbAhead,
       Rows, InTransaction
  <2>4. CreatorsAlone'
    BY <1>11, UploadFacts DEF SyncDirectory, Goto, UploadTypeOK, RequestsOK,
       CreatorsAlone, Creating, DbAhead, Rows, InTransaction, SessionStep
  <2>5. RowsRight(db)' /\ RowsRight(committed)'
    BY <1>11, UploadFacts DEF SyncDirectory, Goto, UploadTypeOK, RequestsOK, RowsRight,
       FilesAreRegistered, StoredRows, Stored, Matching, Full, Reopened, Free, Rows, PutStep,
       Receiving
  <2>6. RowOfReceiver' /\ ReceiverAlone'
    BY <1>11, UploadFacts DEF SyncDirectory, Goto, UploadTypeOK, RequestsOK,
       RowOfReceiver, ReceiverAlone, Receives, Receiving, InTransaction, Rows, PutStep
  <2>7. NamesOfReceiver'
    BY <1>11, UploadFacts DEF SyncDirectory, Goto, UploadTypeOK, RequestsOK,
       NamesOfReceiver, Receives, Receiving, BeforePublish, AfterPublish, Free, PutStep,
       HashMatches, ReceiverAlone
  <2>8. NextReceiver'
    BY <1>11, UploadFacts DEF SyncDirectory, Goto, UploadTypeOK, RequestsOK, NextReceiver,
       Receives, Receiving, InTransaction, Free, PutStep, Rows
  <2>9. NamesRight' /\ AcknowledgedStays'
    BY <1>11, UploadFacts DEF SyncDirectory, Goto, UploadTypeOK, RequestsOK, NamesRight,
       AcknowledgedStays, DbAhead, Rows, PutStep
  <2> QED BY <2>1, <2>2, <2>3, <2>4, <2>5, <2>6, <2>7, <2>8, <2>9 DEF UploadInv
<1>12. ASSUME NEW r \in Request, UnlinkMismatch(r) PROVE UploadInv'
  <2>1. UploadTypeOK'
    BY <1>12, UploadFacts DEF UnlinkMismatch, Finish, NoRequest, UploadTypeOK, RequestsOK,
       Rows, UploadFileState, UploadSessionState, Step, Receiving, InTransaction, PutStep,
       SessionStep, NamesOfReceiver, Receives
  <2>2. RequestsOK' /\ StoppedIsIdle'
    BY <1>12, UploadFacts DEF UnlinkMismatch, Finish, NoRequest, UploadTypeOK, RequestsOK,
       StoppedIsIdle, PutStep, SessionStep, Receiving, Step
  <2>3. DbAhead'
    BY <1>12, UploadFacts DEF UnlinkMismatch, Finish, NoRequest, UploadTypeOK, RequestsOK,
       DbAhead, Rows, InTransaction
  <2>4. CreatorsAlone'
    BY <1>12, UploadFacts DEF UnlinkMismatch, Finish, NoRequest, UploadTypeOK, RequestsOK,
       CreatorsAlone, Creating, DbAhead, Rows, InTransaction, SessionStep
  <2>5. RowsRight(db)' /\ RowsRight(committed)'
    BY <1>12, UploadFacts DEF UnlinkMismatch, Finish, NoRequest, UploadTypeOK, RequestsOK,
       RowsRight, FilesAreRegistered, StoredRows, Stored, Matching, Full, Reopened, Free, Rows,
       PutStep, Receiving
  <2>6. RowOfReceiver' /\ ReceiverAlone'
    BY <1>12, UploadFacts DEF UnlinkMismatch, Finish, NoRequest, UploadTypeOK, RequestsOK,
       RowOfReceiver, ReceiverAlone, Receives, Receiving, InTransaction, Rows, PutStep
  <2>7. NamesOfReceiver'
    BY <1>12, UploadFacts DEF UnlinkMismatch, Finish, NoRequest, UploadTypeOK, RequestsOK,
       NamesOfReceiver, Receives, Receiving, BeforePublish, AfterPublish, Free, PutStep,
       HashMatches, ReceiverAlone
  <2>8. NextReceiver'
    BY <1>12, UploadFacts DEF UnlinkMismatch, Finish, NoRequest, UploadTypeOK, RequestsOK,
       NextReceiver, Receives, Receiving, InTransaction, Free, PutStep, Rows
  <2>9. NamesRight' /\ AcknowledgedStays'
    BY <1>12, UploadFacts DEF UnlinkMismatch, Finish, NoRequest, UploadTypeOK, RequestsOK,
       NamesRight, AcknowledgedStays, DbAhead, Rows, PutStep
  <2> QED BY <2>1, <2>2, <2>3, <2>4, <2>5, <2>6, <2>7, <2>8, <2>9 DEF UploadInv
<1>13. ASSUME NEW r \in Request, StatementFails(r) PROVE UploadInv'
  <2>1. UploadTypeOK'
    BY <1>13, UploadFacts DEF StatementFails, Fault, Goto, UploadTypeOK, RequestsOK, Rows,
       UploadFileState, UploadSessionState, Step, Receiving, InTransaction, PutStep,
       SessionStep, NamesOfReceiver, Receives
  <2>2. RequestsOK' /\ StoppedIsIdle'
    <3>1. /\ pc[r] # "idle" /\ pc'[r] = "rollback" /\ req' = req
          /\ (\A q \in Request : q # r => pc'[q] = pc[q])
          /\ UNCHANGED <<server, txn, acked, adopted>>
      BY <1>13, GotoFacts DEF StatementFails, InTransaction
    <3> QED
      BY <3>1, UploadFacts DEF RequestsOK, StoppedIsIdle, PutStep, SessionStep, Receiving
  <2>3. DbAhead'
    BY <1>13, UploadFacts DEF StatementFails, Fault, Goto, UploadTypeOK, RequestsOK,
       DbAhead, Rows, InTransaction
  <2>4. CreatorsAlone'
    BY <1>13, UploadFacts DEF StatementFails, Fault, Goto, UploadTypeOK, RequestsOK,
       CreatorsAlone, Creating, DbAhead, Rows, InTransaction, SessionStep
  <2>5. RowsRight(db)' /\ RowsRight(committed)'
    BY <1>13, UploadFacts DEF StatementFails, Fault, Goto, UploadTypeOK, RequestsOK,
       RowsRight, FilesAreRegistered, StoredRows, Stored, Matching, Full, Reopened, Free, Rows,
       PutStep, Receiving
  <2>6. RowOfReceiver' /\ ReceiverAlone'
    BY <1>13, UploadFacts DEF StatementFails, Fault, Goto, UploadTypeOK, RequestsOK,
       RowOfReceiver, ReceiverAlone, Receives, Receiving, InTransaction, Rows, PutStep
  <2>7. NamesOfReceiver'
    BY <1>13, UploadFacts DEF StatementFails, Fault, Goto, UploadTypeOK, RequestsOK,
       NamesOfReceiver, Receives, Receiving, BeforePublish, AfterPublish, Free, PutStep,
       HashMatches, ReceiverAlone
  <2>8. NextReceiver'
    BY <1>13, UploadFacts DEF StatementFails, Fault, Goto, UploadTypeOK, RequestsOK,
       NextReceiver, Receives, Receiving, InTransaction, Free, PutStep, Rows
  <2>9. NamesRight' /\ AcknowledgedStays'
    BY <1>13, UploadFacts DEF StatementFails, Fault, Goto, UploadTypeOK, RequestsOK,
       NamesRight, AcknowledgedStays, DbAhead, Rows, PutStep
  <2> QED BY <2>1, <2>2, <2>3, <2>4, <2>5, <2>6, <2>7, <2>8, <2>9 DEF UploadInv
<1>14. ASSUME NEW r \in Request, PublishFails(r) PROVE UploadInv'
  <2>1. UploadTypeOK'
    BY <1>14, UploadFacts DEF PublishFails, Fault, Goto, UploadTypeOK, RequestsOK, Rows,
       UploadFileState, UploadSessionState, Step, Receiving, InTransaction, PutStep,
       SessionStep, NamesOfReceiver, Receives
  <2>2. RequestsOK' /\ StoppedIsIdle'
    BY <1>14, UploadFacts DEF PublishFails, Fault, Goto, UploadTypeOK, RequestsOK,
       StoppedIsIdle, PutStep, SessionStep, Receiving, Step, NoRequest
  <2>3. DbAhead'
    BY <1>14, UploadFacts DEF PublishFails, Fault, Goto, UploadTypeOK, RequestsOK,
       DbAhead, Rows, InTransaction
  <2>4. CreatorsAlone'
    BY <1>14, UploadFacts DEF PublishFails, Fault, Goto, UploadTypeOK, RequestsOK,
       CreatorsAlone, Creating, DbAhead, Rows, InTransaction, SessionStep
  <2>5. RowsRight(db)' /\ RowsRight(committed)'
    BY <1>14, UploadFacts DEF PublishFails, Fault, Goto, UploadTypeOK, RequestsOK,
       RowsRight, FilesAreRegistered, StoredRows, Stored, Matching, Full, Reopened, Free, Rows,
       PutStep, Receiving
  <2>6. RowOfReceiver' /\ ReceiverAlone'
    BY <1>14, UploadFacts DEF PublishFails, Fault, Goto, UploadTypeOK, RequestsOK,
       RowOfReceiver, ReceiverAlone, Receives, Receiving, InTransaction, Rows, PutStep
  <2>7. NamesOfReceiver'
    BY <1>14, UploadFacts DEF PublishFails, Fault, Goto, UploadTypeOK, RequestsOK,
       NamesOfReceiver, Receives, Receiving, BeforePublish, AfterPublish, Free, PutStep,
       HashMatches, ReceiverAlone
  <2>8. NextReceiver'
    BY <1>14, UploadFacts DEF PublishFails, Fault, Goto, UploadTypeOK, RequestsOK,
       NextReceiver, Receives, Receiving, InTransaction, Free, PutStep, Rows
  <2>9. NamesRight' /\ AcknowledgedStays'
    BY <1>14, UploadFacts DEF PublishFails, Fault, Goto, UploadTypeOK, RequestsOK,
       NamesRight, AcknowledgedStays, DbAhead, Rows, PutStep
  <2> QED BY <2>1, <2>2, <2>3, <2>4, <2>5, <2>6, <2>7, <2>8, <2>9 DEF UploadInv
<1>15. ASSUME NEW r \in Request, NEW s \in Session, StartCreate(r, s) PROVE UploadInv'
  <2>1. UploadTypeOK'
    BY <1>15, UploadFacts DEF StartCreate, Arrives, UploadTypeOK, RequestsOK, Rows,
       UploadFileState, UploadSessionState, Step, Receiving, InTransaction, PutStep,
       SessionStep, NamesOfReceiver, Receives
  <2>2. RequestsOK' /\ StoppedIsIdle'
    BY <1>15, UploadFacts DEF StartCreate, Arrives, UploadTypeOK, RequestsOK,
       StoppedIsIdle, PutStep, SessionStep, Receiving, Step, NoRequest
  <2>3. DbAhead'
    BY <1>15, UploadFacts DEF StartCreate, Arrives, UploadTypeOK, RequestsOK, DbAhead,
       Rows, InTransaction
  <2>4. CreatorsAlone'
    BY <1>15, UploadFacts DEF StartCreate, Arrives, UploadTypeOK, RequestsOK,
       CreatorsAlone, Creating, DbAhead, Rows, InTransaction, SessionStep
  <2>5. RowsRight(db)' /\ RowsRight(committed)'
    BY <1>15, UploadFacts DEF StartCreate, Arrives, UploadTypeOK, RequestsOK, RowsRight,
       FilesAreRegistered, StoredRows, Stored, Matching, Full, Reopened, Free, Rows, PutStep,
       Receiving
  <2>6. RowOfReceiver' /\ ReceiverAlone'
    BY <1>15, UploadFacts DEF StartCreate, Arrives, UploadTypeOK, RequestsOK,
       RowOfReceiver, ReceiverAlone, Receives, Receiving, InTransaction, Rows, PutStep
  <2>7. NamesOfReceiver'
    BY <1>15, UploadFacts DEF StartCreate, Arrives, UploadTypeOK, RequestsOK,
       NamesOfReceiver, Receives, Receiving, BeforePublish, AfterPublish, Free, PutStep,
       HashMatches, ReceiverAlone
  <2>8. NextReceiver'
    BY <1>15, UploadFacts DEF StartCreate, Arrives, UploadTypeOK, RequestsOK,
       NextReceiver, Receives, Receiving, InTransaction, Free, PutStep, Rows
  <2>9. NamesRight' /\ AcknowledgedStays'
    BY <1>15, UploadFacts DEF StartCreate, Arrives, UploadTypeOK, RequestsOK, NamesRight,
       AcknowledgedStays, DbAhead, Rows, PutStep
  <2> QED BY <2>1, <2>2, <2>3, <2>4, <2>5, <2>6, <2>7, <2>8, <2>9 DEF UploadInv
<1>16. ASSUME NEW r \in Request, NEW s \in Session, StartComplete(r, s) PROVE UploadInv'
  <2>1. UploadTypeOK'
    BY <1>16, UploadFacts DEF StartComplete, Arrives, UploadTypeOK, RequestsOK, Rows,
       UploadFileState, UploadSessionState, Step, Receiving, InTransaction, PutStep,
       SessionStep, NamesOfReceiver, Receives
  <2>2. RequestsOK' /\ StoppedIsIdle'
    BY <1>16, UploadFacts DEF StartComplete, Arrives, UploadTypeOK, RequestsOK,
       StoppedIsIdle, PutStep, SessionStep, Receiving, Step, NoRequest
  <2>3. DbAhead'
    BY <1>16, UploadFacts DEF StartComplete, Arrives, UploadTypeOK, RequestsOK, DbAhead,
       Rows, InTransaction
  <2>4. CreatorsAlone'
    BY <1>16, UploadFacts DEF StartComplete, Arrives, UploadTypeOK, RequestsOK,
       CreatorsAlone, Creating, DbAhead, Rows, InTransaction, SessionStep
  <2>5. RowsRight(db)' /\ RowsRight(committed)'
    BY <1>16, UploadFacts DEF StartComplete, Arrives, UploadTypeOK, RequestsOK, RowsRight,
       FilesAreRegistered, StoredRows, Stored, Matching, Full, Reopened, Free, Rows, PutStep,
       Receiving
  <2>6. RowOfReceiver' /\ ReceiverAlone'
    BY <1>16, UploadFacts DEF StartComplete, Arrives, UploadTypeOK, RequestsOK,
       RowOfReceiver, ReceiverAlone, Receives, Receiving, InTransaction, Rows, PutStep
  <2>7. NamesOfReceiver'
    BY <1>16, UploadFacts DEF StartComplete, Arrives, UploadTypeOK, RequestsOK,
       NamesOfReceiver, Receives, Receiving, BeforePublish, AfterPublish, Free, PutStep,
       HashMatches, ReceiverAlone
  <2>8. NextReceiver'
    BY <1>16, UploadFacts DEF StartComplete, Arrives, UploadTypeOK, RequestsOK,
       NextReceiver, Receives, Receiving, InTransaction, Free, PutStep, Rows
  <2>9. NamesRight' /\ AcknowledgedStays'
    BY <1>16, UploadFacts DEF StartComplete, Arrives, UploadTypeOK, RequestsOK,
       NamesRight, AcknowledgedStays, DbAhead, Rows, PutStep
  <2> QED BY <2>1, <2>2, <2>3, <2>4, <2>5, <2>6, <2>7, <2>8, <2>9 DEF UploadInv
<1>17. ASSUME NEW r \in Request, NEW f \in File, NEW b \in Body, StartPut(r, f, b) PROVE UploadInv'
  <2>1. UploadTypeOK'
    BY <1>17, UploadFacts DEF StartPut, Arrives, UploadTypeOK, RequestsOK, Rows,
       UploadFileState, UploadSessionState, Step, Receiving, InTransaction, PutStep,
       SessionStep, NamesOfReceiver, Receives
  <2>2. RequestsOK' /\ StoppedIsIdle'
    <3>1. /\ server = "serving" /\ pc[r] = "idle" /\ pc' = [pc EXCEPT ![r] = "putBegin"]
          /\ req' = [req EXCEPT ![r] = [@ EXCEPT !.file = f, !.body = b]]
          /\ UNCHANGED <<server, txn, acked, adopted>>
      BY <1>17, UploadFacts DEF StartPut, Arrives, RequestsOK
    <3>2. [req[r] EXCEPT !.file = f, !.body = b] \in
              [file : File, body : Body, session : Session \cup {NoOne}]
      <4>1. req[r] \in [file : File \cup {NoOne}, body : Body \cup {NoOne},
                        session : Session \cup {NoOne}]
        BY <1>17, UploadFacts DEF RequestsOK
      <4>2. PICK was \in [file : File \cup {NoOne}, body : Body \cup {NoOne},
                          session : Session \cup {NoOne}] : was = req[r]
        BY <4>1
      <4>3. [was EXCEPT !.file = f] \in
                [file : File, body : Body \cup {NoOne}, session : Session \cup {NoOne}]
        BY <1>17
      <4>4. PICK half \in [file : File, body : Body \cup {NoOne}, session : Session \cup {NoOne}] :
                half = [was EXCEPT !.file = f]
        BY <4>3
      <4>5. [half EXCEPT !.body = b] \in
                [file : File, body : Body, session : Session \cup {NoOne}]
        BY <1>17
      <4> QED BY <4>2, <4>4, <4>5
    <3>3. /\ pc'[r] = "putBegin" /\ req'[r].file = f /\ req'[r].body = b
          /\ (\A q \in Request : q # r => pc'[q] = pc[q] /\ req'[q] = req[q])
      BY <3>1, <3>2, UploadFacts DEF RequestsOK, UploadTypeOK
    <3>4. req' \in [Request -> [file : File \cup {NoOne}, body : Body \cup {NoOne},
                                session : Session \cup {NoOne}]]
      BY <3>1, <3>2, UploadFacts DEF RequestsOK
    <3> QED
      BY <1>17, <3>1, <3>3, <3>4, UploadFacts
      DEF RequestsOK, StoppedIsIdle, PutStep, SessionStep, Receiving
  <2>3. DbAhead'
    BY <1>17, UploadFacts DEF StartPut, Arrives, UploadTypeOK, RequestsOK, DbAhead, Rows,
       InTransaction
  <2>4. CreatorsAlone'
    BY <1>17, UploadFacts DEF StartPut, Arrives, UploadTypeOK, RequestsOK, CreatorsAlone,
       Creating, DbAhead, Rows, InTransaction, SessionStep
  <2>5. RowsRight(db)' /\ RowsRight(committed)'
    BY <1>17, UploadFacts DEF StartPut, Arrives, UploadTypeOK, RequestsOK, RowsRight,
       FilesAreRegistered, StoredRows, Stored, Matching, Full, Reopened, Free, Rows, PutStep,
       Receiving
  <2>6. RowOfReceiver' /\ ReceiverAlone'
    <3>1. /\ pc'[r] = "putBegin" /\ UNCHANGED rows
          /\ \A q \in Request : q # r => pc'[q] = pc[q] /\ req'[q] = req[q]
      BY <1>17, UploadFacts DEF StartPut, UploadTypeOK, RequestsOK
    <3>2. \A q \in Request, g \in File :
              Receives(q, g)' => Receives(q, g) /\ pc'[q] = pc[q] /\ req'[q] = req[q]
      BY <3>1 DEF Receives, Receiving
    <3> QED BY <3>1, <3>2, UploadFacts DEF rows, RowOfReceiver, ReceiverAlone
  <2>7. NamesOfReceiver'
    BY <1>17, UploadFacts DEF StartPut, Arrives, UploadTypeOK, RequestsOK,
       NamesOfReceiver, Receives, Receiving, BeforePublish, AfterPublish, Free, PutStep,
       HashMatches, ReceiverAlone
  <2>8. NextReceiver'
    BY <1>17, UploadFacts DEF StartPut, Arrives, UploadTypeOK, RequestsOK, NextReceiver,
       Receives, Receiving, InTransaction, Free, PutStep, Rows
  <2>9. NamesRight' /\ AcknowledgedStays'
    BY <1>17, UploadFacts DEF StartPut, Arrives, UploadTypeOK, RequestsOK, NamesRight,
       AcknowledgedStays, DbAhead, Rows, PutStep
  <2> QED BY <2>1, <2>2, <2>3, <2>4, <2>5, <2>6, <2>7, <2>8, <2>9 DEF UploadInv
<1>18. CASE Kill
  <2>1. UploadTypeOK'
    BY <1>18, UploadFacts DEF Kill, Fault, Stopped, NoRequest, UploadTypeOK, RequestsOK,
       Rows, UploadFileState, UploadSessionState, Step, Receiving, InTransaction, PutStep,
       SessionStep, NamesOfReceiver, Receives
  <2>2. RequestsOK' /\ StoppedIsIdle'
    BY <1>18, UploadFacts DEF Kill, Fault, Stopped, NoRequest, UploadTypeOK, RequestsOK,
       StoppedIsIdle, PutStep, SessionStep, Receiving, Step
  <2>3. DbAhead'
    BY <1>18, UploadFacts DEF Kill, Fault, Stopped, NoRequest, UploadTypeOK, RequestsOK,
       DbAhead, Rows, InTransaction
  <2>4. CreatorsAlone'
    BY <1>18, UploadFacts DEF Kill, Fault, Stopped, NoRequest, UploadTypeOK, RequestsOK,
       CreatorsAlone, Creating, DbAhead, Rows, InTransaction, SessionStep
  <2>5. RowsRight(db)' /\ RowsRight(committed)'
    BY <1>18, UploadFacts DEF Kill, Fault, Stopped, NoRequest, UploadTypeOK, RequestsOK,
       RowsRight, FilesAreRegistered, StoredRows, Stored, Matching, Full, Reopened, Free, Rows,
       PutStep, Receiving
  <2>6. RowOfReceiver' /\ ReceiverAlone'
    BY <1>18, UploadFacts DEF Kill, Fault, Stopped, NoRequest, UploadTypeOK, RequestsOK,
       RowOfReceiver, ReceiverAlone, Receives, Receiving, InTransaction, Rows, PutStep
  <2>7. NamesOfReceiver'
    BY <1>18, UploadFacts DEF Kill, Fault, Stopped, NoRequest, UploadTypeOK, RequestsOK,
       NamesOfReceiver, Receives, Receiving, BeforePublish, AfterPublish, Free, PutStep,
       HashMatches, ReceiverAlone
  <2>8. NextReceiver'
    BY <1>18, UploadFacts DEF Kill, Fault, Stopped, NoRequest, UploadTypeOK, RequestsOK,
       NextReceiver, Receives, Receiving, InTransaction, Free, PutStep, Rows
  <2>9. NamesRight' /\ AcknowledgedStays'
    BY <1>18, UploadFacts DEF Kill, Fault, Stopped, NoRequest, UploadTypeOK, RequestsOK,
       NamesRight, AcknowledgedStays, DbAhead, Rows, PutStep
  <2> QED BY <2>1, <2>2, <2>3, <2>4, <2>5, <2>6, <2>7, <2>8, <2>9 DEF UploadInv
<1>19. CASE PowerLoss
  <2>1. UploadTypeOK'
    <3>1. PICK taken \in SUBSET (Registered(committed) \ settled),
               takenTemp \in SUBSET (Registered(committed) \ settled),
               undone \in SUBSET {f \in File : final[f] # Absent /\ f \notin synced} :
              /\ noDir' = noDir \cup taken /\ noTempDir' = noTempDir \cup takenTemp
              /\ temp' = [f \in File |->
                             IF SessionOf[f] \in takenTemp THEN Absent
                             ELSE IF f \in undone THEN final[f] ELSE temp[f]]
              /\ final' = [f \in File |->
                             IF SessionOf[f] \in taken \/ f \in undone THEN Absent
                             ELSE final[f]]
              /\ synced' = {f \in File : final'[f] # Absent}
      BY <1>19 DEF PowerLoss
    <3>2. /\ temp' \in [File -> Body \cup {Absent, Partial}]
          /\ final' \in [File -> Body \cup {Absent}]
      BY <3>1, UploadFacts DEF UploadTypeOK
    <3>3. settled' = settled \cup Registered(committed) /\ Registered(committed) \subseteq Session
      BY <1>19 DEF PowerLoss, Registered
    <3>4. noDir' \subseteq settled' /\ noTempDir' \subseteq settled' /\ settled' \subseteq Session
      BY <3>1, <3>3, UploadFacts DEF UploadTypeOK
    <3>5. /\ server' = "down" /\ db' = committed /\ committed' = committed /\ txn' = NoOne
          /\ pc' = [r \in Request |-> "idle"] /\ faults' \in 0 .. MaxFaults
      BY <1>19, UploadFacts DEF PowerLoss, Stopped, Fault, UploadTypeOK
    <3>6. \A r \in Request : txn' = r <=> pc'[r] \in InTransaction
      BY <3>5 DEF InTransaction
    <3> QED BY <3>1, <3>2, <3>4, <3>5, <3>6, UploadFacts DEF UploadTypeOK, Step
  <2>2. RequestsOK' /\ StoppedIsIdle'
    BY <1>19, UploadFacts DEF PowerLoss, Fault, Stopped, NoRequest, UploadTypeOK,
       RequestsOK, StoppedIsIdle, PutStep, SessionStep, Receiving, Step
  <2>3. DbAhead'
    BY <1>19, UploadFacts DEF PowerLoss, Fault, Stopped, NoRequest, UploadTypeOK,
       RequestsOK, DbAhead, Rows, InTransaction
  <2>4. CreatorsAlone'
    BY <1>19, UploadFacts DEF PowerLoss, Fault, Stopped, NoRequest, UploadTypeOK,
       RequestsOK, CreatorsAlone, Creating, DbAhead, Rows, InTransaction, SessionStep
  <2>5. RowsRight(db)' /\ RowsRight(committed)'
    <3>1. PICK taken \in SUBSET (Registered(committed) \ settled),
               undone \in SUBSET {f \in File : final[f] # Absent /\ f \notin synced} :
              /\ noDir' = noDir \cup taken
              /\ final' = [f \in File |-> IF SessionOf[f] \in taken \/ f \in undone
                                          THEN Absent ELSE final[f]]
              /\ synced' = {f \in File : final'[f] # Absent}
      BY <1>19 DEF PowerLoss
    <3>2. /\ db' = committed /\ committed' = committed /\ powerLost' = TRUE
          /\ UNCHANGED <<adopted, unreadable>>
      BY <1>19 DEF PowerLoss, Stopped
    <3>3. /\ \A f \in File : final'[f] = Absent \/ (final'[f] = final[f] /\ f \in synced')
          /\ \A f \in synced : \/ SessionOf[f] \in noDir'
                               \/ final'[f] = final[f] /\ f \in synced'
          /\ noDir \subseteq noDir'
      BY <3>1, UploadFacts DEF UploadTypeOK, NamesRight
    <3>4. FilesAreRegistered(committed)' /\ Matching(committed)' /\ Full(committed)'
      BY <3>2, UploadFacts DEF RowsRight, FilesAreRegistered, Matching, Full
    <3>5. StoredRows(committed)'
      <4>1. ASSUME NEW f \in File, Stored(f) PROVE Stored(f)'
        BY <3>2, <3>3, <4>1 DEF Stored
      <4> QED BY <3>2, <3>3, <4>1, UploadFacts DEF RowsRight, StoredRows
    <3>6. Reopened(committed)'
      BY <3>2, <3>3, UploadFacts DEF RowsRight, Reopened, Free
    <3>7. RowsRight(committed)'
      BY <3>4, <3>5, <3>6 DEF RowsRight
    <3> QED
      BY <3>2, <3>7 DEF RowsRight, FilesAreRegistered, StoredRows, Stored, Matching,
         Full, Reopened, Free
  <2>6. RowOfReceiver' /\ ReceiverAlone'
    BY <1>19, UploadFacts DEF PowerLoss, Fault, Stopped, NoRequest, UploadTypeOK,
       RequestsOK, RowOfReceiver, ReceiverAlone, Receives, Receiving, InTransaction, Rows,
       PutStep
  <2>7. NamesOfReceiver'
    BY <1>19, UploadFacts DEF PowerLoss, Fault, Stopped, NoRequest, UploadTypeOK,
       RequestsOK, NamesOfReceiver, Receives, Receiving, BeforePublish, AfterPublish,
       Free, PutStep, HashMatches, ReceiverAlone
  <2>8. NextReceiver'
    BY <1>19, UploadFacts DEF PowerLoss, Fault, Stopped, NoRequest, UploadTypeOK,
       RequestsOK, NextReceiver, Receives, Receiving, InTransaction, Free, PutStep, Rows
  <2>9. NamesRight' /\ AcknowledgedStays'
    BY <1>19, UploadFacts DEF PowerLoss, Fault, Stopped, NoRequest, UploadTypeOK,
       RequestsOK, NamesRight, AcknowledgedStays, DbAhead, Rows, PutStep
  <2> QED BY <2>1, <2>2, <2>3, <2>4, <2>5, <2>6, <2>7, <2>8, <2>9 DEF UploadInv
<1>20. CASE Open
  <2>1. UploadTypeOK'
    BY <1>20, UploadFacts DEF Open, UploadTypeOK, RequestsOK, Rows, UploadFileState,
       UploadSessionState, Step, Receiving, InTransaction, PutStep, SessionStep,
       NamesOfReceiver, Receives
  <2>2. RequestsOK' /\ StoppedIsIdle'
    BY <1>20, UploadFacts DEF Open, UploadTypeOK, RequestsOK, StoppedIsIdle, PutStep,
       SessionStep, Receiving, Step, NoRequest
  <2>3. DbAhead'
    BY <1>20, UploadFacts DEF Open, UploadTypeOK, RequestsOK, DbAhead, Rows, InTransaction
  <2>4. CreatorsAlone'
    BY <1>20, UploadFacts DEF Open, UploadTypeOK, RequestsOK, CreatorsAlone, Creating, DbAhead,
       Rows, InTransaction, SessionStep
  <2>5. RowsRight(db)' /\ RowsRight(committed)'
    BY <1>20, UploadFacts DEF Open, UploadTypeOK, RequestsOK, RowsRight,
       FilesAreRegistered, StoredRows, Stored, Matching, Full, Reopened, Free, Rows, PutStep,
       Receiving
  <2>6. RowOfReceiver' /\ ReceiverAlone'
    BY <1>20, UploadFacts DEF Open, UploadTypeOK, RequestsOK, RowOfReceiver,
       ReceiverAlone, Receives, Receiving, InTransaction, Rows, PutStep
  <2>7. NamesOfReceiver'
    BY <1>20, UploadFacts DEF Open, UploadTypeOK, RequestsOK, NamesOfReceiver, Receives,
       Receiving, BeforePublish, AfterPublish, Free, PutStep, HashMatches, ReceiverAlone
  <2>8. NextReceiver'
    BY <1>20, UploadFacts DEF Open, UploadTypeOK, RequestsOK, NextReceiver, Receives,
       Receiving, InTransaction, Free, PutStep, Rows
  <2>9. NamesRight' /\ AcknowledgedStays'
    BY <1>20, UploadFacts DEF Open, UploadTypeOK, RequestsOK, NamesRight,
       AcknowledgedStays, DbAhead, Rows, PutStep
  <2> QED BY <2>1, <2>2, <2>3, <2>4, <2>5, <2>6, <2>7, <2>8, <2>9 DEF UploadInv
<1>21. CASE Listen
  <2>1. UploadTypeOK'
    BY <1>21, UploadFacts DEF Listen, UploadTypeOK, RequestsOK, Rows, UploadFileState,
       UploadSessionState, Step, Receiving, InTransaction, PutStep, SessionStep,
       NamesOfReceiver, Receives
  <2>2. RequestsOK' /\ StoppedIsIdle'
    BY <1>21, UploadFacts DEF Listen, UploadTypeOK, RequestsOK, StoppedIsIdle, PutStep,
       SessionStep, Receiving, Step, NoRequest
  <2>3. DbAhead'
    BY <1>21, UploadFacts DEF Listen, UploadTypeOK, RequestsOK, DbAhead, Rows,
       InTransaction
  <2>4. CreatorsAlone'
    BY <1>21, UploadFacts DEF Listen, UploadTypeOK, RequestsOK, CreatorsAlone, Creating,
       DbAhead, Rows, InTransaction, SessionStep
  <2>5. RowsRight(db)' /\ RowsRight(committed)'
    BY <1>21, UploadFacts DEF Listen, UploadTypeOK, RequestsOK, RowsRight,
       FilesAreRegistered, StoredRows, Stored, Matching, Full, Reopened, Free, Rows, PutStep,
       Receiving
  <2>6. RowOfReceiver' /\ ReceiverAlone'
    BY <1>21, UploadFacts DEF Listen, UploadTypeOK, RequestsOK, RowOfReceiver,
       ReceiverAlone, Receives, Receiving, InTransaction, Rows, PutStep
  <2>7. NamesOfReceiver'
    BY <1>21, UploadFacts DEF Listen, UploadTypeOK, RequestsOK, NamesOfReceiver, Receives,
       Receiving, BeforePublish, AfterPublish, Free, PutStep, HashMatches, ReceiverAlone
  <2>8. NextReceiver'
    BY <1>21, UploadFacts DEF Listen, UploadTypeOK, RequestsOK, NextReceiver, Receives,
       Receiving, InTransaction, Free, PutStep, Rows
  <2>9. NamesRight' /\ AcknowledgedStays'
    BY <1>21, UploadFacts DEF Listen, UploadTypeOK, RequestsOK, NamesRight,
       AcknowledgedStays, DbAhead, Rows, PutStep
  <2> QED BY <2>1, <2>2, <2>3, <2>4, <2>5, <2>6, <2>7, <2>8, <2>9 DEF UploadInv
<1>22. ASSUME NEW r \in Request,
             CreateBegin(r) \/ CompleteBegin(r) \/ PutBegin(r) \/ CommitBegin(r)
      PROVE  UploadInv'
  BY <1>22, BeginKeeps DEF CreateBegin, CompleteBegin, PutBegin, CommitBegin
<1>23. ASSUME NEW r \in Request,
             CreateInsert(r) \/ PutUpdate(r) \/ PutCommit(r) \/ CommitUpdate(r)
             \/ PublishNoReplace(r)
      PROVE  UploadInv'
  BY <1>23, CreateInsertKeeps, PutUpdateKeeps, PutCommitKeeps, CommitUpdateKeeps, PublishKeeps
<1>24. ASSUME NEW r \in Request, HandlerMarksFailed(r) \/ MarkMismatch(r) \/ MarkFails(r)
      PROVE  UploadInv'
  <2>1. /\ pc[r] \in {"mark422", "markFailed"} /\ req[r].file \in File
        /\ faults' \in 0 .. MaxFaults
    BY <1>24, UploadFacts DEF HandlerMarksFailed, MarkMismatch, MarkFails, Fault, RequestsOK,
       UploadTypeOK, PutStep, Receiving
  <2> QED BY <1>24, <2>1, MarkKeeps DEF HandlerMarksFailed, MarkMismatch, MarkFails
<1>25. ASSUME NEW r \in Request, SyncFails(r) PROVE UploadInv'
  <2>1. pc[r] \notin InTransaction /\ faults' \in 0 .. MaxFaults
    BY <1>25, UploadFacts DEF SyncFails, Fault, UploadTypeOK, InTransaction
  <2> QED BY <1>25, <2>1, FinishKeeps DEF SyncFails
<1>26. ASSUME NEW f \in File, RecoverUpload(f) \/ RecoverUnreadable(f) PROVE UploadInv'
  BY <1>26, RecoverKeeps
<1>27. CASE UNCHANGED uploadVars
  <2>1. UploadTypeOK'
    BY <1>27, UploadFacts DEF uploadVars, UploadTypeOK, RequestsOK, Rows, UploadFileState,
       UploadSessionState, Step, Receiving, InTransaction, PutStep, SessionStep,
       NamesOfReceiver, Receives
  <2>2. RequestsOK' /\ StoppedIsIdle'
    BY <1>27, UploadFacts DEF uploadVars, UploadTypeOK, RequestsOK, StoppedIsIdle,
       PutStep, SessionStep, Receiving, Step, NoRequest
  <2>3. DbAhead'
    BY <1>27, UploadFacts DEF uploadVars, UploadTypeOK, RequestsOK, DbAhead, Rows,
       InTransaction
  <2>4. CreatorsAlone'
    BY <1>27, UploadFacts DEF uploadVars, UploadTypeOK, RequestsOK, CreatorsAlone, Creating,
       DbAhead, Rows, InTransaction, SessionStep
  <2>5. RowsRight(db)' /\ RowsRight(committed)'
    BY <1>27, UploadFacts DEF uploadVars, UploadTypeOK, RequestsOK, RowsRight,
       FilesAreRegistered, StoredRows, Stored, Matching, Full, Reopened, Free, Rows, PutStep,
       Receiving
  <2>6. RowOfReceiver' /\ ReceiverAlone'
    BY <1>27, UploadFacts DEF uploadVars, UploadTypeOK, RequestsOK, RowOfReceiver,
       ReceiverAlone, Receives, Receiving, InTransaction, Rows, PutStep
  <2>7. NamesOfReceiver'
    BY <1>27, UploadFacts DEF uploadVars, UploadTypeOK, RequestsOK, NamesOfReceiver,
       Receives, Receiving, BeforePublish, AfterPublish, Free, PutStep, HashMatches,
       ReceiverAlone
  <2>8. NextReceiver'
    BY <1>27, UploadFacts DEF uploadVars, UploadTypeOK, RequestsOK, NextReceiver,
       Receives, Receiving, InTransaction, Free, PutStep, Rows
  <2>9. NamesRight' /\ AcknowledgedStays'
    BY <1>27, UploadFacts DEF uploadVars, UploadTypeOK, RequestsOK, NamesRight,
       AcknowledgedStays, DbAhead, Rows, PutStep
  <2> QED BY <2>1, <2>2, <2>3, <2>4, <2>5, <2>6, <2>7, <2>8, <2>9 DEF UploadInv
<1>28. ASSUME NEW r \in Request, CreateCheck(r) PROVE UploadInv'
  <2>1. UploadTypeOK'
    BY <1>28, UploadFacts DEF CreateCheck, Goto, UploadTypeOK, RequestsOK,
       Rows, UploadFileState, UploadSessionState, Step, Receiving, InTransaction, PutStep,
       SessionStep, NamesOfReceiver, Receives
  <2>2. RequestsOK' /\ StoppedIsIdle'
    BY <1>28, UploadFacts DEF CreateCheck, Goto, UploadTypeOK, RequestsOK,
       StoppedIsIdle, PutStep, SessionStep, Receiving, Step, NoRequest
  <2>3. DbAhead'
    BY <1>28, UploadFacts DEF CreateCheck, Goto, UploadTypeOK, RequestsOK,
       DbAhead, Rows, InTransaction
  <2>4. CreatorsAlone'
    BY <1>28, UploadFacts DEF CreateCheck, Goto, UploadTypeOK, RequestsOK,
       CreatorsAlone, Creating, DbAhead, Rows, InTransaction, SessionStep
  <2>5. RowsRight(db)' /\ RowsRight(committed)'
    BY <1>28, UploadFacts DEF CreateCheck, Goto, UploadTypeOK, RequestsOK,
       RowsRight, FilesAreRegistered, StoredRows, Stored, Matching, Full, Reopened, Free, Rows,
       PutStep, Receiving
  <2>6. RowOfReceiver' /\ ReceiverAlone'
    BY <1>28, UploadFacts DEF CreateCheck, Goto, UploadTypeOK, RequestsOK,
       RowOfReceiver, ReceiverAlone, Receives, Receiving, InTransaction, Rows, PutStep
  <2>7. NamesOfReceiver'
    BY <1>28, UploadFacts DEF CreateCheck, Goto, UploadTypeOK, RequestsOK,
       NamesOfReceiver, Receives, Receiving, BeforePublish, AfterPublish, Free, PutStep,
       HashMatches, ReceiverAlone
  <2>8. NextReceiver'
    BY <1>28, UploadFacts DEF CreateCheck, Goto, UploadTypeOK, RequestsOK,
       NextReceiver, Receives, Receiving, InTransaction, Free, PutStep, Rows
  <2>9. NamesRight' /\ AcknowledgedStays'
    BY <1>28, UploadFacts DEF CreateCheck, Goto, UploadTypeOK, RequestsOK,
       NamesRight, AcknowledgedStays, DbAhead, Rows, PutStep
  <2> QED BY <2>1, <2>2, <2>3, <2>4, <2>5, <2>6, <2>7, <2>8, <2>9 DEF UploadInv
<1>29. ASSUME NEW f \in File, GetSession(f) PROVE UploadInv'
  <2>1. UploadTypeOK'
    BY <1>29, UploadFacts DEF GetSession, UploadTypeOK, RequestsOK,
       Rows, UploadFileState, UploadSessionState, Step, Receiving, InTransaction, PutStep,
       SessionStep, NamesOfReceiver, Receives
  <2>2. RequestsOK' /\ StoppedIsIdle'
    BY <1>29, UploadFacts DEF GetSession, UploadTypeOK, RequestsOK,
       StoppedIsIdle, PutStep, SessionStep, Receiving, Step, NoRequest
  <2>3. DbAhead'
    BY <1>29, UploadFacts DEF GetSession, UploadTypeOK, RequestsOK,
       DbAhead, Rows, InTransaction
  <2>4. CreatorsAlone'
    BY <1>29, UploadFacts DEF GetSession, UploadTypeOK, RequestsOK,
       CreatorsAlone, Creating, DbAhead, Rows, InTransaction, SessionStep
  <2>5. RowsRight(db)' /\ RowsRight(committed)'
    BY <1>29, UploadFacts DEF GetSession, UploadTypeOK, RequestsOK,
       RowsRight, FilesAreRegistered, StoredRows, Stored, Matching, Full, Reopened, Free, Rows,
       PutStep, Receiving
  <2>6. RowOfReceiver' /\ ReceiverAlone'
    BY <1>29, UploadFacts DEF GetSession, UploadTypeOK, RequestsOK,
       RowOfReceiver, ReceiverAlone, Receives, Receiving, InTransaction, Rows, PutStep
  <2>7. NamesOfReceiver'
    BY <1>29, UploadFacts DEF GetSession, UploadTypeOK, RequestsOK,
       NamesOfReceiver, Receives, Receiving, BeforePublish, AfterPublish, Free, PutStep,
       HashMatches, ReceiverAlone
  <2>8. NextReceiver'
    BY <1>29, UploadFacts DEF GetSession, UploadTypeOK, RequestsOK,
       NextReceiver, Receives, Receiving, InTransaction, Free, PutStep, Rows
  <2>9. NamesRight' /\ AcknowledgedStays'
    BY <1>29, UploadFacts DEF GetSession, UploadTypeOK, RequestsOK,
       NamesRight, AcknowledgedStays, DbAhead, Rows, PutStep
  <2> QED BY <2>1, <2>2, <2>3, <2>4, <2>5, <2>6, <2>7, <2>8, <2>9 DEF UploadInv
<1> QED
  BY <1>1, <1>2, <1>3, <1>4, <1>5, <1>6, <1>7, <1>8, <1>9, <1>10, <1>11, <1>12, <1>13,
     <1>14, <1>15, <1>16, <1>17, <1>18, <1>19, <1>20, <1>21, <1>22, <1>23, <1>24, <1>25,
     <1>26, <1>27, <1>28, <1>29
  DEF UploadNext, Handler

---------------------------------------------------------------------------
(* The theorems.                                                           *)

\* The rows, the requests, the names on disk and the answers given agree, in every state
\* of the receiver.
THEOREM UploadInvariant == UploadSpec => []UploadInv
<1>1. UploadInit => UploadInv
  BY UploadInvInit
<1>2. UploadInv /\ [UploadNext]_uploadVars => UploadInv'
  BY UploadInvNext
<1> QED BY <1>1, <1>2, PTL DEF UploadSpec

\* Every variable keeps its type, and a transaction belongs to a thread that is in one.
THEOREM UploadTypeCorrect == UploadSpec => []UploadTypeOK
<1>1. UploadInv => UploadTypeOK
  BY DEF UploadInv
<1> QED BY <1>1, UploadInvariant, PTL

\* One request at a time receives a file (BeginUpload against CommitUpload and
\* MarkUploadFailed on the shared connection), and its row says RECEIVING meanwhile.
THEOREM OneReceiverSafe == UploadSpec => []OneReceiver
<1>1. UploadInv => OneReceiver
  BY DEF UploadInv, OneReceiver, RowOfReceiver, ReceiverAlone
<1> QED BY <1>1, UploadInvariant, PTL

\* A COMPLETE session has all its files, and a file announced with a digest has that one.
THEOREM CompleteIsRightSafe == UploadSpec => []CompleteIsRight
<1>1. UploadInv => CompleteIsRight
  BY DEF UploadInv, CompleteIsRight, HashedIsRight, CompleteIsFull, RowsRight, Matching, Full
<1> QED BY <1>1, UploadInvariant, PTL

\* A file that is PENDING or FAILED has a free final name, unless recovery could not read
\* what is there.
THEOREM RetryIsOpenSafe == UploadSpec => []RetryIsOpen
<1>1. UploadInv => RetryIsOpen
  BY DEF UploadInv, RetryIsOpen, RowsRight, Reopened, Free
<1> QED BY <1>1, UploadInvariant, PTL

---------------------------------------------------------------------------
(* What a GET has shown.                                                   *)

ShownInv == shown \subseteq File /\ ShownIsStored

\* A file that is stored stays stored, up to what Stored excepts.
LEMMA StoredLasts ==
    ASSUME UploadInv, [UploadNext]_uploadVars, NEW f \in File, Stored(f)
    PROVE  Stored(f)'
<1> USE UploadAssumption DEF rows, handlers, names, history, dirs
<1> DEFINE Lasts == /\ noDir' = noDir /\ powerLost' = powerLost /\ adopted \subseteq adopted'
                    /\ synced \subseteq synced' /\ (final[f] # Absent => final'[f] = final[f])
<1>1. ASSUME Lasts PROVE Stored(f)'
  BY <1>1 DEF Stored
<1>2. ASSUME NEW r \in Request, Handler(r) PROVE Lasts
  <2>1. CASE CreateBegin(r) \/ CompleteBegin(r) \/ PutBegin(r) \/ CommitBegin(r)
    BY <2>1 DEF CreateBegin, CompleteBegin, PutBegin, CommitBegin, Begin
  <2>2. CASE CreateCheck(r) \/ CreateInsert(r) \/ CreateCommit(r) \/ CompleteSelect(r)
             \/ CompleteCommit(r) \/ PutSelect(r) \/ PutUpdate(r) \/ PutCommit(r)
    BY <2>2 DEF CreateCheck, CreateInsert, CreateCommit, CompleteSelect, CompleteCommit,
       PutSelect, PutUpdate, PutCommit
  <2>3. CASE CreateTempFile(r) \/ ReceiveBody(r) \/ ReceiveBodyFails(r)
             \/ CheckClientDigest(r) \/ MarkMismatch(r) \/ UnlinkMismatch(r)
             \/ SyncDirectory(r) \/ CommitUpdate(r) \/ CommitCommit(r)
             \/ HandlerMarksFailed(r) \/ Rollback(r)
    BY <2>3 DEF CreateTempFile, ReceiveBody, ReceiveBodyFails, CheckClientDigest,
       MarkMismatch, UnlinkMismatch, SyncDirectory, CommitUpdate, CommitCommit,
       HandlerMarksFailed, Rollback
  <2>4. CASE PublishNoReplace(r)
    <3>1. PICK g : g = req[r].file
      OBVIOUS
    <3>2. \/ final[g] = Absent /\ final' = [final EXCEPT ![g] = temp[g]]
          \/ final' = final
      BY <2>4, <3>1 DEF PublishNoReplace
    <3>3. final[f] # Absent => final'[f] = final[f]
      BY <3>2, UploadFacts DEF UploadTypeOK
    <3> QED BY <2>4, <3>3 DEF PublishNoReplace
  <2> QED BY <1>2, <2>1, <2>2, <2>3, <2>4 DEF Handler
<1>3. ASSUME NEW r \in Request,
             StatementFails(r) \/ PublishFails(r) \/ MarkFails(r) \/ SyncFails(r)
      PROVE  Lasts
  BY <1>3 DEF StatementFails, PublishFails, MarkFails, SyncFails
<1>4. ASSUME NEW r \in Request, NEW s \in Session, StartCreate(r, s) \/ StartComplete(r, s)
      PROVE  Lasts
  BY <1>4 DEF StartCreate, StartComplete
<1>5. ASSUME NEW r \in Request, NEW g \in File, NEW b \in Body, StartPut(r, g, b) PROVE Lasts
  BY <1>5 DEF StartPut
<1>6. ASSUME NEW g \in File, GetSession(g) \/ RecoverUpload(g) \/ RecoverUnreadable(g)
      PROVE  Lasts
  BY <1>6 DEF GetSession, RecoverUpload, RecoverUnreadable
<1>7. CASE Kill \/ Open \/ Listen \/ UNCHANGED uploadVars
  <2>1. Lasts
    BY <1>7 DEF Kill, Open, Listen, uploadVars
  <2> QED BY <1>1, <2>1
<1>8. CASE PowerLoss
  <2>1. PICK taken \in SUBSET (Registered(committed) \ settled),
             undone \in SUBSET {g \in File : final[g] # Absent /\ g \notin synced} :
            /\ noDir' = noDir \cup taken
            /\ final' = [g \in File |-> IF SessionOf[g] \in taken \/ g \in undone
                                        THEN Absent ELSE final[g]]
            /\ synced' = {g \in File : final'[g] # Absent}
    BY <1>8 DEF PowerLoss
  <2>2. powerLost' = TRUE /\ adopted' = adopted
    BY <1>8 DEF PowerLoss
  <2>3. CASE f \in synced /\ final[f] # Absent /\ SessionOf[f] \notin taken
    <3>1. f \notin undone
      BY <2>3
    <3>2. final'[f] = final[f] /\ f \in synced'
      BY <2>1, <2>3, <3>1
    <3> QED BY <2>3, <3>2 DEF Stored
  <2>4. CASE SessionOf[f] \in taken \/ SessionOf[f] \in noDir
    BY <2>1, <2>4 DEF Stored
  <2>5. CASE f \in adopted
    BY <2>2, <2>5 DEF Stored
  <2> QED BY <2>3, <2>4, <2>5 DEF Stored
<1> HIDE DEF Lasts
<1> QED BY <1>1, <1>2, <1>3, <1>4, <1>5, <1>6, <1>7, <1>8 DEF UploadNext

\* GetSession shows only what is stored: a row says RECEIVED, committed or not, only when
\* the name has been synced or adopted.
LEMMA ShownStep == UploadInv /\ ShownInv /\ [UploadNext]_uploadVars => ShownInv'
<1> SUFFICES ASSUME UploadInv, ShownInv, [UploadNext]_uploadVars PROVE ShownInv'
  OBVIOUS
<1>1. \A f \in shown : f \in File /\ Stored(f)'
  BY StoredLasts DEF ShownInv, ShownIsStored
<1>2. ASSUME shown' = shown PROVE ShownInv'
  BY <1>1, <1>2 DEF ShownInv, ShownIsStored
<1>3. ASSUME NEW f \in File, GetSession(f) PROVE ShownInv'
  <2>1. Stored(f)
    BY <1>3, UploadFacts DEF GetSession, RowsRight, StoredRows
  <2>2. Stored(f)'
    BY <2>1, StoredLasts
  <2> QED BY <1>1, <1>3, <2>2 DEF GetSession, ShownInv, ShownIsStored
<1>4. ASSUME ~\E f \in File : GetSession(f) PROVE shown' = shown
  <2> USE DEF history
  <2>1. ASSUME NEW r \in Request, Handler(r) PROVE shown' = shown
    BY <2>1 DEF Handler, CreateBegin, CompleteBegin, PutBegin, CommitBegin, Begin,
       CreateCheck, CreateInsert, CreateCommit, CompleteSelect, CompleteCommit, PutSelect,
       PutUpdate, PutCommit, CreateTempFile, ReceiveBody, ReceiveBodyFails,
       CheckClientDigest, MarkMismatch, UnlinkMismatch, PublishNoReplace, SyncDirectory,
       CommitUpdate, CommitCommit, HandlerMarksFailed, Rollback
  <2>2. ASSUME NEW r \in Request,
               StatementFails(r) \/ PublishFails(r) \/ MarkFails(r) \/ SyncFails(r)
        PROVE  shown' = shown
    BY <2>2 DEF StatementFails, PublishFails, MarkFails, SyncFails
  <2>3. ASSUME NEW r \in Request, NEW s \in Session, StartCreate(r, s) \/ StartComplete(r, s)
        PROVE  shown' = shown
    BY <2>3 DEF StartCreate, StartComplete
  <2>4. ASSUME NEW r \in Request, NEW g \in File, NEW b \in Body, StartPut(r, g, b)
        PROVE  shown' = shown
    BY <2>4 DEF StartPut
  <2>5. ASSUME NEW g \in File, RecoverUpload(g) \/ RecoverUnreadable(g) PROVE shown' = shown
    BY <2>5 DEF RecoverUpload, RecoverUnreadable
  <2>6. CASE Kill \/ PowerLoss \/ Open \/ Listen \/ UNCHANGED uploadVars
    BY <2>6 DEF Kill, PowerLoss, Open, Listen, uploadVars
  <2> QED BY <1>4, <2>1, <2>2, <2>3, <2>4, <2>5, <2>6 DEF UploadNext
<1> QED BY <1>2, <1>3, <1>4

\* What is RECEIVED is stored, what a PUT was told is RECEIVED stays so, and what a GET has
\* shown as RECEIVED is stored, whatever is rolled back, killed, lost or recovered; only
\* where a power loss has taken the session's own directory is a RECEIVED file gone.
THEOREM ReceivedStaysSafe == UploadSpec => []ReceivedStays
<1>1. UploadInit => ShownInv
  BY DEF UploadInit, ShownInv, ShownIsStored
<1>2. UploadInv /\ ShownInv /\ [UploadNext]_uploadVars => ShownInv'
  BY ShownStep
<1>3. UploadInv /\ ShownInv => ReceivedStays
  BY DEF UploadInv, ShownInv, ReceivedStays, ReceivedIsStored, RowsRight, StoredRows
<1> QED BY <1>1, <1>2, <1>3, UploadInvariant, PTL DEF UploadSpec

---------------------------------------------------------------------------
(* The quota.                                                              *)

\* The rows of the connection and the committed rows stay within the quota.  (Both: the
\* next COMMIT makes the ones the others.)
Within(d) == IsFiniteSet(ReservedBytes(d)) /\ Reserved(d) <= MaxReserved
\* A session about to be inserted has been counted, and the count still holds.
Counted == \A r \in Request : pc[r] = "createInsert" => WithinQuota(req[r].session)
QuotaInv == Within(db) /\ Within(committed) /\ Counted

\* Only CreateSession registers a session, and only after it has counted.
SessionsStep ==
    /\ \/ Registered(db') \in {Registered(db), Registered(committed)}
       \/ \E s \in Session : Registered(db') = Registered(db) \cup {s} /\ WithinQuota(s)
    /\ Registered(committed') \in {Registered(committed), Registered(db), Registered(db')}
    /\ Registered(db') \notin {Registered(db), Registered(committed)} =>
           Registered(committed') = Registered(committed)

\* A new session adds its size to what is reserved.
LEMMA ReservedGrows ==
    ASSUME NEW d, NEW e, NEW s \in Session, Registered(e) = Registered(d) \cup {s},
           IsFiniteSet(ReservedBytes(d))
    PROVE  /\ IsFiniteSet(ReservedBytes(e)) /\ Reserved(d) \in Nat
           /\ Reserved(e) \in Nat /\ Reserved(e) <= Reserved(d) + Size[s]
<1> DEFINE new == {s} \X (1 .. Size[s])
<1>1. ReservedBytes(e) = ReservedBytes(d) \cup new
  <2>1. ASSUME NEW c, NEW b PROVE b \in ReservedBytes(c) <=>
                                  \E t \in Registered(c) : b \in {t} \X (1 .. Size[t])
    BY DEF ReservedBytes
  <2>2. ASSUME NEW b PROVE b \in ReservedBytes(e) <=> b \in ReservedBytes(d) \cup new
    BY <2>1
  <2> HIDE DEF new
  <2> QED BY <2>2
<1>2. Size[s] \in Nat
  BY UploadAssumption
<1>3. IsFiniteSet({s}) /\ Cardinality({s}) = 1
  BY FS_Singleton
<1>4. IsFiniteSet(1 .. Size[s]) /\ Cardinality(1 .. Size[s]) = Size[s]
  <2>1. 1 \in Int /\ Size[s] \in Int
    BY <1>2
  <2>2. /\ IsFiniteSet(1 .. Size[s])
        /\ Cardinality(1 .. Size[s]) = IF 1 > Size[s] THEN 0 ELSE Size[s] - 1 + 1
    BY <2>1, FS_Interval, Zenon
  <2> QED BY <1>2, <2>2
<1>5. IsFiniteSet(new) /\ Cardinality(new) = 1 * Size[s]
  <2>1. IsFiniteSet(new) /\ Cardinality(new) = Cardinality({s}) * Cardinality(1 .. Size[s])
    BY <1>3, <1>4, FS_Product, Zenon
  <2> QED BY <2>1, <1>3, <1>4, Zenon
<1>6. Cardinality(ReservedBytes(d)) \in Nat
  BY FS_CardinalityType
<1>7. IsFiniteSet(ReservedBytes(d) \cap new) /\ Cardinality(ReservedBytes(d) \cap new) \in Nat
  BY FS_Intersection, FS_CardinalityType
<1> HIDE DEF new
<1>8. /\ IsFiniteSet(ReservedBytes(d) \cup new)
      /\ Cardinality(ReservedBytes(d) \cup new) =
            Cardinality(ReservedBytes(d)) + Cardinality(new)
              - Cardinality(ReservedBytes(d) \cap new)
  BY <1>5, FS_Union
<1>9. Cardinality(ReservedBytes(d) \cup new) \in Nat
  BY <1>8, FS_CardinalityType
<1> QED BY <1>1, <1>2, <1>5, <1>6, <1>7, <1>8, <1>9 DEF Reserved

\* Rows with the same sessions are within the quota together.
LEMMA SameSessions ==
    ASSUME NEW d, NEW e, Registered(e) = Registered(d), Within(d)
    PROVE  Within(e)
  BY DEF Within, Reserved, ReservedBytes

\* Rows whose session column is the same have the same sessions.
LEMMA SameColumn ==
    ASSUME NEW d, NEW e, \A s \in Session : e.session[s] = "Absent" <=> d.session[s] = "Absent"
    PROVE  Registered(e) = Registered(d)
  BY DEF Registered

\* Every step treats the session column as SessionsStep says.
LEMMA SessionsStepHolds == UploadInv /\ Counted /\ [UploadNext]_uploadVars => SessionsStep
<1> SUFFICES ASSUME UploadInv, Counted, [UploadNext]_uploadVars PROVE SessionsStep
  OBVIOUS
<1>1. /\ db.session \in [Session -> UploadSessionState] /\ db.file \in [File -> UploadFileState]
      /\ DOMAIN db = {"file", "digest", "session"}
      /\ db = [file |-> db.file, digest |-> db.digest, session |-> db.session]
      /\ \A r \in Request : pc[r] \in SessionStep => req[r].session \in Session
      /\ \A r \in Request : pc[r] \in PutStep => req[r].file \in File
  BY UploadFacts DEF UploadTypeOK, Rows, RequestsOK
<1> DEFINE KeepRows == db' = db /\ committed' = committed
           KeepSessions(d) == d.session = db.session
<1>2. ASSUME KeepRows PROVE SessionsStep
  BY <1>2 DEF SessionsStep
<1>3. ASSUME Commit PROVE SessionsStep
  BY <1>3 DEF SessionsStep, Commit
<1>4. ASSUME db' = committed, committed' = committed PROVE SessionsStep
  BY <1>4 DEF SessionsStep
<1>5. ASSUME db'.session = db.session, committed' \in {db', committed} PROVE SessionsStep
  BY <1>5, SameColumn DEF SessionsStep
<1>6. ASSUME NEW f \in File PROVE SetFile(f, "Failed").session = db.session
  BY <1>1 DEF SetFile
<1>7. ASSUME NEW f \in File, MarkUploadFailed(f) PROVE SessionsStep
  BY <1>5, <1>6, <1>7 DEF MarkUploadFailed, Autocommit
<1>8. ASSUME NEW r \in Request, NEW at, NEW next, Begin(r, at, next) PROVE SessionsStep
  BY <1>2, <1>8 DEF Begin
<1>9. ASSUME NEW r \in Request, Handler(r) PROVE SessionsStep
  <2>1. CASE CreateBegin(r) \/ CompleteBegin(r) \/ PutBegin(r) \/ CommitBegin(r)
    BY <2>1, <1>8 DEF CreateBegin, CompleteBegin, PutBegin, CommitBegin
  <2>2. CASE CreateInsert(r)
    <3> DEFINE s == req[r].session
    <3>1. s \in Session /\ WithinQuota(s)
      BY <2>2, <1>1 DEF CreateInsert, SessionStep, Counted
    <3>2. committed' = committed /\ db'.session = [db.session EXCEPT ![s] = "Open"]
      BY <2>2, <1>1 DEF CreateInsert
    <3>3. Registered(db') = Registered(db) \cup {s}
      BY <3>1, <3>2, <1>1 DEF Registered
    <3> QED BY <3>1, <3>2, <3>3 DEF SessionsStep
  <2>3. CASE CreateCommit(r) \/ CompleteCommit(r) \/ PutCommit(r) \/ CommitCommit(r)
    BY <2>3, <1>3 DEF CreateCommit, CompleteCommit, PutCommit, CommitCommit
  <2>4. CASE CompleteSelect(r)
    <3> DEFINE s == req[r].session
    <3>1. CASE db.session[s] = "Open" /\ Incomplete(s) = {}
      <4>1. s \in Session
        BY <2>4, <1>1 DEF CompleteSelect, SessionStep
      <4>2. committed' = committed /\ db'.session = [db.session EXCEPT ![s] = "Complete"]
        BY <2>4, <3>1, <1>1 DEF CompleteSelect
      <4>3. Registered(db') = Registered(db)
        BY <3>1, <4>1, <4>2, <1>1 DEF Registered
      <4> QED BY <4>2, <4>3 DEF SessionsStep
    <3>2. CASE ~(db.session[s] = "Open" /\ Incomplete(s) = {})
      BY <2>4, <3>2, <1>2 DEF CompleteSelect
    <3> QED BY <3>1, <3>2
  <2>5. CASE PutUpdate(r)
    BY <2>5, <1>1, <1>2, <1>5 DEF PutUpdate, SetFile
  <2>6. CASE CommitUpdate(r)
    BY <2>6, <1>1, <1>2, <1>5 DEF CommitUpdate
  <2>7. CASE PutSelect(r) \/ CreateTempFile(r) \/ ReceiveBody(r) \/ ReceiveBodyFails(r)
             \/ CheckClientDigest(r) \/ UnlinkMismatch(r) \/ PublishNoReplace(r)
             \/ SyncDirectory(r) \/ CreateCheck(r)
    BY <2>7, <1>2 DEF CreateCheck, PutSelect, CreateTempFile, ReceiveBody, ReceiveBodyFails,
       CheckClientDigest, UnlinkMismatch, PublishNoReplace, SyncDirectory, rows
  <2>8. CASE MarkMismatch(r) \/ HandlerMarksFailed(r)
    BY <2>8, <1>1, <1>7 DEF MarkMismatch, HandlerMarksFailed, PutStep, Receiving
  <2>9. CASE Rollback(r)
    BY <2>9, <1>4 DEF Rollback
  <2> QED BY <1>9, <2>1, <2>2, <2>3, <2>4, <2>5, <2>6, <2>7, <2>8, <2>9 DEF Handler
<1>10. ASSUME NEW r \in Request,
              StatementFails(r) \/ PublishFails(r) \/ MarkFails(r) \/ SyncFails(r)
       PROVE  SessionsStep
  BY <1>2, <1>10 DEF StatementFails, PublishFails, MarkFails, SyncFails, rows
<1>11. ASSUME NEW r \in Request, NEW s \in Session, StartCreate(r, s) \/ StartComplete(r, s)
       PROVE  SessionsStep
  BY <1>2, <1>11 DEF StartCreate, StartComplete, rows
<1>12. ASSUME NEW r \in Request, NEW f \in File, NEW b \in Body, StartPut(r, f, b)
       PROVE  SessionsStep
  BY <1>2, <1>12 DEF StartPut, rows
<1>13. ASSUME NEW f \in File, RecoverUpload(f) \/ RecoverUnreadable(f) PROVE SessionsStep
  BY <1>1, <1>5, <1>6, <1>13 DEF RecoverUpload, RecoverUnreadable, Autocommit
<1>14. CASE Kill \/ PowerLoss
  BY <1>4, <1>14 DEF Kill, PowerLoss, Stopped
<1>15. CASE Open \/ Listen \/ UNCHANGED uploadVars
  BY <1>2, <1>15 DEF Open, Listen, uploadVars, rows
<1>16. ASSUME NEW f \in File, GetSession(f) PROVE SessionsStep
  BY <1>2, <1>16 DEF GetSession, rows
<1> QED BY <1>9, <1>10, <1>11, <1>12, <1>13, <1>14, <1>15, <1>16 DEF UploadNext

\* Between the count of CreateSession and its INSERTs no other thread adds a session: the
\* count is made inside the transaction.
LEMMA CountedStays == UploadInv /\ Counted /\ [UploadNext]_uploadVars => Counted'
<1> SUFFICES ASSUME UploadInv, Counted, [UploadNext]_uploadVars PROVE Counted'
  OBVIOUS
<1> DEFINE Alone == \A q \in Request : pc'[q] # "createInsert"
           Same == /\ db'.session = db.session
                   /\ \A q \in Request : pc'[q] = "createInsert" =>
                          pc[q] = "createInsert" /\ req'[q] = req[q]
<1>1. ASSUME Alone PROVE Counted'
  BY <1>1 DEF Counted
<1>2. ASSUME db'.session = db.session, NEW s PROVE WithinQuota(s)' <=> WithinQuota(s)
  BY <1>2 DEF WithinQuota, Reserved, ReservedBytes, Registered
<1>3. ASSUME Same PROVE Counted'
  BY <1>2, <1>3 DEF Counted
<1>4. /\ \A r \in Request : pc[r] \in PutStep => req[r].file \in File
      /\ db = [file |-> db.file, digest |-> db.digest, session |-> db.session]
      /\ pc \in [Request -> Step]
  BY UploadFacts DEF UploadTypeOK, Rows, RequestsOK
<1>5. ASSUME NEW f \in File PROVE SetFile(f, "Failed").session = db.session
  BY <1>4 DEF SetFile
<1>6. ASSUME NEW r \in Request, pc[r] \in InTransaction, pc'[r] # "createInsert",
             \A q \in Request : q # r => pc'[q] = pc[q]
      PROVE  Alone
  BY <1>6, UploadFacts DEF UploadTypeOK, InTransaction
<1>7. ASSUME NEW r \in Request, NEW step, Goto(r, step)
      PROVE  pc'[r] = step /\ req' = req /\ \A q \in Request : q # r => pc'[q] = pc[q]
  BY <1>7, GotoFacts
<1>8. ASSUME NEW r \in Request, Finish(r)
      PROVE  pc'[r] = "idle" /\ \A q \in Request : q # r => pc'[q] = pc[q] /\ req'[q] = req[q]
  BY <1>8, FinishFacts
<1>9. ASSUME NEW r \in Request, Handler(r) PROVE Counted'
  <2>1. CASE CreateCheck(r)
    <3>1. pc'[r] = "createInsert" => WithinQuota(req[r].session)
      BY <2>1, <1>7 DEF CreateCheck
    <3>2. /\ req' = req /\ db' = db /\ \A q \in Request : q # r => pc'[q] = pc[q]
      BY <2>1, <1>7 DEF CreateCheck, rows
    <3> QED BY <3>1, <3>2, <1>2 DEF Counted
  <2>2. CASE CreateInsert(r) \/ PutSelect(r) \/ PutUpdate(r) \/ PutCommit(r)
             \/ CompleteSelect(r) \/ CommitUpdate(r)
    BY <2>2, <1>1, <1>6, <1>7 DEF CreateInsert, PutSelect, PutUpdate, PutCommit,
       CompleteSelect, CommitUpdate, InTransaction
  <2>3. CASE CreateCommit(r) \/ CompleteCommit(r) \/ CommitCommit(r) \/ Rollback(r)
    BY <2>3, <1>1, <1>6, <1>8 DEF CreateCommit, CompleteCommit, CommitCommit, Rollback,
       InTransaction
  <2>4. ASSUME NEW at, NEW next, next # "createInsert", Begin(r, at, next) PROVE Counted'
    <3>1. Same
      BY <2>4, <1>7, <1>8 DEF Begin
    <3> QED BY <3>1, <1>3
  <2>5. CASE CreateBegin(r) \/ CompleteBegin(r) \/ PutBegin(r) \/ CommitBegin(r)
    BY <2>5, <2>4 DEF CreateBegin, CompleteBegin, PutBegin, CommitBegin
  <2>6. CASE CreateTempFile(r) \/ ReceiveBody(r) \/ ReceiveBodyFails(r)
             \/ CheckClientDigest(r) \/ PublishNoReplace(r) \/ SyncDirectory(r)
    <3>1. Same
      BY <2>6, <1>7 DEF CreateTempFile, ReceiveBody, ReceiveBodyFails, CheckClientDigest,
         PublishNoReplace, SyncDirectory, rows
    <3> QED BY <3>1, <1>3
  <2>7. CASE UnlinkMismatch(r)
    <3>1. Same
      BY <2>7, <1>8 DEF UnlinkMismatch, rows
    <3> QED BY <3>1, <1>3
  <2>8. CASE MarkMismatch(r) \/ HandlerMarksFailed(r)
    <3>1. req[r].file \in File /\ MarkUploadFailed(req[r].file)
      BY <2>8, <1>4 DEF MarkMismatch, HandlerMarksFailed, PutStep, Receiving
    <3>2. db'.session = db.session
      BY <3>1, <1>5 DEF MarkUploadFailed, Autocommit
    <3>3. Same
      BY <2>8, <3>2, <1>7, <1>8 DEF MarkMismatch, HandlerMarksFailed
    <3> QED BY <3>3, <1>3
  <2> QED BY <1>9, <2>1, <2>2, <2>3, <2>5, <2>6, <2>7, <2>8 DEF Handler
<1>10. ASSUME NEW r \in Request,
              StatementFails(r) \/ PublishFails(r) \/ MarkFails(r) \/ SyncFails(r)
       PROVE  Counted'
  <2>1. CASE StatementFails(r)
    BY <2>1, <1>1, <1>6, <1>7 DEF StatementFails
  <2>2. CASE PublishFails(r) \/ MarkFails(r) \/ SyncFails(r)
    <3>1. Same
      BY <2>2, <1>7, <1>8 DEF PublishFails, MarkFails, SyncFails, rows
    <3> QED BY <3>1, <1>3
  <2> QED BY <1>10, <2>1, <2>2
<1>11. ASSUME NEW r \in Request, NEW s \in Session, StartCreate(r, s) \/ StartComplete(r, s)
       PROVE  Counted'
  <2>1. Same
    BY <1>4, <1>11, UploadFacts DEF StartCreate, StartComplete, rows, RequestsOK
  <2> QED BY <2>1, <1>3
<1>12. ASSUME NEW r \in Request, NEW f \in File, NEW b \in Body, StartPut(r, f, b)
       PROVE  Counted'
  <2>1. Same
    BY <1>4, <1>12, UploadFacts DEF StartPut, rows, RequestsOK
  <2> QED BY <2>1, <1>3
<1>13. CASE \E f \in File : RecoverUpload(f) \/ RecoverUnreadable(f)
  <2>1. Alone
    BY <1>13, UploadFacts DEF RecoverUpload, RecoverUnreadable, StoppedIsIdle, handlers
  <2> QED BY <2>1, <1>1
<1>14. CASE Kill \/ PowerLoss
  <2>1. Alone
    BY <1>14 DEF Kill, PowerLoss, Stopped
  <2> QED BY <2>1, <1>1
<1>15. CASE Open \/ Listen \/ UNCHANGED uploadVars \/ \E f \in File : GetSession(f)
  <2>1. Same
    BY <1>15 DEF Open, Listen, uploadVars, GetSession, rows, handlers
  <2> QED BY <2>1, <1>3
<1> HIDE DEF Alone, Same
<1> QED BY <1>9, <1>10, <1>11, <1>12, <1>13, <1>14, <1>15 DEF UploadNext

\* Sessions created at the same time by any number of handler threads on the shared
\* connection, committed or rolled back in any order, never reserve more than the quota.
THEOREM QuotaHeldSafe == UploadSpec => []QuotaHeld
<1>1. UploadInit => QuotaInv
  <2> SUFFICES ASSUME UploadInit PROVE QuotaInv
    OBVIOUS
  <2>1. committed = db /\ Registered(db) = {}
    BY DEF UploadInit, Registered
  <2>2. ReservedBytes(db) = {}
    BY <2>1 DEF ReservedBytes
  <2>3. IsFiniteSet(ReservedBytes(db)) /\ Cardinality(ReservedBytes(db)) = 0
    BY <2>2, FS_EmptySet
  <2>4. Counted
    BY DEF UploadInit, Counted
  <2> QED BY <2>1, <2>3, <2>4, UploadAssumption DEF QuotaInv, Within, Reserved
<1>2. UploadInv /\ QuotaInv /\ [UploadNext]_uploadVars => QuotaInv'
  <2> SUFFICES ASSUME UploadInv, QuotaInv, [UploadNext]_uploadVars PROVE QuotaInv'
    OBVIOUS
  <2>1. SessionsStep /\ Counted'
    BY SessionsStepHolds, CountedStays DEF QuotaInv
  <2>2. Within(db) /\ Within(committed)
    BY DEF QuotaInv
  <2>3. Within(db')
    <3>1. CASE Registered(db') \in {Registered(db), Registered(committed)}
      BY <2>2, <3>1, SameSessions
    <3>2. CASE \E s \in Session : Registered(db') = Registered(db) \cup {s} /\ WithinQuota(s)
      <4>1. PICK s \in Session : Registered(db') = Registered(db) \cup {s} /\ WithinQuota(s)
        BY <3>2
      <4>2. /\ IsFiniteSet(ReservedBytes(db')) /\ Reserved(db) \in Nat
            /\ Reserved(db') \in Nat /\ Reserved(db') <= Reserved(db) + Size[s]
        BY <2>2, <4>1, ReservedGrows DEF Within
      <4> QED BY <4>1, <4>2, UploadAssumption DEF Within, WithinQuota
    <3> QED BY <2>1, <3>1, <3>2 DEF SessionsStep
  <2>4. Within(committed')
    BY <2>1, <2>2, <2>3, SameSessions DEF SessionsStep
  <2> QED BY <2>1, <2>3, <2>4 DEF QuotaInv, Within, Reserved, ReservedBytes, Registered
<1>3. QuotaInv => QuotaHeld
  BY DEF QuotaInv, Within, QuotaHeld
<1> QED BY <1>1, <1>2, <1>3, UploadInvariant, PTL DEF UploadSpec
=============================================================================
