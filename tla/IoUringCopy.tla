---------------------------- MODULE IoUringCopy ----------------------------
(***************************************************************************)
(* The copies one migrate worker thread makes, one after the other: the    *)
(* copy part of MigrationAttemptPreparer::Prepare with the io_uring engine *)
(* (TryIoUringCopyAndHash) and its fallback, the synchronous CopyAndHash.  *)
(* The engine keeps up to QueueDepth chunks in flight; reads and writes    *)
(* complete in any order and may be short, chunks are hashed in file order *)
(* and each is written after it was hashed.  The ring is thread_local: the *)
(* next copy of the thread finds what this one leaves in it.               *)
(*                                                                         *)
(* Environment: the kernel, which executes submitted requests one by one   *)
(* in any order, and another program that edits the source meanwhile.      *)
(* A byte is a unit <<copy, position, version>>: all units of all copies   *)
(* differ, so a unit in the wrong place or of another copy shows.          *)
(***************************************************************************)
EXTENDS Integers, Sequences, FiniteSets, Functions

CONSTANTS
    Sizes,       \* sizes of the files to copy, in units
    ChunkSize,   \* chunk_size, 1 MiB in the code
    QueueDepth,  \* queue_depth, 4 in the code, at most 16
    MaxCopies,   \* bound on the copies of the thread
    MaxFaults,   \* bound on failing calls
    MaxEdits     \* bound on edits of the source

ASSUME CopyAssumption ==
    /\ Sizes \subseteq Nat /\ ChunkSize \in Nat \ {0}
    /\ QueueDepth \in 1 .. 16
    /\ MaxCopies \in Nat /\ MaxFaults \in Nat /\ MaxEdits \in Nat

VARIABLES
    pc,        \* where Prepare is: idle, one of Looping, sync or after (VerifyAfterRead)
    copy,      \* number of the current or last copy
    size,      \* manifest_identity().size, which VerifyBeforeRead has confirmed
    source,    \* the source file: the version of every unit
    edited,    \* its identity differs from the one VerifyBeforeRead saw
    target,    \* the temporary file, position -> unit
    hashed,    \* what the hasher was given, a sequence of units
    slots,     \* locals of TryIoUringCopyAndHash: the buffers,
    next_read, next_hash, completed, bytes_copied, failure,
    in_flight, \* and its count of requests the kernel has
    ring,      \* cached_context: none, open, or the result of a failed init
    sq,        \* the submission queue: prepared requests (queued is its length)
    kernel,    \* its requests being executed
    orphans,   \* freed buffers, of rings that are closed, into which the kernel still reads
    cq,        \* the completion queue
    waitFailed, \* io_uring_wait_cqe has failed, in this copy or before
    result,    \* what the copy returned: none, ok or error
    faults, edits

ringVars == <<ring, sq, kernel, cq, orphans>>
cursors == <<next_read, next_hash, completed, bytes_copied>>
engineVars == <<slots, cursors, failure, in_flight>>
sourceVars == <<source, edited, edits>>
copyVars == <<pc, copy, size, sourceVars, target, hashed, engineVars, ringVars,
              waitFailed, result, faults>>

\* Where TryIoUringCopyAndHash is: the first reads, the wait for a completion, hash_ready,
\* or flush after a short transfer.
Looping == {"prime", "engine", "hash", "flush"}

Hole == <<0, 0, 0>>     \* a unit of a buffer or of the target nobody has written
Stale == <<0, 0, 1>>    \* a unit an abandoned read of an earlier copy has left in a buffer

\* What a read of the source at position p finds now.
SourceUnit(p) == <<copy, p, source[p + 1]>>

\* A buffer after n units of the source, from position at, are read into it.
Pread(bytes, data, at, n) ==
    [k \in 1 .. ChunkSize |->
        IF k - 1 \in data .. (data + n - 1) THEN SourceUnit(at + k - 1 - data) ELSE bytes[k]]

\* The target after units are written at a position.
Pwrite(at, units) ==
    LET new == at .. (at + Len(units) - 1)
    IN  [p \in DOMAIN target \cup new |-> IF p \in new THEN units[p - at + 1] ELSE target[p]]

\* chunk_count, slot_count, and the offset and the length of a chunk
ChunkCount == size \div ChunkSize + (IF size % ChunkSize # 0 THEN 1 ELSE 0)
SlotCount == IF QueueDepth <= ChunkCount THEN QueueDepth ELSE ChunkCount
Offset(seq) == seq * ChunkSize
Length(seq) == IF ChunkSize <= size - Offset(seq) THEN ChunkSize ELSE size - Offset(seq)

FreeSlot == [phase |-> "Free", sequence |-> 0, progress |-> 0,
             bytes |-> [k \in 1 .. ChunkSize |-> Hole]]

CopyInit ==
    /\ pc = "idle" /\ copy = 0 /\ size = 0 /\ result = "none"
    /\ source = <<>> /\ edited = FALSE /\ edits = 0
    /\ target = <<>> /\ hashed = <<>>
    /\ slots = <<>> /\ next_read = 0 /\ next_hash = 0 /\ completed = 0 /\ bytes_copied = 0
    /\ failure = FALSE /\ in_flight = 0
    /\ ring = "none" /\ sq = <<>> /\ kernel = {} /\ cq = <<>> /\ orphans = {}
    /\ waitFailed = FALSE /\ faults = 0

-----------------------------------------------------------------------------
(* The steps of one copy *)

\* VerifyBeforeRead has seen the file as the manifest describes it.
NewCopy(n) ==
    /\ pc = "idle" /\ copy < MaxCopies
    /\ copy' = copy + 1 /\ size' = n
    /\ source' = [p \in 1 .. n |-> 0] /\ edited' = FALSE
    /\ target' = <<>> /\ hashed' = <<>>
    /\ UNCHANGED <<cursors, failure, in_flight, sq, kernel, cq, orphans, waitFailed, edits>>

\* The cached ring, or a new one, works.
BeginEngine(n) ==
    /\ NewCopy(n) /\ ring \in {"none", "open"}
    /\ ring' = "open" /\ pc' = "prime" /\ result' = "none"
    /\ slots' = [i \in 0 .. (SlotCount' - 1) |-> FreeSlot]
    /\ UNCHANGED faults

\* No io_uring here (ENOSYS, EPERM...), now or in an earlier copy of this thread: nullopt,
\* and the caller copies synchronously with the same hasher.
BeginSync(n) ==
    /\ NewCopy(n) /\ ring \in {"none", "unsupported"}
    /\ ring' = "unsupported" /\ pc' = "sync" /\ result' = "none"
    /\ UNCHANGED <<slots, faults>>

\* Any other error of io_uring_queue_init; the context that failed stays cached.
BeginFails(n) ==
    /\ NewCopy(n) /\ ring \in {"none", "broken"}
    /\ ring = "none" => faults < MaxFaults
    /\ faults' = IF ring = "none" THEN faults + 1 ELSE faults
    /\ ring' = "broken" /\ result' = "error"
    /\ UNCHANGED <<pc, slots>>

-----------------------------------------------------------------------------
(* The loop of TryIoUringCopyAndHash *)

\* The fields of slot i but for its bytes.
SetSlot(i, sequence, progress, phase) ==
    slots' = [slots EXCEPT ![i] = [@ EXCEPT !.sequence = sequence, !.progress = progress,
                                            !.phase = phase]]

Phase(write) == IF write THEN "Writing" ELSE "Reading"

\* Mutated: a short transfer is continued with the whole length of the chunk.
FullLengthSubmitRequest(i, sequence, progress, write) ==
    /\ SetSlot(i, sequence, progress, Phase(write))
    /\ sq' = Append(sq, [copy |-> copy, index |-> i, write |-> write, data |-> progress,
                         offset |-> Offset(sequence) + progress,
                         remaining |-> Length(sequence)])

\* The request for the rest of a chunk in slot i goes into the submission queue.
submit_request(i, sequence, progress, write) ==
    /\ SetSlot(i, sequence, progress, Phase(write))
    /\ sq' = Append(sq, [copy |-> copy, index |-> i, write |-> write, data |-> progress,
                         offset |-> Offset(sequence) + progress,
                         remaining |-> Length(sequence) - progress])

start_read(i) ==
    /\ submit_request(i, next_read, 0, FALSE)
    /\ next_read' = next_read + 1

\* The loop of the first reads, one per slot.
Prime ==
    /\ pc = "prime" /\ next_read < SlotCount
    /\ start_read(next_read)
    /\ UNCHANGED <<pc, copy, size, sourceVars, target, hashed, next_hash, completed,
                   bytes_copied, failure, in_flight, ring, kernel, cq, orphans,
                   waitFailed, result, faults>>

\* Mutated: chunks are hashed in the order in which they are ready.
AnyReady == {i \in DOMAIN slots : slots[i].phase = "Ready"}

\* The slot hash_ready finds.
NextReady == {i \in DOMAIN slots : slots[i].phase = "Ready" /\ slots[i].sequence = next_hash}

\* One turn of the loop of hash_ready: hash the next chunk, then prepare its write.
HashChunk(i) ==
    /\ pc = "hash" /\ next_hash < ChunkCount /\ i \in NextReady
    /\ hashed' = hashed \o SubSeq(slots[i].bytes, 1, Length(slots[i].sequence))
    /\ next_hash' = next_hash + 1
    /\ submit_request(i, slots[i].sequence, 0, TRUE)
    /\ UNCHANGED <<pc, copy, size, sourceVars, target, next_read, completed, bytes_copied,
                   failure, in_flight, ring, kernel, cq, orphans, waitFailed, result, faults>>

\* hasher.Update fails: what is prepared stays in the queue, nothing more is submitted.
HashFails ==
    /\ pc = "hash" /\ next_hash < ChunkCount /\ NextReady # {}
    /\ faults < MaxFaults /\ faults' = faults + 1
    /\ failure' = TRUE /\ pc' = "engine"
    /\ UNCHANGED <<copy, size, sourceVars, target, hashed, slots, cursors, in_flight,
                   ringVars, waitFailed, result>>

\* Nothing is left to prepare: io_uring_submit takes the queue in one or more calls, or
\* fails after the first k requests, which stay submitted.
Flush(k) ==
    /\ \/ pc = "prime" /\ next_read >= SlotCount
       \/ pc = "hash" /\ (next_hash >= ChunkCount \/ NextReady = {})
       \/ pc = "flush"
    /\ pc' = "engine"
    /\ k < Len(sq) => faults < MaxFaults
    /\ faults' = IF k < Len(sq) THEN faults + 1 ELSE faults
    /\ failure' = (k < Len(sq))
    /\ kernel' = kernel \cup {sq[j] : j \in 1 .. k}
    /\ sq' = SubSeq(sq, k + 1, Len(sq))
    /\ in_flight' = in_flight + k
    /\ UNCHANGED <<copy, size, sourceVars, target, hashed, slots, cursors, ring, cq,
                   orphans, waitFailed, result>>

\* One completion is taken from the ring.
TakeCompletion ==
    /\ pc = "engine" /\ in_flight # 0 /\ cq # <<>>
    /\ cq' = Tail(cq) /\ in_flight' = in_flight - 1
    /\ UNCHANGED <<copy, size, sourceVars, target, hashed, next_hash, ring, kernel, orphans,
                   waitFailed, result, faults>>

\* Mutated: a transfer of nothing is taken for a short one.
PatientUnusable(i, write, res) ==
    \/ i \notin DOMAIN slots
    \/ slots[i].phase # Phase(write)
    \/ res < 0
    \/ res > Length(slots[i].sequence) - slots[i].progress

\* A completion that ends the copy: for a slot or a phase it cannot be for, an error,
\* the end of the file, or more than was asked for.
Unusable(i, write, res) ==
    \/ i \notin DOMAIN slots
    \/ slots[i].phase # Phase(write)
    \/ res <= 0
    \/ res > Length(slots[i].sequence) - slots[i].progress

\* Usable: res units of slot i have been moved, which leaves it with so much progress.
Moved(c, i, progress) ==
    /\ ~failure /\ ~Unusable(c.index, c.write, c.res)
    /\ i = c.index /\ progress = slots[i].progress + c.res

\* A failed copy only waits for what the kernel still has.
Drain ==
    /\ TakeCompletion /\ failure
    /\ UNCHANGED <<pc, slots, next_read, completed, bytes_copied, failure, sq>>

Reject ==
    /\ TakeCompletion /\ ~failure
    /\ Unusable(Head(cq).index, Head(cq).write, Head(cq).res)
    /\ failure' = TRUE
    /\ UNCHANGED <<pc, slots, next_read, completed, bytes_copied, sq>>

\* A short transfer is continued.
Continue(i, progress) ==
    /\ TakeCompletion /\ Moved(Head(cq), i, progress)
    /\ progress < Length(slots[i].sequence)
    /\ submit_request(i, slots[i].sequence, progress, Head(cq).write)
    /\ pc' = "flush"
    /\ UNCHANGED <<next_read, completed, bytes_copied, failure>>

\* A finished read makes its chunk ready.
ReadDone(i, progress) ==
    /\ TakeCompletion /\ Moved(Head(cq), i, progress)
    /\ progress >= Length(slots[i].sequence) /\ ~Head(cq).write
    /\ SetSlot(i, slots[i].sequence, progress, "Ready")
    /\ pc' = "hash"
    /\ UNCHANGED <<next_read, completed, bytes_copied, failure, sq>>

\* A finished write frees its slot for the next read.
WriteDone(i, progress) ==
    /\ TakeCompletion /\ Moved(Head(cq), i, progress)
    /\ progress >= Length(slots[i].sequence) /\ Head(cq).write
    /\ bytes_copied' = bytes_copied + Length(slots[i].sequence)
    /\ completed' = completed + 1
    /\ IF next_read < ChunkCount
       THEN start_read(i)
       ELSE /\ SetSlot(i, slots[i].sequence, progress, "Free")
            /\ UNCHANGED <<next_read, sq>>
    /\ pc' = "hash"
    /\ UNCHANGED failure

Reap ==
    \/ Drain \/ Reject
    \/ \E i \in DOMAIN slots, progress \in 0 .. ChunkSize :
          Continue(i, progress) \/ ReadDone(i, progress) \/ WriteDone(i, progress)

\* The buffers are freed on every return.
FreeBuffers ==
    /\ slots' = <<>> /\ next_read' = 0 /\ next_hash' = 0 /\ completed' = 0
    /\ bytes_copied' = 0 /\ failure' = FALSE /\ in_flight' = 0

\* cached_context.reset(): the queues are gone, requests in execution are not stopped.  A
\* write only reaches the temporary file of this copy, which has failed; a read goes on
\* into its buffer.
ResetRing ==
    /\ ring' = "none" /\ sq' = <<>> /\ cq' = <<>> /\ kernel' = {}
    /\ orphans' = orphans \cup {[copy |-> r.copy, index |-> r.index] :
                                r \in {q \in kernel : ~q.write}}

\* io_uring_wait_cqe fails with something other than EINTR.
WaitFails ==
    /\ pc = "engine" /\ in_flight # 0 /\ faults < MaxFaults
    /\ faults' = faults + 1 /\ waitFailed' = TRUE
    /\ ResetRing
    /\ pc' = "idle" /\ result' = "error"
    /\ FreeBuffers
    /\ UNCHANGED <<copy, size, sourceVars, target, hashed>>

\* Mutated: a copy that fails keeps the ring for the next one.
KeepingEngineReturns ==
    /\ pc = "engine" /\ in_flight = 0 /\ UNCHANGED ringVars
    /\ IF ~failure /\ completed = ChunkCount
       THEN pc' = "after" /\ UNCHANGED result
       ELSE pc' = "idle" /\ result' = "error"
    /\ FreeBuffers
    /\ UNCHANGED <<copy, size, sourceVars, target, hashed, waitFailed, faults>>

\* The loop has ended.
EngineReturns ==
    /\ pc = "engine" /\ in_flight = 0
    /\ IF failure
       THEN ResetRing /\ pc' = "idle" /\ result' = "error"
       ELSE /\ UNCHANGED ringVars
            /\ IF /\ completed = ChunkCount /\ next_hash = ChunkCount
                  /\ bytes_copied = size
               THEN pc' = "after" /\ UNCHANGED result
               ELSE pc' = "idle" /\ result' = "error"
    /\ FreeBuffers
    /\ UNCHANGED <<copy, size, sourceVars, target, hashed, waitFailed, faults>>

\* The loop has ended well, but hasher.Finalize fails; the ring is kept.
FinalizeFails ==
    /\ pc = "engine" /\ in_flight = 0 /\ ~failure
    /\ completed = ChunkCount /\ next_hash = ChunkCount /\ bytes_copied = size
    /\ faults < MaxFaults /\ faults' = faults + 1
    /\ pc' = "idle" /\ result' = "error"
    /\ FreeBuffers
    /\ UNCHANGED <<copy, size, sourceVars, target, hashed, ringVars, waitFailed>>

\* CopyAndHash: one read of n units, hashed, then written by WriteAll.
SyncChunk(n) ==
    /\ pc = "sync" /\ n > 0 /\ n <= ChunkSize
    /\ Len(hashed) + n <= Len(source)
    /\ LET at == Len(hashed)
           chunk == [k \in 1 .. n |-> SourceUnit(at + k - 1)]
       IN  /\ hashed' = hashed \o chunk
           /\ target' = Pwrite(at, chunk)
    /\ UNCHANGED <<pc, copy, size, sourceVars, engineVars, ringVars, waitFailed,
                   result, faults>>

\* A read, a write or the hasher of CopyAndHash fails.
SyncFails ==
    /\ pc = "sync" /\ faults < MaxFaults /\ faults' = faults + 1
    /\ pc' = "idle" /\ result' = "error"
    /\ UNCHANGED <<copy, size, sourceVars, target, hashed, engineVars, ringVars,
                   waitFailed>>

\* The read at the end of the file returns 0.
SyncReturns ==
    /\ pc = "sync" /\ Len(hashed) >= Len(source)
    /\ pc' = "after"
    /\ UNCHANGED <<copy, size, sourceVars, target, hashed, engineVars, ringVars,
                   waitFailed, result, faults>>

\* VerifyAfterRead compares the identity of the source with the one before the copy.
AfterRead ==
    /\ pc = "after" /\ pc' = "idle"
    /\ result' = IF edited THEN "error" ELSE "ok"
    /\ UNCHANGED <<copy, size, sourceVars, target, hashed, engineVars, ringVars,
                   waitFailed, faults>>

-----------------------------------------------------------------------------
(* The environment *)

\* The kernel executes a request and posts n, the units it has moved: all of them, or
\* fewer, or none at the end of the file.  (An edit in the middle of a read is a
\* short read, the edit, and the read of the rest.)
Execute(r, n) ==
    /\ r \in kernel /\ n <= r.remaining
    /\ IF r.write
       THEN /\ n > 0
            /\ target' = Pwrite(r.offset, SubSeq(slots[r.index].bytes, r.data + 1, r.data + n))
            /\ UNCHANGED slots
       ELSE /\ IF n = 0 THEN r.offset >= Len(source) ELSE r.offset + n <= Len(source)
            /\ slots' = [slots EXCEPT ![r.index] =
                  [@ EXCEPT !.bytes = Pread(slots[r.index].bytes, r.data, r.offset, n)]]
            /\ UNCHANGED target
    /\ kernel' = kernel \ {r}
    /\ cq' = Append(cq, [copy |-> r.copy, index |-> r.index, write |-> r.write, res |-> n])
    /\ UNCHANGED <<pc, copy, size, sourceVars, hashed, cursors, failure, in_flight, ring, sq,
                   orphans, waitFailed, result, faults>>

\* The request fails.
ExecuteFails(r) ==
    /\ r \in kernel /\ faults < MaxFaults /\ faults' = faults + 1
    /\ kernel' = kernel \ {r}
    /\ cq' = Append(cq, [copy |-> r.copy, index |-> r.index, write |-> r.write, res |-> -1])
    /\ UNCHANGED <<pc, copy, size, sourceVars, target, hashed, engineVars, ring, sq,
                   orphans, waitFailed, result>>

\* Slot i after the units of its buffer from n on were overwritten from outside the copy.
Spoil(i, n) ==
    slots' = [slots EXCEPT ![i] =
        [@ EXCEPT !.bytes = [k \in 1 .. ChunkSize |->
                                IF k >= n THEN Stale ELSE slots[i].bytes[k]]]]

\* An abandoned read ends; nobody sees its completion.  Its buffer was freed when its copy
\* returned and may be a buffer of the copy that runs now (all slots are of one size): what
\* the read still brings, from unit n on, lands there, at whatever moment.  (The buffer of
\* the synchronous copy is on the worker's stack and cannot be that memory.)
OrphanEnds(b) ==
    /\ b \in orphans /\ orphans' = orphans \ {b}
    /\ \/ UNCHANGED slots
       \/ \E i \in DOMAIN slots, n \in 1 .. ChunkSize : Spoil(i, n)
    /\ UNCHANGED <<pc, copy, size, sourceVars, target, hashed, cursors, failure, in_flight,
                   ring, sq, kernel, cq, waitFailed, result, faults>>

\* Another program writes to the source, cuts it or appends to it; each changes the
\* identity (size, mtime, ctime) the guard compares.
EditSource ==
    /\ pc # "idle" /\ edits < MaxEdits
    /\ edits' = edits + 1 /\ edited' = TRUE
    /\ \/ \E p \in DOMAIN source : source' = [source EXCEPT ![p] = @ + 1]
       \/ source # <<>> /\ source' = SubSeq(source, 1, Len(source) - 1)
       \/ source' = Append(source, 0)
    /\ UNCHANGED <<pc, copy, size, target, hashed, engineVars, ringVars, waitFailed,
                   result, faults>>

AllCopied == pc = "idle" /\ copy = MaxCopies /\ UNCHANGED copyVars

-----------------------------------------------------------------------------
Thread ==
    \/ \E n \in Sizes : BeginEngine(n) \/ BeginSync(n) \/ BeginFails(n)
    \/ Prime \/ HashFails \/ Reap \/ WaitFails \/ EngineReturns \/ FinalizeFails
    \/ \E i \in DOMAIN slots : HashChunk(i)
    \/ \E k \in 0 .. Len(sq) : Flush(k)
    \/ \E n \in 1 .. ChunkSize : SyncChunk(n)
    \/ SyncFails \/ SyncReturns \/ AfterRead

Kernel ==
    \/ \E r \in kernel : ExecuteFails(r) \/ \E n \in 0 .. ChunkSize : Execute(r, n)
    \/ \E b \in orphans : OrphanEnds(b)

CopyNext == Thread \/ Kernel \/ EditSource \/ AllCopied

CopySpec == CopyInit /\ [][CopyNext]_copyVars

\* The thread runs, and the kernel executes every request it has accepted.
CopyFairSpec ==
    /\ CopySpec
    /\ WF_copyVars(Thread) /\ WF_copyVars(Kernel)

-----------------------------------------------------------------------------
(* Properties *)

Request == [copy : 1 .. MaxCopies, index : 0 .. (QueueDepth - 1), write : BOOLEAN,
            data : 0 .. ChunkSize, offset : Nat, remaining : 1 .. ChunkSize]
Orphan == [copy : 1 .. MaxCopies, index : 0 .. (QueueDepth - 1)]

\* Every variable stays in its type; in particular the kernel's requests carry
\* a slot index and a range inside the slot's buffer.
CopyTypeOK ==
    /\ pc \in Looping \cup {"idle", "sync", "after"}
    /\ copy \in 0 .. MaxCopies /\ size \in Sizes \cup {0}
    /\ kernel \subseteq Request /\ orphans \subseteq Orphan
    /\ Len(sq) <= QueueDepth /\ \A k \in DOMAIN sq : sq[k] \in Request
    /\ \A r \in kernel : r.data + r.remaining <= ChunkSize
    /\ in_flight \in 0 .. QueueDepth
    /\ ring \in {"none", "open", "unsupported", "broken"}
    /\ result \in {"none", "ok", "error"}
    /\ faults \in 0 .. MaxFaults /\ edits \in 0 .. MaxEdits

\* The file holds the units of seq, in order, but for stale ones.
TargetIs(seq) ==
    /\ DOMAIN target = 0 .. (Len(seq) - 1)
    /\ \A p \in DOMAIN target : target[p] \in {seq[p + 1], Stale}

\* When a copy reports bytes and digest, the digest is that of what the temporary file
\* holds: every position once and in file order, however the reads and the writes
\* completed, were short or were edited under way; and through the ring it is exactly
\* as long as the manifest says.  Only a read abandoned by an earlier copy can put other
\* units in either.
CopiedIsHashed ==
    pc = "after" =>
        /\ TargetIs(hashed)
        /\ \A k \in DOMAIN hashed :
               hashed[k] # Stale => hashed[k][1] = copy /\ hashed[k][2] = k - 1
        /\ ring = "open" => Len(hashed) = size

\* A copy that Prepare goes on with is the source as the manifest knows it, but for stale
\* units: no edit during the copy slips between the two identity checks.
OkMatchesSource ==
    result = "ok" => /\ Len(hashed) = size
                     /\ \A k \in DOMAIN hashed : hashed[k] \in {<<copy, k - 1, 0>>, Stale}

\* As long as io_uring_wait_cqe has not failed in this thread nothing is stale, neither in
\* what was hashed nor in the file: with the two above, both are the source, unit by unit.
\* (After such a failure a later copy of the thread may hash and keep units of the older
\* file, io_uring_copy_engine.cpp:194-197, and this is the only way they get there.)
StaleAfterFailedWait ==
    ~waitFailed => Stale \notin Range(hashed) \cup Range(target)

\* What a copy delivers: file and digest agree, and both are the planned source; what is
\* excepted takes a failed wait.
CopyIsFaithful == CopiedIsHashed /\ OkMatchesSource /\ StaleAfterFailedWait

InRing == Range(sq) \cup kernel \cup Range(cq)

\* A slot's buffer is used by at most one request at a time, the one its phase names, and
\* by none while it is free or waits to be hashed: no read overwrites a chunk before it is
\* hashed and written, and the submission queue (at least QueueDepth entries) never fills.
OneRequestPerSlot ==
    pc \in Looping /\ ~failure =>
        \A i \in DOMAIN slots :
            LET mine == {r \in InRing : r.index = i}
                phase == slots[i].phase
            IN  /\ phase \in {"Free", "Ready"} => mine = {}
                /\ phase = "Reading" => \E r \in mine : mine = {r} /\ ~r.write
                /\ phase = "Writing" => \E r \in mine : mine = {r} /\ r.write

\* The kernel is given only what fits, into a buffer nobody else uses.
BuffersExclusive == CopyTypeOK /\ OneRequestPerSlot

\* The next copy of the thread finds an empty ring: nothing of an earlier copy is
\* submitted, executed or completed in it, whatever failed there.
RingCleanBetweenCopies ==
    /\ pc \notin Looping => sq = <<>> /\ kernel = {} /\ cq = <<>>
    /\ \A r \in InRing : r.copy = copy
    /\ orphans # {} => waitFailed

\* Every copy returns: the engine never waits for a completion that does not come,
\* whatever is short, fails or changes.
CopyReturns == pc # "idle" ~> pc = "idle"
=============================================================================
