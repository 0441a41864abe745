-------------------------- MODULE IoUringCopy_proofs --------------------------
(***************************************************************************)
(* TLAPS proofs about module IoUringCopy, for every size of file and chunk *)
(* and every depth of the queue: a buffer serves one request, the cached   *)
(* ring is empty between copies, and what is hashed is what is in the      *)
(* target, in file order.                                                  *)
(***************************************************************************)
EXTENDS IoUringCopy, FiniteSetTheorems, SequenceTheorems, TLAPS

Unit == Nat \X Nat \X Nat
Slot == [phase : {"Free", "Reading", "Ready", "Writing"}, sequence : Nat,
         progress : 0 .. ChunkSize, bytes : [1 .. ChunkSize -> Unit]]
Completion == [copy : Nat, index : 0 .. (QueueDepth - 1), write : BOOLEAN, res : Int]

\* The chunks of a file of z units: ChunkCount, SlotCount and Length as functions of z.
Chunks(z) == z \div ChunkSize + (IF z % ChunkSize # 0 THEN 1 ELSE 0)
SlotsOf(z) == IF QueueDepth <= Chunks(z) THEN QueueDepth ELSE Chunks(z)
ChunkLen(z, q) == IF ChunkSize <= z - Offset(q) THEN ChunkSize ELSE z - Offset(q)

\* The ranges of the variables.
EngineTypes ==
    /\ pc \in Looping \cup {"idle", "sync", "after"}
    /\ copy \in 0 .. MaxCopies /\ size \in Nat /\ size \in Sizes \cup {0}
    /\ pc # "idle" => copy \in 1 .. MaxCopies
    /\ source \in Seq(Nat) /\ edited \in BOOLEAN /\ edits \in 0 .. MaxEdits
    /\ hashed \in Seq(Unit) /\ DOMAIN target \subseteq Nat
    /\ next_read \in Nat /\ next_hash \in Nat
    /\ failure \in BOOLEAN /\ in_flight \in Nat
    /\ sq \in Seq(Request) /\ kernel \subseteq Request /\ orphans \subseteq Orphan
    /\ cq \in Seq(Completion)
    /\ ring \in {"none", "open", "unsupported", "broken"} /\ waitFailed \in BOOLEAN
    /\ result \in {"none", "ok", "error"} /\ faults \in 0 .. MaxFaults
    /\ pc \in Looping => slots \in [0 .. (SlotsOf(size) - 1) -> Slot] /\ ring = "open"

\* Between two copies the ring and the cursors are as the first copy finds them, and what
\* goes on elsewhere is left of a failed wait.
CleanOK ==
    /\ pc \notin Looping => /\ next_read = 0 /\ next_hash = 0
                            /\ ~failure /\ in_flight = 0
                            /\ sq = <<>> /\ kernel = {} /\ cq = <<>>
    /\ orphans # {} => waitFailed

\* The loop submits everything it has prepared before it waits, unless it has failed.
LoopOK ==
    /\ failure => pc = "engine"
    /\ pc = "engine" /\ ~failure => sq = <<>>
    /\ pc = "prime" => /\ next_read <= SlotsOf(size)
                       /\ \A i \in DOMAIN slots : i >= next_read => slots[i].phase = "Free"

\* The slots with a request in K or a completion in C.
BusyIn(K, C) == {r.index : r \in K} \cup {C[k].index : k \in DOMAIN C}

\* A slot has at most one request, which is in one place: prepared in Q, with the kernel in
\* K or completed in C; n counts the slots whose request is no longer in Q.
OnePlace(Q, K, C, n) ==
    /\ \A j, k \in DOMAIN Q : Q[j].index = Q[k].index => j = k
    /\ \A r, q \in K : r.index = q.index => r = q
    /\ \A j, k \in DOMAIN C : C[j].index = C[k].index => j = k
    /\ \A k \in DOMAIN Q : Q[k].index \notin BusyIn(K, C)
    /\ \A r \in K, k \in DOMAIN C : r.index # C[k].index
    /\ n = Cardinality(BusyIn(K, C))
\* All slots with a request.
Used(Q, K, C) == {Q[k].index : k \in DOMAIN Q} \cup BusyIn(K, C)

\* A request is for the rest of the chunk in its slot, in the direction the phase says (S are
\* the slots, c is the copy and z its size).
ForSlot(S, c, z, r) ==
    /\ r.copy = c /\ r.index \in DOMAIN S
    /\ S[r.index].phase = Phase(r.write)
    /\ r.data = S[r.index].progress
    /\ r.offset = Offset(S[r.index].sequence) + S[r.index].progress
    /\ r.remaining = ChunkLen(z, S[r.index].sequence) - S[r.index].progress
OfSlot(S, c, z, d) ==
    /\ d.copy = c /\ d.index \in DOMAIN S
    /\ S[d.index].phase = Phase(d.write)
    /\ d.res <= ChunkLen(z, S[d.index].sequence) - S[d.index].progress
RequestsRight(S, Q, K, C, c, z) ==
    /\ \A k \in DOMAIN Q : ForSlot(S, c, z, Q[k])
    /\ \A r \in K : ForSlot(S, c, z, r)
    /\ \A k \in DOMAIN C : OfSlot(S, c, z, C[k])

\* The other way round: a slot that reads or writes has a request.
Served(S, Q, K, C) ==
    \A i \in DOMAIN S : S[i].phase \in {"Reading", "Writing"} => i \in Used(Q, K, C)

\* Slots hold different chunks of those started, before next; the ones already hashed,
\* before h, are being written, the others are not.
SlotRight(s, next, h, z) ==
    /\ s.phase # "Free" => s.sequence < next
    /\ s.phase \in {"Reading", "Writing"} => s.progress < ChunkLen(z, s.sequence)
    /\ s.phase \in {"Reading", "Ready"} => s.sequence >= h
    /\ s.phase = "Writing" => s.sequence < h
SlotsRight(S, next, h, z) ==
    /\ h <= next /\ next <= Chunks(z)
    /\ \A i \in DOMAIN S : SlotRight(S[i], next, h, z)
    /\ \A i, j \in DOMAIN S :
        S[i].phase # "Free" /\ S[j].phase # "Free" /\ S[i].sequence = S[j].sequence => i = j

\* A unit that belongs at position p of copy c, of which e says whether its source was
\* edited; and a position at which the target t holds what was hashed, h.
Good(c, e, u, p) == u # Stale => u[1] = c /\ u[2] = p /\ (~e => u[3] = 0)
OnTarget(t, h, p) == p \in DOMAIN t /\ t[p] \in {h[p + 1], Stale}

\* What is in a buffer, as far as its slot has come.
Loaded(s, c, e, n) ==
    \A k \in 1 .. ChunkSize : k <= n => Good(c, e, s.bytes[k], Offset(s.sequence) + k - 1)
Stored(s, t, h, n) ==
    \A k \in 1 .. ChunkSize : k <= n => OnTarget(t, h, Offset(s.sequence) + k - 1)
BytesOf(s, t, h, c, e, z) ==
    /\ s.phase = "Reading" => Loaded(s, c, e, s.progress)
    /\ s.phase = "Ready" => Loaded(s, c, e, ChunkLen(z, s.sequence))
    /\ s.phase = "Writing" =>
          /\ Stored(s, t, h, s.progress)
          /\ \A k \in 1 .. ChunkSize :
                k <= ChunkLen(z, s.sequence) =>
                    s.bytes[k] \in {h[Offset(s.sequence) + k], Stale}
BytesRight(S, t, h, c, e, z) == \A i \in DOMAIN S : BytesOf(S[i], t, h, c, e, z)

\* What the completions that are not yet taken have moved.
Brought(s, d, t, h, c, e) ==
    IF d.write THEN Stored(s, t, h, s.progress + d.res) ELSE Loaded(s, c, e, s.progress + d.res)
CompletedRight(S, C, t, h, c, e) ==
    \A j \in DOMAIN C : Brought(S[C[j].index], C[j], t, h, c, e)

\* Chunks are hashed in file order, and those no slot writes any more are in the target.
Written(S, q) == \A i \in DOMAIN S : ~(S[i].phase = "Writing" /\ S[i].sequence = q)
HashedRight(S, t, h, n, z) ==
    /\ Len(h) = IF n < Chunks(z) THEN Offset(n) ELSE z
    /\ DOMAIN t \subseteq 0 .. (Len(h) - 1)
    /\ \A q \in 0 .. (n - 1) : Written(S, q) =>
           \A p \in Offset(q) .. (Offset(q) + ChunkLen(z, q) - 1) : OnTarget(t, h, p)

\* All of it holds while the loop runs.
LoopInv ==
    pc \in Looping =>
        /\ LoopOK
        /\ OnePlace(sq, kernel, cq, in_flight)
        /\ RequestsRight(slots, sq, kernel, cq, copy, size)
        /\ ~failure => Served(slots, sq, kernel, cq)
        /\ SlotsRight(slots, next_read, next_hash, size)
        /\ BytesRight(slots, target, hashed, copy, edited, size)
        /\ CompletedRight(slots, cq, target, hashed, copy, edited)
        /\ HashedRight(slots, target, hashed, next_hash, size)

\* The hasher gets the units of the source in order; as long as nobody has edited the
\* source they are those of the manifest.
OrderOK ==
    /\ pc # "idle" => /\ \A k \in DOMAIN hashed : Good(copy, edited, hashed[k], k - 1)
                      /\ ~edited => /\ Len(source) = size
                                    /\ \A k \in DOMAIN source : source[k] = 0
    /\ pc \in {"sync", "after"} => TargetIs(hashed)
    /\ pc = "sync" => ring = "unsupported" /\ (~edited => Len(hashed) <= size)
    /\ pc = "after" => (~edited \/ ring = "open" => Len(hashed) = size)
    /\ result = "ok" => pc = "idle"

\* The inductive invariant.
CopyInv == EngineTypes /\ CleanOK /\ LoopInv /\ OrderOK /\ OkMatchesSource

-----------------------------------------------------------------------------
(* The chunks of a file.                                                   *)

\* The first chunk is at the start of the file and the next one ChunkSize further.
LEMMA OffsetSteps ==
    ASSUME NEW s \in Nat
    PROVE  Offset(s) \in Nat /\ Offset(0) = 0 /\ Offset(s + 1) = Offset(s) + ChunkSize
BY CopyAssumption DEF Offset

\* Chunks do not overlap.
LEMMA OffsetsApart ==
    ASSUME NEW s \in Nat, NEW t \in Nat, s < t
    PROVE  Offset(s) + ChunkSize <= Offset(t)
<1>1. PICK d \in Nat : t = s + 1 + d
  <2>1. t - s - 1 \in Nat /\ t = s + 1 + (t - s - 1)
    OBVIOUS
  <2> QED BY <2>1
<1>2. t * ChunkSize = s * ChunkSize + ChunkSize + d * ChunkSize
  BY <1>1, CopyAssumption
<1>3. d * ChunkSize >= 0 /\ s * ChunkSize \in Nat /\ d * ChunkSize \in Nat
  BY CopyAssumption
<1> QED BY <1>2, <1>3, CopyAssumption DEF Offset

\* The size in chunks and a rest.
LEMMA ChunksOfSize ==
    ASSUME NEW z \in Nat
    PROVE  /\ Chunks(z) \in Nat /\ SlotsOf(z) \in 0 .. QueueDepth /\ SlotsOf(z) <= Chunks(z)
           /\ \E d, m \in Nat : /\ m < ChunkSize /\ z = Offset(d) + m
                                /\ Chunks(z) = IF m # 0 THEN d + 1 ELSE d
<1>1. z = ChunkSize * (z \div ChunkSize) + (z % ChunkSize)
      /\ z \div ChunkSize \in Nat /\ z % ChunkSize \in Nat /\ z % ChunkSize < ChunkSize
  BY CopyAssumption
<1>2. z = Offset(z \div ChunkSize) + (z % ChunkSize)
  BY <1>1, CopyAssumption DEF Offset
<1>3. Chunks(z) = IF z % ChunkSize # 0 THEN (z \div ChunkSize) + 1 ELSE z \div ChunkSize
  BY <1>1 DEF Chunks
<1>4. Chunks(z) \in Nat
  BY <1>1, <1>3
<1>5. SlotsOf(z) \in 0 .. QueueDepth /\ SlotsOf(z) <= Chunks(z)
  BY <1>4, CopyAssumption DEF SlotsOf
<1> QED BY <1>1, <1>2, <1>3, <1>4, <1>5

\* A chunk is not empty and ends where the next one begins or the file ends.
LEMMA ChunkLength ==
    ASSUME NEW z \in Nat, NEW s \in Nat, s < Chunks(z)
    PROVE  /\ ChunkLen(z, s) \in 1 .. ChunkSize /\ Offset(s) \in Nat
           /\ Offset(s) + ChunkLen(z, s) = IF s + 1 < Chunks(z) THEN Offset(s + 1) ELSE z
           /\ Offset(s) + ChunkLen(z, s) <= z
<1>1. PICK d, m \in Nat : /\ m < ChunkSize /\ z = Offset(d) + m
                          /\ Chunks(z) = IF m # 0 THEN d + 1 ELSE d
  BY ChunksOfSize
<1>2. Offset(s) \in Nat /\ Offset(d) \in Nat /\ Offset(s + 1) = Offset(s) + ChunkSize
  BY OffsetSteps
<1>3. CASE s + 1 < Chunks(z)
  <2>1. s + 1 \in Nat /\ s + 1 <= d
    BY <1>1, <1>3
  <2>2. Offset(s + 1) <= Offset(d)
    <3>1. CASE s + 1 = d
      BY <3>1, <1>2
    <3>2. CASE s + 1 < d
      <4>1. Offset(s + 1) + ChunkSize <= Offset(d) /\ Offset(s + 1) \in Nat
        BY <2>1, <3>2, OffsetsApart, OffsetSteps
      <4> QED BY <4>1, <1>2, CopyAssumption
    <3> QED BY <2>1, <3>1, <3>2
  <2> QED BY <1>1, <1>2, <1>3, <2>2, CopyAssumption DEF ChunkLen
<1>4. CASE s + 1 = Chunks(z)
  <2>1. CASE m # 0
    <3>1. s = d
      BY <1>1, <1>4, <2>1
    <3> QED BY <1>1, <1>2, <1>4, <2>1, <3>1, CopyAssumption DEF ChunkLen
  <2>2. CASE m = 0
    <3>1. s + 1 = d
      BY <1>1, <1>4, <2>2
    <3> QED BY <1>1, <1>2, <1>4, <2>2, <3>1, CopyAssumption DEF ChunkLen
  <2> QED BY <2>1, <2>2
<1>5. Chunks(z) \in Nat
  BY <1>1
<1> QED BY <1>3, <1>4, <1>5

\* Every position before the end of a chunk is in one chunk up to it.
LEMMA ChunkOf ==
    ASSUME NEW z \in Nat, NEW p \in Nat, p < z
    PROVE  \E q \in Nat : /\ q < Chunks(z)
                          /\ p \in Offset(q) .. (Offset(q) + ChunkLen(z, q) - 1)
<1>1. p = ChunkSize * (p \div ChunkSize) + (p % ChunkSize)
      /\ p \div ChunkSize \in Nat /\ p % ChunkSize \in Nat /\ p % ChunkSize < ChunkSize
  BY CopyAssumption
<1>2. PICK q \in Nat : q = p \div ChunkSize
  BY <1>1
<1>3. PICK m \in Nat : m < ChunkSize /\ p = Offset(q) + m
  BY <1>1, <1>2, CopyAssumption DEF Offset
<1>4. Offset(q) \in Nat /\ Offset(q + 1) = Offset(q) + ChunkSize
  BY OffsetSteps
<1>5. q < Chunks(z)
  <2>1. PICK d, n \in Nat : /\ n < ChunkSize /\ z = Offset(d) + n
                            /\ Chunks(z) = IF n # 0 THEN d + 1 ELSE d
    BY ChunksOfSize
  <2>2. Offset(d) \in Nat
    BY OffsetSteps
  <2>3. q <= d
    <3>1. SUFFICES ASSUME d < q PROVE FALSE
      OBVIOUS
    <3>2. Offset(d) + ChunkSize <= Offset(q)
      BY <3>1, OffsetsApart
    <3> QED BY <3>2, <1>3, <1>4, <2>1, <2>2, CopyAssumption
  <2>4. CASE q = d
    BY <2>1, <2>4, <1>3, <2>2
  <2>5. CASE q < d
    BY <2>1, <2>5
  <2> QED BY <2>3, <2>4, <2>5
<1>6. ChunkLen(z, q) = ChunkSize \/ Offset(q) + ChunkLen(z, q) = z
  BY <1>4 DEF ChunkLen
<1>7. ChunkLen(z, q) \in Nat
  BY <1>5, ChunkLength, CopyAssumption
<1>8. p < Offset(q) + ChunkLen(z, q)
  BY <1>3, <1>4, <1>6, <1>7, CopyAssumption
<1> QED BY <1>3, <1>4, <1>5, <1>7, <1>8

-----------------------------------------------------------------------------
(* One request per slot, wherever it is.                                   *)

\* The slots of the first n requests of a queue without repetition are n slots.
LEMMA PrefixSlots ==
    ASSUME NEW Q \in Seq(Request), NEW n \in 0 .. Len(Q),
           \A j, k \in DOMAIN Q : Q[j].index = Q[k].index => j = k
    PROVE  LET T == {Q[j].index : j \in 1 .. n}
           IN  T \subseteq 0 .. (QueueDepth - 1) /\ IsFiniteSet(T) /\ Cardinality(T) = n
<1> DEFINE T == {Q[j].index : j \in 1 .. n}
           f == [j \in 1 .. n |-> Q[j].index]
<1>1. n \in Nat /\ DOMAIN Q = 1 .. Len(Q) /\ 1 .. n \subseteq DOMAIN Q
  OBVIOUS
<1>2. \A j \in DOMAIN Q : Q[j].index \in 0 .. (QueueDepth - 1)
  <2>1. \A j \in DOMAIN Q : Q[j] \in Request
    OBVIOUS
  <2> QED BY <2>1 DEF Request
<1>3. f \in Bijection(1 .. n, T)
  BY <1>1 DEF Bijection, Injection, Surjection, IsInjective
<1>4. ExistsBijection(1 .. n, T)
  BY <1>3, Zenon DEF ExistsBijection
<1>5. IsFiniteSet(1 .. n) /\ Cardinality(1 .. n) = n
  BY <1>1, FS_Interval
<1>6. IsFiniteSet(T) /\ Cardinality(T) = Cardinality(1 .. n)
  BY <1>4, <1>5, FS_Bijection, Zenon
<1>7. T \subseteq 0 .. (QueueDepth - 1)
  BY <1>1, <1>2
<1> QED BY <1>5, <1>6, <1>7

\* The slots the kernel has are finitely many.
LEMMA BusyFinite ==
    ASSUME NEW K \in SUBSET Request, NEW C \in Seq(Completion)
    PROVE  /\ BusyIn(K, C) \subseteq 0 .. (QueueDepth - 1) /\ IsFiniteSet(BusyIn(K, C))
           /\ Cardinality(BusyIn(K, C)) \in 0 .. QueueDepth
           /\ Cardinality(BusyIn(K, C)) \in Nat
<1>1. BusyIn(K, C) \subseteq 0 .. (QueueDepth - 1)
  <2>1. \A r \in K : r.index \in 0 .. (QueueDepth - 1)
    BY DEF Request
  <2>2. \A k \in DOMAIN C : C[k].index \in 0 .. (QueueDepth - 1)
    <3>1. \A k \in DOMAIN C : C[k] \in Completion
      OBVIOUS
    <3> QED BY <3>1 DEF Completion
  <2> QED BY <2>1, <2>2 DEF BusyIn
<1>2. IsFiniteSet(0 .. (QueueDepth - 1)) /\ Cardinality(0 .. (QueueDepth - 1)) = QueueDepth
  BY FS_Interval, CopyAssumption
<1>3. IsFiniteSet(BusyIn(K, C)) /\ Cardinality(BusyIn(K, C)) <= QueueDepth
  <2>1. BusyIn(K, C) \in SUBSET (0 .. (QueueDepth - 1))
    BY <1>1
  <2>2. /\ IsFiniteSet(BusyIn(K, C))
        /\ Cardinality(BusyIn(K, C)) <= Cardinality(0 .. (QueueDepth - 1))
    BY <2>1, <1>2, FS_Subset, Zenon
  <2> QED BY <2>2, <1>2
<1>4. Cardinality(BusyIn(K, C)) \in Nat
  BY <1>3, FS_CardinalityType
<1> QED BY <1>1, <1>3, <1>4, CopyAssumption

\* No queue is longer than there are slots.
LEMMA QueueFits ==
    ASSUME NEW Q \in Seq(Request), NEW K \in SUBSET Request, NEW C \in Seq(Completion),
           NEW n, OnePlace(Q, K, C, n)
    PROVE  Len(Q) <= QueueDepth /\ n \in 0 .. QueueDepth
<1> DEFINE T == {Q[j].index : j \in 1 .. Len(Q)}
<1>1. Len(Q) \in Nat /\ Len(Q) \in 0 .. Len(Q)
  OBVIOUS
<1>2. T \subseteq 0 .. (QueueDepth - 1) /\ Cardinality(T) = Len(Q)
  BY <1>1, PrefixSlots DEF OnePlace
<1>3. IsFiniteSet(0 .. (QueueDepth - 1)) /\ Cardinality(0 .. (QueueDepth - 1)) = QueueDepth
  BY FS_Interval, CopyAssumption
<1>4. Cardinality(T) <= Cardinality(0 .. (QueueDepth - 1))
  <2>1. T \in SUBSET (0 .. (QueueDepth - 1))
    BY <1>2
  <2> QED BY <2>1, <1>3, FS_Subset, Zenon
<1>5. n \in 0 .. QueueDepth
  BY BusyFinite DEF OnePlace
<1> QED BY <1>2, <1>3, <1>4, <1>5

\* A request is prepared for a slot that has none.
LEMMA PlacePrepared ==
    ASSUME NEW Q \in Seq(Request), NEW K \in SUBSET Request, NEW C \in Seq(Completion),
           NEW n, OnePlace(Q, K, C, n), NEW r \in Request,
           r.index \notin BusyIn(K, C), \A k \in DOMAIN Q : Q[k].index # r.index
    PROVE  OnePlace(Append(Q, r), K, C, n)
<1>1. /\ Append(Q, r) \in Seq(Request) /\ DOMAIN Append(Q, r) = 1 .. (Len(Q) + 1)
      /\ Len(Q) \in Nat /\ DOMAIN Q = 1 .. Len(Q)
      /\ \A k \in 1 .. Len(Q) : Append(Q, r)[k] = Q[k]
      /\ Append(Q, r)[Len(Q) + 1] = r
  OBVIOUS
<1>2. \A j, k \in DOMAIN Append(Q, r) :
          Append(Q, r)[j].index = Append(Q, r)[k].index => j = k
  BY <1>1 DEF OnePlace
<1>3. \A k \in DOMAIN Append(Q, r) : Append(Q, r)[k].index \notin BusyIn(K, C)
  BY <1>1 DEF OnePlace
<1> QED BY <1>2, <1>3 DEF OnePlace

\* The first completion is taken: its slot has nothing any more.
LEMMA PlaceTaken ==
    ASSUME NEW Q \in Seq(Request), NEW K \in SUBSET Request, NEW C \in Seq(Completion),
           NEW n, OnePlace(Q, K, C, n), C # <<>>
    PROVE  /\ OnePlace(Q, K, Tail(C), n - 1) /\ Head(C).index \notin BusyIn(K, Tail(C))
           /\ BusyIn(K, C) = BusyIn(K, Tail(C)) \cup {Head(C).index}
           /\ \A k \in DOMAIN Q : Q[k].index # Head(C).index
<1>1. /\ Tail(C) \in Seq(Completion) /\ DOMAIN Tail(C) = 1 .. (Len(C) - 1)
      /\ Len(C) \in Nat \ {0} /\ DOMAIN C = 1 .. Len(C) /\ Head(C) = C[1]
      /\ \A k \in 1 .. (Len(C) - 1) : Tail(C)[k] = C[k + 1]
  OBVIOUS
<1>2. BusyIn(K, C) = BusyIn(K, Tail(C)) \cup {Head(C).index}
  <2>1. \A k \in DOMAIN C : k = 1 \/ (k - 1 \in DOMAIN Tail(C) /\ Tail(C)[k - 1] = C[k])
    BY <1>1
  <2>2. \A k \in DOMAIN Tail(C) : k + 1 \in DOMAIN C /\ Tail(C)[k] = C[k + 1]
    BY <1>1
  <2>3. {C[k].index : k \in DOMAIN C}
          = {Tail(C)[k].index : k \in DOMAIN Tail(C)} \cup {Head(C).index}
    <3>1. ASSUME NEW k \in DOMAIN C
          PROVE  C[k].index \in {Tail(C)[j].index : j \in DOMAIN Tail(C)} \cup {Head(C).index}
      BY <1>1, <2>1
    <3>2. ASSUME NEW k \in DOMAIN Tail(C)
          PROVE  Tail(C)[k].index \in {C[j].index : j \in DOMAIN C}
      BY <2>2
    <3>3. Head(C).index \in {C[j].index : j \in DOMAIN C}
      BY <1>1
    <3> QED BY <3>1, <3>2, <3>3, Zenon
  <2> QED BY <2>3 DEF BusyIn
<1>3. Head(C).index \notin BusyIn(K, Tail(C))
  <2>1. \A r \in K : r.index # C[1].index
    BY <1>1 DEF OnePlace
  <2>2. \A k \in DOMAIN Tail(C) : Tail(C)[k].index # C[1].index
    BY <1>1 DEF OnePlace
  <2> QED BY <1>1, <2>1, <2>2 DEF BusyIn
<1>4. n - 1 = Cardinality(BusyIn(K, Tail(C)))
  <2>1. IsFiniteSet(BusyIn(K, Tail(C))) /\ Cardinality(BusyIn(K, Tail(C))) \in Nat
    BY <1>1, BusyFinite, Zenon
  <2>2. Cardinality(BusyIn(K, Tail(C)) \cup {Head(C).index})
          = Cardinality(BusyIn(K, Tail(C))) + 1
    BY <1>3, <2>1, FS_AddElement
  <2>3. n = Cardinality(BusyIn(K, Tail(C))) + 1
    BY <1>2, <2>2 DEF OnePlace
  <2> QED BY <2>1, <2>3
<1>5. \A j, k \in DOMAIN Tail(C) : Tail(C)[j].index = Tail(C)[k].index => j = k
  BY <1>1 DEF OnePlace
<1>6. \A r \in K, k \in DOMAIN Tail(C) : r.index # Tail(C)[k].index
  BY <1>1 DEF OnePlace
<1>7. \A k \in DOMAIN Q : /\ Q[k].index \notin BusyIn(K, Tail(C))
                          /\ Q[k].index # Head(C).index
  BY <1>2 DEF OnePlace
<1> QED BY <1>2, <1>3, <1>4, <1>5, <1>6, <1>7 DEF OnePlace

\* What is left of a sequence without its first k elements.
LEMMA RestOfQueue ==
    ASSUME NEW S, NEW Q \in Seq(S), NEW k \in 0 .. Len(Q)
    PROVE  LET R == SubSeq(Q, k + 1, Len(Q))
           IN  /\ R \in Seq(S) /\ Len(R) = Len(Q) - k /\ DOMAIN R = 1 .. (Len(Q) - k)
               /\ \A j \in 1 .. (Len(Q) - k) : R[j] = Q[k + j]
<1>1. Len(Q) \in Nat /\ DOMAIN Q = 1 .. Len(Q) /\ k \in Nat /\ k <= Len(Q)
  OBVIOUS
<1>2. \A j \in (k + 1) .. Len(Q) : Q[j] \in S
  BY <1>1
<1>3. PICK R : R = SubSeq(Q, k + 1, Len(Q))
  OBVIOUS
<1>4. /\ R \in Seq(S)
      /\ Len(R) = IF k + 1 <= Len(Q) THEN Len(Q) - (k + 1) + 1 ELSE 0
      /\ \A j \in 1 .. (Len(Q) - (k + 1) + 1) : R[j] = Q[k + 1 + j - 1]
  <2>1. k + 1 \in Int /\ Len(Q) \in Int
    BY <1>1
  <2> QED BY <2>1, <1>2, <1>3, SubSeqProperties
<1>5. Len(R) = Len(Q) - k /\ Len(Q) - (k + 1) + 1 = Len(Q) - k
  <2>1. CASE k = Len(Q)
    <3>1. ~(k + 1 <= Len(Q))
      BY <1>1, <2>1
    <3> QED BY <1>1, <1>4, <2>1, <3>1
  <2>2. CASE k < Len(Q)
    <3>1. k + 1 <= Len(Q)
      BY <1>1, <2>2
    <3> QED BY <1>1, <1>4, <2>2, <3>1
  <2>3. k = Len(Q) \/ k < Len(Q)
    <3>1. \A m \in Nat : k <= m => k = m \/ k < m
      BY <1>1
    <3> QED BY <1>1, <3>1, Zenon
  <2> QED BY <2>1, <2>2, <2>3, Zenon
<1>6. \A j \in 1 .. (Len(Q) - k) : R[j] = Q[k + j]
  <2>1. TAKE j \in 1 .. (Len(Q) - k)
  <2>2. k + 1 + j - 1 = k + j
    BY <1>1
  <2> QED BY <1>4, <1>5, <2>2
<1>7. DOMAIN R = 1 .. (Len(Q) - k)
  BY <1>4, <1>5
<1> QED BY <1>3, <1>4, <1>5, <1>6, <1>7

\* The first k requests go to the kernel.
LEMMA PlaceSubmitted ==
    ASSUME NEW Q \in Seq(Request), NEW K \in SUBSET Request, NEW C \in Seq(Completion),
           NEW n \in Nat, OnePlace(Q, K, C, n), NEW k \in 0 .. Len(Q)
    PROVE  LET R == SubSeq(Q, k + 1, Len(Q))
               L == K \cup {Q[j] : j \in 1 .. k}
           IN  /\ OnePlace(R, L, C, n + k) /\ R \in Seq(Request) /\ L \subseteq Request
               /\ \A j \in DOMAIN R : k + j \in DOMAIN Q /\ R[j] = Q[k + j]
               /\ \A j \in DOMAIN Q : Q[j] \in L \/ \E m \in DOMAIN R : R[m] = Q[j]
               /\ k = Len(Q) => R = <<>>
<1> DEFINE R == SubSeq(Q, k + 1, Len(Q))
           L == K \cup {Q[j] : j \in 1 .. k}
           T == {Q[j].index : j \in 1 .. k}
<1>1. /\ Len(Q) \in Nat /\ DOMAIN Q = 1 .. Len(Q) /\ k \in Nat /\ k <= Len(Q)
      /\ \A j \in DOMAIN Q : Q[j] \in Request
  OBVIOUS
<1>2. /\ R \in Seq(Request) /\ Len(R) = Len(Q) - k /\ DOMAIN R = 1 .. (Len(Q) - k)
      /\ \A j \in 1 .. (Len(Q) - k) : R[j] = Q[k + j]
  BY RestOfQueue
<1>3. L \subseteq Request
  BY <1>1
<1> HIDE DEF R
<1>4. BusyIn(L, C) = BusyIn(K, C) \cup T
  BY DEF BusyIn
<1>5. n + k = Cardinality(BusyIn(L, C))
  <2>1. IsFiniteSet(BusyIn(K, C)) /\ Cardinality(BusyIn(K, C)) = n
    BY BusyFinite DEF OnePlace
  <2>2. IsFiniteSet(T) /\ Cardinality(T) = k
    BY PrefixSlots DEF OnePlace
  <2>3. BusyIn(K, C) \cap T = {}
    BY <1>1 DEF OnePlace
  <2>4. Cardinality(BusyIn(K, C) \cap T) = 0
    BY <2>3, FS_EmptySet, Zenon
  <2>5. Cardinality(BusyIn(K, C) \cup T)
          = Cardinality(BusyIn(K, C)) + Cardinality(T) - Cardinality(BusyIn(K, C) \cap T)
    BY <2>1, <2>2, FS_Union, Zenon
  <2> HIDE DEF T, L
  <2> QED BY <1>1, <1>4, <2>1, <2>2, <2>4, <2>5
<1>6. \A i, j \in DOMAIN R : R[i].index = R[j].index => i = j
  <2>1. TAKE i, j \in DOMAIN R
  <2>2. k + i \in DOMAIN Q /\ k + j \in DOMAIN Q /\ R[i] = Q[k + i] /\ R[j] = Q[k + j]
    <3>1. \A m \in 1 .. (Len(Q) - k) : k + m \in 1 .. Len(Q)
      BY <1>1
    <3> QED BY <1>1, <1>2, <3>1, Zenon
  <2>3. Q[k + i].index = Q[k + j].index => k + i = k + j
    BY <2>2 DEF OnePlace
  <2>4. k + i = k + j => i = j
    BY <1>1, <1>2
  <2> QED BY <2>2, <2>3, <2>4
<1>7. \A r, q \in L : r.index = q.index => r = q
  <2>1. \A r \in K, j \in DOMAIN Q : r.index # Q[j].index
    BY DEF OnePlace, BusyIn
  <2> QED BY <1>1, <2>1 DEF OnePlace
<1>8. \A j \in DOMAIN R : R[j].index \notin BusyIn(L, C)
  <2>1. TAKE j \in DOMAIN R
  <2>2. k + j \in DOMAIN Q /\ R[j] = Q[k + j]
    BY <1>1, <1>2
  <2>3. Q[k + j].index \notin BusyIn(K, C)
    BY <2>2 DEF OnePlace
  <2>4. Q[k + j].index \notin T
    <3>1. SUFFICES ASSUME NEW i \in 1 .. k PROVE Q[i].index # Q[k + j].index
      OBVIOUS
    <3>2. i \in DOMAIN Q /\ i # k + j
      BY <1>1, <1>2
    <3> QED BY <2>2, <3>2 DEF OnePlace
  <2> QED BY <1>4, <2>2, <2>3, <2>4
<1>9. \A r \in L, j \in DOMAIN C : r.index # C[j].index
  <2>1. \A i \in DOMAIN Q, j \in DOMAIN C : Q[i].index # C[j].index
    BY DEF OnePlace, BusyIn
  <2> QED BY <1>1, <2>1 DEF OnePlace
<1>10. \A j \in DOMAIN C, i \in DOMAIN C : C[j].index = C[i].index => j = i
  BY DEF OnePlace
<1>11. OnePlace(R, L, C, n + k)
  BY <1>5, <1>6, <1>7, <1>8, <1>9, <1>10, Zenon DEF OnePlace
<1>12. \A j \in DOMAIN Q : Q[j] \in L \/ \E m \in DOMAIN R : R[m] = Q[j]
  <2>1. TAKE j \in DOMAIN Q
  <2>2. CASE j <= k
    BY <1>1, <2>2
  <2>3. CASE j > k
    <3>1. j - k \in DOMAIN R /\ R[j - k] = Q[j]
      BY <1>1, <1>2, <2>3
    <3> QED BY <3>1
  <2> QED BY <1>1, <2>2, <2>3
<1>13. \A j \in DOMAIN R : k + j \in DOMAIN Q /\ R[j] = Q[k + j]
  BY <1>1, <1>2
<1>14. k = Len(Q) => R = <<>>
  BY <1>1, <1>2
<1> QED BY <1>2, <1>3, <1>11, <1>12, <1>13, <1>14 DEF R

\* The kernel completes a request.
LEMMA PlaceCompleted ==
    ASSUME NEW Q \in Seq(Request), NEW K \in SUBSET Request, NEW C \in Seq(Completion),
           NEW n, OnePlace(Q, K, C, n), NEW r \in K,
           NEW c \in Completion, c.index = r.index
    PROVE  /\ OnePlace(Q, K \ {r}, Append(C, c), n)
           /\ BusyIn(K \ {r}, Append(C, c)) = BusyIn(K, C)
<1>1. /\ Append(C, c) \in Seq(Completion) /\ DOMAIN Append(C, c) = 1 .. (Len(C) + 1)
      /\ Len(C) \in Nat /\ DOMAIN C = 1 .. Len(C)
      /\ \A k \in 1 .. Len(C) : Append(C, c)[k] = C[k]
      /\ Append(C, c)[Len(C) + 1] = c
  OBVIOUS
<1>2. BusyIn(K \ {r}, Append(C, c)) = BusyIn(K, C)
  <2>1. {Append(C, c)[k].index : k \in DOMAIN Append(C, c)}
          = {C[k].index : k \in DOMAIN C} \cup {r.index}
    BY <1>1
  <2> QED BY <2>1 DEF BusyIn
<1>3. \A j, k \in DOMAIN Append(C, c) :
          Append(C, c)[j].index = Append(C, c)[k].index => j = k
  BY <1>1 DEF OnePlace
<1>4. \A q \in K \ {r}, k \in DOMAIN Append(C, c) : q.index # Append(C, c)[k].index
  BY <1>1 DEF OnePlace
<1> QED BY <1>2, <1>3, <1>4 DEF OnePlace

-----------------------------------------------------------------------------
(* What a change of one slot, of the queues or of the target leaves right. *)

\* A slot with new values of its cursors.
Slotted(s, q, p, f) == [s EXCEPT !.sequence = q, !.progress = p, !.phase = f]
Cursors(q, p, f) ==
    q \in Nat /\ p \in 0 .. ChunkSize /\ f \in {"Free", "Reading", "Ready", "Writing"}

\* Only those change.
LEMMA SlotUpdated ==
    ASSUME NEW s \in Slot, NEW q, NEW p, NEW f, Cursors(q, p, f)
    PROVE  /\ Slotted(s, q, p, f) \in Slot /\ Slotted(s, q, p, f).sequence = q
           /\ Slotted(s, q, p, f).progress = p /\ Slotted(s, q, p, f).phase = f
           /\ Slotted(s, q, p, f).bytes = s.bytes
<1>1. PICK a \in Slot : a = [s EXCEPT !.sequence = q] /\ a.sequence = q /\ a.bytes = s.bytes
  <2>1. [s EXCEPT !.sequence = q] \in Slot
    BY DEF Slot, Cursors
  <2> QED BY <2>1 DEF Slot
<1>2. PICK b \in Slot : b = [a EXCEPT !.progress = p] /\ b.progress = p /\ b.sequence = q
                        /\ b.bytes = s.bytes
  <2>1. [a EXCEPT !.progress = p] \in Slot
    BY DEF Slot, Cursors
  <2> QED BY <1>1, <2>1 DEF Slot
<1>3. PICK x \in Slot : x = [b EXCEPT !.phase = f] /\ x.phase = f /\ x.progress = p
                        /\ x.sequence = q /\ x.bytes = s.bytes
  <2>1. [b EXCEPT !.phase = f] \in Slot
    BY DEF Slot, Cursors
  <2> QED BY <1>2, <2>1 DEF Slot
<1>4. Slotted(s, q, p, f) = x
  BY <1>1, <1>2, <1>3, Zenon DEF Slotted
<1> QED BY <1>3, <1>4

\* A slot that waits or is free has no request.
LEMMA QuietUnused ==
    ASSUME NEW S, NEW Q, NEW K, NEW C, NEW c, NEW z, RequestsRight(S, Q, K, C, c, z),
           NEW i, S[i].phase \in {"Free", "Ready"}
    PROVE  i \notin Used(Q, K, C)
<1>1. \A w : Phase(w) \notin {"Free", "Ready"}
  BY DEF Phase
<1>2. \A k \in DOMAIN Q : Q[k].index # i
  BY <1>1 DEF RequestsRight, ForSlot
<1>3. \A r \in K : r.index # i
  BY <1>1 DEF RequestsRight, ForSlot
<1>4. \A k \in DOMAIN C : C[k].index # i
  BY <1>1 DEF RequestsRight, OfSlot
<1> QED BY <1>2, <1>3, <1>4 DEF Used, BusyIn

\* A slot without a request may change.
LEMMA UpdateKeeps ==
    ASSUME NEW S, NEW i \in DOMAIN S, NEW x, NEW Q, NEW K, NEW C, NEW c, NEW z,
           NEW t, NEW h, NEW e, NEW T, T = [S EXCEPT ![i] = x],
           i \notin Used(Q, K, C), RequestsRight(S, Q, K, C, c, z),
           CompletedRight(S, C, t, h, c, e)
    PROVE  RequestsRight(T, Q, K, C, c, z) /\ CompletedRight(T, C, t, h, c, e)
<1>1. DOMAIN T = DOMAIN S /\ \A j \in DOMAIN S : j # i => T[j] = S[j]
  OBVIOUS
<1>2. \A k \in DOMAIN Q : Q[k].index # i
  BY DEF Used
<1>3. \A r \in K : r.index # i
  BY DEF Used, BusyIn
<1>4. \A k \in DOMAIN C : C[k].index # i
  BY DEF Used, BusyIn
<1>5. \A r : ForSlot(S, c, z, r) /\ r.index # i => ForSlot(T, c, z, r)
  BY <1>1 DEF ForSlot
<1>6. \A d : OfSlot(S, c, z, d) /\ d.index # i => OfSlot(T, c, z, d)
  BY <1>1 DEF OfSlot
<1>7. RequestsRight(T, Q, K, C, c, z)
  BY <1>2, <1>3, <1>4, <1>5, <1>6 DEF RequestsRight
<1>8. \A k \in DOMAIN C : T[C[k].index] = S[C[k].index]
  BY <1>1, <1>4 DEF RequestsRight, OfSlot
<1> QED BY <1>7, <1>8 DEF CompletedRight

\* A request is prepared.
LEMMA PrepareKeeps ==
    ASSUME NEW S, NEW Q \in Seq(Request), NEW K, NEW C, NEW c, NEW z, NEW r \in Request,
           NEW R, R = Append(Q, r), RequestsRight(S, Q, K, C, c, z), ForSlot(S, c, z, r)
    PROVE  RequestsRight(S, R, K, C, c, z)
<1>1. /\ DOMAIN Append(Q, r) = 1 .. (Len(Q) + 1) /\ Len(Q) \in Nat /\ DOMAIN Q = 1 .. Len(Q)
      /\ \A k \in 1 .. Len(Q) : Append(Q, r)[k] = Q[k]
      /\ Append(Q, r)[Len(Q) + 1] = r
  OBVIOUS
<1>2. \A k \in DOMAIN Append(Q, r) :
          Append(Q, r)[k] = r \/ (k \in DOMAIN Q /\ Append(Q, r)[k] = Q[k])
  BY <1>1
<1> QED BY <1>2 DEF RequestsRight

\* The first completion is taken.
LEMMA TakeKeeps ==
    ASSUME NEW S, NEW Q, NEW K, NEW C \in Seq(Completion), C # <<>>,
           NEW c, NEW z, NEW t, NEW h, NEW e, RequestsRight(S, Q, K, C, c, z),
           CompletedRight(S, C, t, h, c, e)
    PROVE  /\ Tail(C) \in Seq(Completion) /\ Head(C) \in Completion
           /\ RequestsRight(S, Q, K, Tail(C), c, z)
           /\ CompletedRight(S, Tail(C), t, h, c, e)
           /\ OfSlot(S, c, z, Head(C)) /\ Brought(S[Head(C).index], Head(C), t, h, c, e)
<1>1. /\ Tail(C) \in Seq(Completion) /\ DOMAIN Tail(C) = 1 .. (Len(C) - 1)
      /\ Len(C) \in Nat \ {0} /\ DOMAIN C = 1 .. Len(C) /\ Head(C) = C[1]
      /\ Head(C) \in Completion
      /\ \A k \in 1 .. (Len(C) - 1) : Tail(C)[k] = C[k + 1]
  OBVIOUS
<1>2. \A k \in DOMAIN Tail(C) : k + 1 \in DOMAIN C /\ Tail(C)[k] = C[k + 1]
  BY <1>1
<1>3. 1 \in DOMAIN C
  BY <1>1
<1>4. RequestsRight(S, Q, K, Tail(C), c, z) /\ OfSlot(S, c, z, Head(C))
  BY <1>1, <1>2, <1>3 DEF RequestsRight
<1>5. CompletedRight(S, Tail(C), t, h, c, e)
  BY <1>2 DEF CompletedRight
<1>6. Brought(S[Head(C).index], Head(C), t, h, c, e)
  BY <1>1, <1>3 DEF CompletedRight
<1> QED BY <1>1, <1>4, <1>5, <1>6

\* What the other slots have to be when slot i changes.
OthersRight(S, i, m, g, z) == \A j \in DOMAIN S : j # i => SlotRight(S[j], m, g, z)
OthersElse(S, i, q) ==
    \A j \in DOMAIN S : j # i /\ S[j].phase # "Free" => S[j].sequence # q

\* The chunks in the slots after a change of one of them.
LEMMA SlotsAfter ==
    ASSUME NEW S, NEW i \in DOMAIN S, NEW x, NEW n, NEW h, NEW m, NEW g, NEW z,
           NEW T, T = [S EXCEPT ![i] = x],
           SlotsRight(S, n, h, z), g <= m, m <= Chunks(z), SlotRight(x, m, g, z),
           OthersRight(S, i, m, g, z), x.phase # "Free" => OthersElse(S, i, x.sequence)
    PROVE  SlotsRight(T, m, g, z)
<1>1. DOMAIN T = DOMAIN S /\ T[i] = x /\ \A j \in DOMAIN S : j # i => T[j] = S[j]
  OBVIOUS
<1>2. \A j \in DOMAIN T : SlotRight(T[j], m, g, z)
  BY <1>1 DEF OthersRight
<1>3. ASSUME NEW j \in DOMAIN T, NEW k \in DOMAIN T, T[j].phase # "Free",
             T[k].phase # "Free", T[j].sequence = T[k].sequence
      PROVE  j = k
  <2>1. CASE j = i
    BY <1>1, <1>3, <2>1 DEF OthersElse
  <2>2. CASE k = i
    BY <1>1, <1>3, <2>2 DEF OthersElse
  <2>3. CASE j # i /\ k # i
    BY <1>1, <1>3, <2>3 DEF SlotsRight
  <2> QED BY <2>1, <2>2, <2>3
<1> QED BY <1>2, <1>3 DEF SlotsRight

\* The buffers after a change of one slot.
LEMMA BytesAfter ==
    ASSUME NEW S, NEW i \in DOMAIN S, NEW x, NEW t, NEW h, NEW c, NEW e, NEW z,
           NEW T, T = [S EXCEPT ![i] = x],
           BytesRight(S, t, h, c, e, z), BytesOf(x, t, h, c, e, z)
    PROVE  BytesRight(T, t, h, c, e, z)
<1>1. DOMAIN T = DOMAIN S /\ T[i] = x /\ \A j \in DOMAIN S : j # i => T[j] = S[j]
  OBVIOUS
<1> QED BY <1>1 DEF BytesRight

\* A chunk is in the target.
ChunkStored(t, h, z, q) ==
    \A p \in Offset(q) .. (Offset(q) + ChunkLen(z, q) - 1) : OnTarget(t, h, p)

\* A slot that is not writing, or goes on writing its chunk, or has written it, may change.
LEMMA HashedAfter ==
    ASSUME NEW S, NEW i \in DOMAIN S, NEW x, NEW t, NEW h, NEW n, NEW z,
           NEW T, T = [S EXCEPT ![i] = x], HashedRight(S, t, h, n, z),
           \/ S[i].phase # "Writing"
           \/ x.phase = "Writing" /\ x.sequence = S[i].sequence
           \/ ChunkStored(t, h, z, S[i].sequence)
    PROVE  HashedRight(T, t, h, n, z)
<1>1. DOMAIN T = DOMAIN S /\ T[i] = x /\ \A j \in DOMAIN S : j # i => T[j] = S[j]
  OBVIOUS
<1>2. ASSUME NEW q \in 0 .. (n - 1), Written(T, q) PROVE ChunkStored(t, h, z, q)
  <2>1. CASE Written(S, q)
    BY <2>1 DEF HashedRight, ChunkStored
  <2>2. CASE ~Written(S, q)
    <3>1. PICK j \in DOMAIN S : S[j].phase = "Writing" /\ S[j].sequence = q
      BY <2>2 DEF Written
    <3>2. j = i
      BY <1>1, <1>2, <3>1 DEF Written
    <3>3. ~(x.phase = "Writing" /\ x.sequence = q)
      BY <1>1, <1>2 DEF Written
    <3> QED BY <3>1, <3>2, <3>3
  <2> QED BY <2>1, <2>2
<1> QED BY <1>2 DEF HashedRight, ChunkStored

\* More is in the target, or more is hashed: what was stored stays stored.
LEMMA StoredStays ==
    ASSUME NEW t, NEW h, NEW t2, NEW h2,
           \A p \in Nat : OnTarget(t, h, p) => OnTarget(t2, h2, p),
           NEW s, s.sequence \in Nat, NEW n, Stored(s, t, h, n)
    PROVE  Stored(s, t2, h2, n)
<1>1. Offset(s.sequence) \in Nat
  BY OffsetSteps
<1>2. \A k \in 1 .. ChunkSize : Offset(s.sequence) + k - 1 \in Nat
  BY <1>1, CopyAssumption
<1> QED BY <1>2 DEF Stored

\* So what the completions have moved stays right.
LEMMA CompletedStays ==
    ASSUME NEW S, NEW C, NEW c, NEW e, NEW t, NEW h, NEW t2, NEW h2,
           \A p \in Nat : OnTarget(t, h, p) => OnTarget(t2, h2, p),
           \A j \in DOMAIN C : S[C[j].index].sequence \in Nat,
           CompletedRight(S, C, t, h, c, e)
    PROVE  CompletedRight(S, C, t2, h2, c, e)
<1>1. SUFFICES ASSUME NEW j \in DOMAIN C
               PROVE  Brought(S[C[j].index], C[j], t2, h2, c, e)
  BY DEF CompletedRight
<1>2. Brought(S[C[j].index], C[j], t, h, c, e)
  BY DEF CompletedRight
<1>3. CASE C[j].write
  <2>1. Stored(S[C[j].index], t, h, S[C[j].index].progress + C[j].res)
    BY <1>2, <1>3 DEF Brought
  <2>2. Stored(S[C[j].index], t2, h2, S[C[j].index].progress + C[j].res)
    BY <2>1, StoredStays
  <2> QED BY <1>3, <2>2 DEF Brought
<1>4. CASE ~C[j].write
  BY <1>2, <1>4 DEF Brought
<1> QED BY <1>3, <1>4

\* And the buffers.
LEMMA BytesStay ==
    ASSUME NEW s, s.sequence \in Nat, NEW c, NEW e, NEW z, NEW t, NEW h, NEW t2, NEW h2,
           \A p \in Nat : OnTarget(t, h, p) => OnTarget(t2, h2, p),
           s.phase = "Writing" => \A k \in 1 .. ChunkSize : k <= ChunkLen(z, s.sequence) =>
               h2[Offset(s.sequence) + k] = h[Offset(s.sequence) + k],
           BytesOf(s, t, h, c, e, z)
    PROVE  BytesOf(s, t2, h2, c, e, z)
<1>1. s.phase = "Writing" => Stored(s, t2, h2, s.progress)
  BY StoredStays DEF BytesOf
<1> QED BY <1>1 DEF BytesOf

-----------------------------------------------------------------------------
(* The invariant while the loop runs.                                      *)

\* The parts of the invariant, with what they say of the chunks in the slots.
LEMMA LoopFacts ==
    ASSUME CopyInv, pc \in Looping
    PROVE  /\ EngineTypes /\ CleanOK /\ LoopOK /\ OrderOK /\ OkMatchesSource
           /\ OnePlace(sq, kernel, cq, in_flight)
           /\ RequestsRight(slots, sq, kernel, cq, copy, size)
           /\ ~failure => Served(slots, sq, kernel, cq)
           /\ SlotsRight(slots, next_read, next_hash, size)
           /\ BytesRight(slots, target, hashed, copy, edited, size)
           /\ CompletedRight(slots, cq, target, hashed, copy, edited)
           /\ HashedRight(slots, target, hashed, next_hash, size)
           /\ size \in Nat /\ copy \in 1 .. MaxCopies /\ copy \in Nat /\ ring = "open"
           /\ ChunkCount = Chunks(size) /\ SlotCount = SlotsOf(size)
           /\ \A q : Length(q) = ChunkLen(size, q)
           /\ Chunks(size) \in Nat /\ SlotsOf(size) \in 0 .. QueueDepth
           /\ SlotsOf(size) <= Chunks(size)
           /\ slots \in [0 .. (SlotsOf(size) - 1) -> Slot]
           /\ DOMAIN slots = 0 .. (SlotsOf(size) - 1)
           /\ DOMAIN slots \subseteq 0 .. (QueueDepth - 1)
           /\ \A i \in DOMAIN slots : slots[i] \in Slot /\ slots[i].sequence \in Nat
<1>1. /\ EngineTypes /\ CleanOK /\ LoopOK /\ OrderOK /\ OkMatchesSource
      /\ OnePlace(sq, kernel, cq, in_flight)
      /\ RequestsRight(slots, sq, kernel, cq, copy, size)
      /\ ~failure => Served(slots, sq, kernel, cq)
      /\ SlotsRight(slots, next_read, next_hash, size)
      /\ BytesRight(slots, target, hashed, copy, edited, size)
      /\ CompletedRight(slots, cq, target, hashed, copy, edited)
      /\ HashedRight(slots, target, hashed, next_hash, size)
  BY DEF CopyInv, LoopInv
<1>2. /\ size \in Nat /\ copy \in 1 .. MaxCopies /\ ring = "open"
      /\ slots \in [0 .. (SlotsOf(size) - 1) -> Slot]
  BY <1>1 DEF EngineTypes, Looping
<1>3. ChunkCount = Chunks(size) /\ SlotCount = SlotsOf(size)
  BY DEF ChunkCount, Chunks, SlotCount, SlotsOf
<1>4. \A q : Length(q) = ChunkLen(size, q)
  BY DEF Length, ChunkLen
<1>5. /\ Chunks(size) \in Nat /\ SlotsOf(size) \in 0 .. QueueDepth
      /\ SlotsOf(size) <= Chunks(size)
  BY <1>2, ChunksOfSize
<1>6. /\ DOMAIN slots = 0 .. (SlotsOf(size) - 1)
      /\ DOMAIN slots \subseteq 0 .. (QueueDepth - 1)
      /\ copy \in Nat
  BY <1>2, <1>5, CopyAssumption
<1>7. \A i \in DOMAIN slots : slots[i] \in Slot
  BY <1>2, <1>6
<1>8. \A s \in Slot : s.sequence \in Nat
  BY DEF Slot
<1> QED BY <1>1, <1>2, <1>3, <1>4, <1>5, <1>6, <1>7, <1>8

\* The chunk in a slot that is not free.
LEMMA ChunkInSlot ==
    ASSUME CopyInv, pc \in Looping, NEW i \in DOMAIN slots, slots[i].phase # "Free"
    PROVE  /\ slots[i].sequence \in Nat /\ slots[i].sequence < next_read
           /\ slots[i].sequence < Chunks(size)
           /\ Offset(slots[i].sequence) \in Nat
           /\ ChunkLen(size, slots[i].sequence) \in 1 .. ChunkSize
           /\ Offset(slots[i].sequence) + ChunkLen(size, slots[i].sequence) <= size
<1>1. /\ size \in Nat /\ Chunks(size) \in Nat /\ slots[i].sequence \in Nat
      /\ SlotsRight(slots, next_read, next_hash, size) /\ EngineTypes
  BY LoopFacts
<1>2. slots[i].sequence < next_read /\ next_read <= Chunks(size) /\ next_read \in Nat
  BY <1>1 DEF SlotsRight, SlotRight, EngineTypes
<1>3. slots[i].sequence < Chunks(size)
  BY <1>1, <1>2
<1> QED BY <1>1, <1>2, <1>3, ChunkLength

\* The queues are in their sets.
LEMMA QueueTypes ==
    ASSUME CopyInv
    PROVE  /\ sq \in Seq(Request) /\ kernel \in SUBSET Request /\ cq \in Seq(Completion)
           /\ next_read \in Nat /\ next_hash \in Nat /\ in_flight \in Nat
           /\ failure \in BOOLEAN /\ hashed \in Seq(Unit) /\ DOMAIN target \subseteq Nat
           /\ Len(hashed) \in Nat /\ DOMAIN hashed = 1 .. Len(hashed)
<1>1. EngineTypes
  BY DEF CopyInv
<1> QED BY <1>1 DEF EngineTypes

\* What submit_request leaves right when it puts x into slot i, which has no request; C is
\* the completion queue the step leaves.
LEMMA SubmitKeeps ==
    ASSUME CopyInv, pc \in Looping, NEW i \in DOMAIN slots, NEW x \in Slot,
           NEW write \in BOOLEAN, x.phase = Phase(write),
           x.sequence < Chunks(size), x.progress < ChunkLen(size, x.sequence),
           slots' = [slots EXCEPT ![i] = x],
           sq' = Append(sq, [copy |-> copy, index |-> i, write |-> write,
                             data |-> x.progress, offset |-> Offset(x.sequence) + x.progress,
                             remaining |-> Length(x.sequence) - x.progress]),
           NEW C \in Seq(Completion), NEW n, i \notin Used(sq, kernel, C),
           OnePlace(sq, kernel, C, n), RequestsRight(slots, sq, kernel, C, copy, size),
           CompletedRight(slots, C, target, hashed, copy, edited)
    PROVE  /\ slots' \in [0 .. (SlotsOf(size) - 1) -> Slot] /\ sq' \in Seq(Request)
           /\ OnePlace(sq', kernel, C, n)
           /\ RequestsRight(slots', sq', kernel, C, copy, size)
           /\ CompletedRight(slots', C, target, hashed, copy, edited)
           /\ Used(sq', kernel, C) = Used(sq, kernel, C) \cup {i}
<1> DEFINE q == [copy |-> copy, index |-> i, write |-> write, data |-> x.progress,
                 offset |-> Offset(x.sequence) + x.progress,
                 remaining |-> Length(x.sequence) - x.progress]
<1>1. /\ copy \in 1 .. MaxCopies /\ size \in Nat
      /\ Length(x.sequence) = ChunkLen(size, x.sequence)
      /\ slots \in [0 .. (SlotsOf(size) - 1) -> Slot]
      /\ DOMAIN slots = 0 .. (SlotsOf(size) - 1)
      /\ DOMAIN slots \subseteq 0 .. (QueueDepth - 1)
  BY LoopFacts
<1>2. x.sequence \in Nat /\ x.progress \in 0 .. ChunkSize
  BY DEF Slot
<1>3. /\ ChunkLen(size, x.sequence) \in 1 .. ChunkSize /\ Offset(x.sequence) \in Nat
  BY <1>1, <1>2, ChunkLength
<1>4. PICK r : r = q
  OBVIOUS
<1>5. /\ r.copy = copy /\ r.index = i /\ r.write = write /\ r.data = x.progress
      /\ r.offset = Offset(x.sequence) + x.progress
      /\ r.remaining = ChunkLen(size, x.sequence) - x.progress
  BY <1>1, <1>4
<1>6. r \in Request
  <2>1. /\ x.progress \in 0 .. ChunkSize /\ Offset(x.sequence) + x.progress \in Nat
        /\ ChunkLen(size, x.sequence) - x.progress \in 1 .. ChunkSize
    BY <1>2, <1>3, CopyAssumption
  <2>2. i \in 0 .. (QueueDepth - 1)
    BY <1>1
  <2> QED BY <1>1, <1>4, <2>1, <2>2 DEF Request
<1>7. slots' = [slots EXCEPT ![i] = x] /\ sq' = Append(sq, r)
  BY <1>4
<1> HIDE DEF q
<1>8. /\ slots' \in [0 .. (SlotsOf(size) - 1) -> Slot] /\ i \in DOMAIN slots'
      /\ slots'[i] = x
  BY <1>1, <1>7
<1>9. sq \in Seq(Request) /\ kernel \in SUBSET Request
  BY QueueTypes
<1>10. /\ RequestsRight(slots', sq, kernel, C, copy, size)
       /\ CompletedRight(slots', C, target, hashed, copy, edited)
  BY <1>7, UpdateKeeps
<1>11. ForSlot(slots', copy, size, r)
  BY <1>5, <1>8 DEF ForSlot
<1>12. /\ RequestsRight(slots', sq', kernel, C, copy, size)
       /\ Used(sq', kernel, C) = Used(sq, kernel, C) \cup {i}
  <2>1. RequestsRight(slots', sq', kernel, C, copy, size)
    BY <1>6, <1>7, <1>9, <1>10, <1>11, PrepareKeeps
  <2>2. Used(sq', kernel, C) = Used(sq, kernel, C) \cup {r.index}
    <3>1. /\ DOMAIN sq' = 1 .. (Len(sq) + 1) /\ Len(sq) \in Nat /\ DOMAIN sq = 1 .. Len(sq)
          /\ \A k \in 1 .. Len(sq) : sq'[k] = sq[k]
          /\ sq'[Len(sq) + 1] = r
      BY <1>7, <1>9
    <3>2. \A k \in DOMAIN sq' : sq'[k] = r \/ (k \in DOMAIN sq /\ sq'[k] = sq[k])
      BY <3>1
    <3>3. \A k \in DOMAIN sq : k \in DOMAIN sq' /\ sq'[k] = sq[k]
      BY <3>1
    <3>4. \E k \in DOMAIN sq' : sq'[k] = r
      BY <3>1
    <3>5. {sq'[k].index : k \in DOMAIN sq'} = {sq[k].index : k \in DOMAIN sq} \cup {r.index}
      BY <3>2, <3>3, <3>4, Zenon
    <3> QED BY <3>5 DEF Used
  <2> QED BY <1>5, <2>1, <2>2
<1>13. OnePlace(sq', kernel, C, n)
  <2>1. r.index \notin BusyIn(kernel, C) /\ \A k \in DOMAIN sq : sq[k].index # r.index
    BY <1>5 DEF Used
  <2> QED BY <1>6, <1>7, <1>9, <2>1, PlacePrepared
<1>14. sq' \in Seq(Request)
  BY <1>6, <1>7, <1>9
<1> QED BY <1>8, <1>10, <1>12, <1>13, <1>14

-----------------------------------------------------------------------------
(* The steps of the loop.                                                  *)

\* What a step of the loop that stays in it has to keep.
LEMMA LoopStep ==
    ASSUME CopyInv, pc \in Looping, pc' \in Looping, EngineTypes', LoopInv',
           OrderOK', OkMatchesSource', orphans' = orphans, waitFailed' = waitFailed
    PROVE  CopyInv'
<1>1. CleanOK
  BY DEF CopyInv
<1>2. CleanOK'
  BY <1>1 DEF CleanOK
<1> QED BY <1>2 DEF CopyInv

\* The source, the hashes and the result are untouched.
LEMMA OrderStays ==
    ASSUME CopyInv, pc \in Looping, pc' \in Looping,
           UNCHANGED <<copy, size, source, edited, hashed, result>>
    PROVE  OrderOK' /\ OkMatchesSource'
<1>1. OrderOK /\ OkMatchesSource
  BY DEF CopyInv
<1>2. OkMatchesSource'
  BY <1>1 DEF OkMatchesSource
<1>3. /\ \A k \in DOMAIN hashed : Good(copy, edited, hashed[k], k - 1)
      /\ ~edited => Len(source) = size /\ \A k \in DOMAIN source : source[k] = 0
      /\ result # "ok"
  BY <1>1 DEF OrderOK, Looping
<1>4. OrderOK'
  BY <1>3 DEF OrderOK, Looping
<1> QED BY <1>2, <1>4

\* The loop of the first reads.
LEMMA PrimeKeeps ==
    ASSUME CopyInv, Prime
    PROVE  CopyInv'
<1> DEFINE i == next_read
<1>1. /\ pc = "prime" /\ pc' = "prime" /\ pc \in Looping /\ pc' \in Looping
      /\ i < SlotCount
      /\ submit_request(i, next_read, 0, FALSE)
      /\ next_read' = next_read + 1
      /\ UNCHANGED <<copy, size, source, edited, edits, target, hashed, next_hash, completed,
                     bytes_copied, failure, in_flight, ring, kernel, cq, orphans, waitFailed,
                     result, faults>>
  BY DEF Prime, start_read, Looping, sourceVars
<1>2. /\ SlotCount = SlotsOf(size) /\ Chunks(size) \in Nat /\ SlotsOf(size) \in 0 .. QueueDepth
      /\ SlotsOf(size) <= Chunks(size)
      /\ DOMAIN slots = 0 .. (SlotsOf(size) - 1) /\ size \in Nat
      /\ EngineTypes /\ LoopOK /\ OnePlace(sq, kernel, cq, in_flight)
      /\ RequestsRight(slots, sq, kernel, cq, copy, size)
      /\ ~failure => Served(slots, sq, kernel, cq)
      /\ SlotsRight(slots, next_read, next_hash, size)
      /\ BytesRight(slots, target, hashed, copy, edited, size)
      /\ CompletedRight(slots, cq, target, hashed, copy, edited)
      /\ HashedRight(slots, target, hashed, next_hash, size)
      /\ \A j \in DOMAIN slots : slots[j] \in Slot /\ slots[j].sequence \in Nat
  BY <1>1, LoopFacts
<1>3. next_read \in Nat /\ next_hash \in Nat /\ cq \in Seq(Completion)
  BY QueueTypes
<1>4. i \in DOMAIN slots /\ i < Chunks(size)
  BY <1>1, <1>2, <1>3
<1>5. slots[i].phase = "Free"
  BY <1>1, <1>2, <1>3, <1>4 DEF LoopOK
<1>6. PICK x : x = Slotted(slots[i], i, 0, "Reading")
  OBVIOUS
<1>7. x \in Slot /\ x.phase = "Reading" /\ x.sequence = i /\ x.progress = 0
  <2>1. slots[i] \in Slot /\ i \in Nat
    BY <1>2, <1>3, <1>4
  <2>2. Cursors(i, 0, "Reading")
    BY <2>1, CopyAssumption DEF Cursors
  <2> QED BY <1>6, <2>1, <2>2, SlotUpdated
<1>8. ChunkLen(size, i) \in 1 .. ChunkSize
  BY <1>2, <1>3, <1>4, ChunkLength
<1>9. i \notin Used(sq, kernel, cq)
  BY <1>2, <1>5, QuietUnused
<1>10. /\ slots' = [slots EXCEPT ![i] = x]
       /\ slots' \in [0 .. (SlotsOf(size) - 1) -> Slot] /\ sq' \in Seq(Request)
       /\ OnePlace(sq', kernel, cq, in_flight)
       /\ RequestsRight(slots', sq', kernel, cq, copy, size)
       /\ CompletedRight(slots', cq, target, hashed, copy, edited)
       /\ Used(sq', kernel, cq) = Used(sq, kernel, cq) \cup {i}
  <2>1. /\ slots' = [slots EXCEPT ![i] = x]
        /\ sq' = Append(sq, [copy |-> copy, index |-> i, write |-> FALSE,
                             data |-> x.progress, offset |-> Offset(x.sequence) + x.progress,
                             remaining |-> Length(x.sequence) - x.progress])
    BY <1>1, <1>6, <1>7 DEF submit_request, SetSlot, Slotted, Phase
  <2>2. x.phase = Phase(FALSE) /\ FALSE \in BOOLEAN
    BY <1>7 DEF Phase
  <2>3. x.sequence < Chunks(size) /\ x.progress < ChunkLen(size, x.sequence)
    BY <1>4, <1>7, <1>8
  <2> QED BY <1>1, <1>2, <1>3, <1>4, <1>7, <1>9, <2>1, <2>2, <2>3, SubmitKeeps
<1>11. EngineTypes'
  BY <1>1, <1>2, <1>3, <1>10 DEF EngineTypes
<1>12. LoopOK'
  <2>1. failure' = FALSE
    BY <1>1, <1>2, QueueTypes DEF LoopOK
  <2>2. next_read' <= SlotsOf(size')
    BY <1>1, <1>2, <1>3
  <2>3. ASSUME NEW j \in DOMAIN slots', j >= next_read' PROVE slots'[j].phase = "Free"
    <3>1. j \in DOMAIN slots /\ j # i /\ j >= next_read
      BY <1>1, <1>2, <1>3, <1>10, <2>3
    <3> QED BY <1>1, <1>2, <1>10, <3>1 DEF LoopOK
  <2> QED BY <1>1, <2>1, <2>2, <2>3 DEF LoopOK
<1>13. Served(slots', sq', kernel', cq')
  <2>1. Served(slots, sq, kernel, cq)
    BY <1>1, <1>2 DEF LoopOK
  <2>2. ASSUME NEW j \in DOMAIN slots', slots'[j].phase \in {"Reading", "Writing"}
        PROVE  j \in Used(sq', kernel, cq)
    BY <1>4, <1>10, <2>1, <2>2 DEF Served
  <2> QED BY <1>1, <2>2 DEF Served
<1>14. SlotsRight(slots', next_read', next_hash', size')
  <2>1. SlotRight(x, next_read + 1, next_hash, size)
    BY <1>2, <1>3, <1>8, <1>7 DEF SlotRight, SlotsRight
  <2>2. OthersRight(slots, i, next_read + 1, next_hash, size)
    BY <1>2, <1>3 DEF OthersRight, SlotRight, SlotsRight
  <2>3. OthersElse(slots, i, x.sequence)
    BY <1>2, <1>3, <1>7 DEF OthersElse, SlotRight, SlotsRight
  <2>4. next_hash <= next_read + 1 /\ next_read + 1 <= Chunks(size)
    BY <1>2, <1>3, <1>4 DEF SlotsRight
  <2>5. SlotsRight(slots', next_read + 1, next_hash, size)
    BY <1>2, <1>4, <1>10, <1>7, <2>1, <2>2, <2>3, <2>4, SlotsAfter
  <2> QED BY <1>1, <2>5
<1>15. BytesRight(slots', target', hashed', copy', edited', size')
  <2>1. BytesOf(x, target, hashed, copy, edited, size)
    BY <1>7 DEF BytesOf, Loaded
  <2>2. BytesRight(slots', target, hashed, copy, edited, size)
    BY <1>2, <1>4, <1>10, <2>1, BytesAfter
  <2> QED BY <1>1, <2>2
<1>16. HashedRight(slots', target', hashed', next_hash', size')
  <2>1. HashedRight(slots', target, hashed, next_hash, size)
    BY <1>2, <1>4, <1>5, <1>10, HashedAfter
  <2> QED BY <1>1, <2>1
<1>17. LoopInv'
  BY <1>1, <1>10, <1>12, <1>13, <1>14, <1>15, <1>16 DEF LoopInv
<1> QED BY <1>1, <1>11, <1>17, LoopStep, OrderStays

\* One turn of hash_ready: the chunk goes to the hasher, then its write is prepared.
LEMMA HashChunkKeeps ==
    ASSUME CopyInv, NEW i \in DOMAIN slots, HashChunk(i)
    PROVE  CopyInv'
<1> DEFINE q == next_hash
           L == ChunkLen(size, q)
<1>1. /\ pc = "hash" /\ pc' = "hash" /\ pc \in Looping /\ pc' \in Looping
      /\ next_hash < ChunkCount /\ slots[i].phase = "Ready" /\ slots[i].sequence = next_hash
      /\ hashed' = hashed \o SubSeq(slots[i].bytes, 1, Length(slots[i].sequence))
      /\ submit_request(i, slots[i].sequence, 0, TRUE) /\ next_hash' = next_hash + 1
      /\ UNCHANGED <<copy, size, source, edited, edits, target, next_read,
                     failure, in_flight, ring, kernel, cq, orphans, waitFailed, result, faults>>
  BY DEF HashChunk, NextReady, Looping, sourceVars
<1>2. /\ ChunkCount = Chunks(size) /\ Chunks(size) \in Nat /\ SlotsOf(size) \in 0 .. QueueDepth
      /\ Length(q) = L
      /\ DOMAIN slots = 0 .. (SlotsOf(size) - 1) /\ size \in Nat
      /\ EngineTypes /\ LoopOK /\ OnePlace(sq, kernel, cq, in_flight)
      /\ RequestsRight(slots, sq, kernel, cq, copy, size)
      /\ ~failure => Served(slots, sq, kernel, cq)
      /\ SlotsRight(slots, next_read, next_hash, size)
      /\ BytesRight(slots, target, hashed, copy, edited, size)
      /\ CompletedRight(slots, cq, target, hashed, copy, edited)
      /\ HashedRight(slots, target, hashed, next_hash, size)
      /\ \A j \in DOMAIN slots : slots[j] \in Slot /\ slots[j].sequence \in Nat
  BY <1>1, LoopFacts
<1>3. /\ next_read \in Nat /\ next_hash \in Nat /\ cq \in Seq(Completion)
      /\ hashed \in Seq(Unit) /\ Len(hashed) \in Nat /\ DOMAIN hashed = 1 .. Len(hashed)
      /\ DOMAIN target \subseteq Nat
  BY QueueTypes
<1>4. /\ q < Chunks(size) /\ q < next_read /\ L \in 1 .. ChunkSize /\ Offset(q) \in Nat
      /\ Offset(q) + L <= size /\ Len(hashed) = Offset(q)
      /\ Offset(q) + L = IF q + 1 < Chunks(size) THEN Offset(q + 1) ELSE size
  <2>1. q < Chunks(size)
    BY <1>1, <1>2
  <2>2. q < next_read
    BY <1>1, <1>2, <1>3 DEF SlotsRight, SlotRight
  <2>3. Len(hashed) = Offset(q)
    BY <1>2, <2>1 DEF HashedRight
  <2> QED BY <1>2, <1>3, <2>1, <2>2, <2>3, ChunkLength
<1> HIDE DEF L
<1>5. PICK x : x = Slotted(slots[i], q, 0, "Writing")
  OBVIOUS
<1>6. /\ x \in Slot /\ x.phase = "Writing" /\ x.sequence = q /\ x.progress = 0
      /\ x.bytes = slots[i].bytes
  <2>1. slots[i] \in Slot /\ q \in Nat
    BY <1>2, <1>3
  <2>2. Cursors(q, 0, "Writing")
    BY <2>1, CopyAssumption DEF Cursors
  <2>3. /\ Slotted(slots[i], q, 0, "Writing") \in Slot
        /\ Slotted(slots[i], q, 0, "Writing").sequence = q
        /\ Slotted(slots[i], q, 0, "Writing").progress = 0
        /\ Slotted(slots[i], q, 0, "Writing").phase = "Writing"
        /\ Slotted(slots[i], q, 0, "Writing").bytes = slots[i].bytes
    BY <2>1, <2>2, SlotUpdated
  <2> QED BY <1>5, <2>3
<1>7. /\ slots' = [slots EXCEPT ![i] = x]
      /\ slots' \in [0 .. (SlotsOf(size) - 1) -> Slot] /\ sq' \in Seq(Request)
      /\ OnePlace(sq', kernel, cq, in_flight)
      /\ RequestsRight(slots', sq', kernel, cq, copy, size)
      /\ CompletedRight(slots', cq, target, hashed, copy, edited)
      /\ Used(sq', kernel, cq) = Used(sq, kernel, cq) \cup {i}
  <2>1. /\ slots' = [slots EXCEPT ![i] = x]
        /\ sq' = Append(sq, [copy |-> copy, index |-> i, write |-> TRUE,
                             data |-> x.progress, offset |-> Offset(x.sequence) + x.progress,
                             remaining |-> Length(x.sequence) - x.progress])
    BY <1>1, <1>5, <1>6 DEF submit_request, SetSlot, Slotted, Phase
  <2>2. x.phase = Phase(TRUE) /\ TRUE \in BOOLEAN
    BY <1>6 DEF Phase
  <2>3. x.sequence < Chunks(size) /\ x.progress < ChunkLen(size, x.sequence)
    BY <1>4, <1>6 DEF L
  <2>4. i \notin Used(sq, kernel, cq)
    BY <1>1, <1>2, QuietUnused
  <2> QED BY <1>1, <1>2, <1>3, <1>6, <2>1, <2>2, <2>3, <2>4, SubmitKeeps
<1>8. /\ DOMAIN slots' = DOMAIN slots /\ slots'[i] = x
      /\ \A j \in DOMAIN slots : j # i => slots'[j] = slots[j]
  BY <1>7
<1>9. /\ hashed' \in Seq(Unit) /\ Len(hashed') = Len(hashed) + L
      /\ DOMAIN hashed' = 1 .. (Len(hashed) + L)
      /\ \A k \in 1 .. Len(hashed) : hashed'[k] = hashed[k]
      /\ \A k \in 1 .. L : hashed'[Len(hashed) + k] = x.bytes[k]
  <2>1. PICK u : u = SubSeq(x.bytes, 1, L)
    OBVIOUS
  <2>2. x.bytes \in [1 .. ChunkSize -> Unit]
    BY <1>6 DEF Slot
  <2>3. u \in Seq(Unit) /\ Len(u) = L /\ \A k \in 1 .. L : u[k] = x.bytes[k]
    <3>1. \A k \in 1 .. L : x.bytes[k] \in Unit
      BY <1>4, <2>2, CopyAssumption
    <3>2. 1 \in Int /\ L \in Int /\ 1 <= L /\ L - 1 + 1 = L /\ \A k \in 1 .. L : 1 + k - 1 = k
      BY <1>4
    <3> QED BY <2>1, <3>1, <3>2, SubSeqProperties
  <2>4. hashed' = hashed \o u
    BY <1>1, <1>2, <1>6, <2>1
  <2>5. /\ hashed' \in Seq(Unit) /\ Len(hashed') = Len(hashed) + Len(u)
        /\ \A k \in 1 .. (Len(hashed) + Len(u)) :
              hashed'[k] = IF k <= Len(hashed) THEN hashed[k] ELSE u[k - Len(hashed)]
    BY <1>3, <2>3, <2>4, ConcatProperties
  <2>6. \A k \in 1 .. Len(hashed) : hashed'[k] = hashed[k]
    BY <1>3, <1>4, <2>3, <2>5
  <2>7. ASSUME NEW k \in 1 .. L PROVE hashed'[Len(hashed) + k] = x.bytes[k]
    <3>1. /\ Len(hashed) + k \in 1 .. (Len(hashed) + Len(u))
          /\ ~(Len(hashed) + k <= Len(hashed))
          /\ Len(hashed) + k - Len(hashed) = k
      BY <1>3, <1>4, <2>3
    <3> QED BY <2>3, <2>5, <3>1
  <2> QED BY <2>3, <2>5, <2>6, <2>7
<1>10. \A p \in Nat : OnTarget(target, hashed, p) => OnTarget(target, hashed', p)
  <2>1. SUFFICES ASSUME NEW p \in DOMAIN target PROVE hashed'[p + 1] = hashed[p + 1]
    BY DEF OnTarget
  <2>2. p \in 0 .. (Len(hashed) - 1)
    BY <1>2 DEF HashedRight
  <2>3. p + 1 \in 1 .. Len(hashed)
    BY <1>3, <2>2
  <2> QED BY <1>9, <2>3
<1>11. EngineTypes'
  <2>1. hashed' \in Seq(Unit) /\ next_hash' \in Nat
    BY <1>1, <1>3, <1>9
  <2> QED BY <1>1, <1>2, <1>7, <2>1 DEF EngineTypes
<1>12. LoopOK' /\ ~failure
  BY <1>1, <1>2 DEF LoopOK
<1>13. Served(slots', sq', kernel', cq')
  <2>1. ASSUME NEW j \in DOMAIN slots', slots'[j].phase \in {"Reading", "Writing"}
        PROVE  j \in Used(sq', kernel, cq)
    BY <1>2, <1>7, <1>8, <1>12, <2>1 DEF Served
  <2> QED BY <1>1, <2>1 DEF Served
<1>14. SlotsRight(slots', next_read', next_hash', size')
  <2>1. SlotRight(x, next_read, q + 1, size)
    BY <1>3, <1>4, <1>6 DEF SlotRight, L
  <2>2. OthersElse(slots, i, x.sequence)
    BY <1>1, <1>2, <1>6 DEF OthersElse, SlotsRight
  <2>3. OthersRight(slots, i, next_read, q + 1, size)
    <3>1. SUFFICES ASSUME NEW j \in DOMAIN slots, j # i
                   PROVE  SlotRight(slots[j], next_read, q + 1, size)
      BY DEF OthersRight
    <3>2. SlotRight(slots[j], next_read, q, size) /\ slots[j].sequence \in Nat
      BY <1>2 DEF SlotsRight
    <3>3. slots[j].phase # "Free" => slots[j].sequence # q
      BY <1>6, <2>2, <3>1 DEF OthersElse
    <3> QED BY <1>3, <3>2, <3>3 DEF SlotRight
  <2>4. q + 1 <= next_read /\ next_read <= Chunks(size)
    BY <1>2, <1>3, <1>4 DEF SlotsRight
  <2>5. SlotsRight(slots', next_read, q + 1, size)
    BY <1>2, <1>7, <2>1, <2>2, <2>3, <2>4, SlotsAfter
  <2> QED BY <1>1, <2>5
<1>15. BytesRight(slots', target', hashed', copy', edited', size')
  <2>1. BytesOf(x, target, hashed', copy, edited, size)
    <3>1. Stored(x, target, hashed', 0)
      BY DEF Stored
    <3>2. \A k \in 1 .. ChunkSize : k <= L => x.bytes[k] = hashed'[Offset(q) + k]
      BY <1>4, <1>9, CopyAssumption
    <3> QED BY <1>6, <3>1, <3>2 DEF BytesOf, L
  <2>2. ASSUME NEW j \in DOMAIN slots, j # i
        PROVE  BytesOf(slots[j], target, hashed', copy, edited, size)
    <3>1. slots[j].sequence \in Nat /\ BytesOf(slots[j], target, hashed, copy, edited, size)
      BY <1>2 DEF BytesRight
    <3>2. ASSUME slots[j].phase = "Writing", NEW k \in 1 .. ChunkSize,
                 k <= ChunkLen(size, slots[j].sequence)
          PROVE  hashed'[Offset(slots[j].sequence) + k] = hashed[Offset(slots[j].sequence) + k]
      <4>1. slots[j].sequence < q
        BY <1>2, <3>2 DEF SlotsRight, SlotRight
      <4>2. /\ Offset(slots[j].sequence) \in Nat
            /\ Offset(slots[j].sequence) + ChunkSize <= Offset(q)
        BY <1>3, <3>1, <4>1, OffsetSteps, OffsetsApart
      <4>3. Offset(slots[j].sequence) + k \in 1 .. Len(hashed)
        BY <1>4, <4>2, CopyAssumption
      <4> QED BY <1>9, <4>3
    <3> QED BY <1>10, <3>1, <3>2, BytesStay
  <2> QED BY <1>1, <1>8, <2>1, <2>2 DEF BytesRight
<1>16. CompletedRight(slots', cq', target', hashed', copy', edited')
  <2>1. \A j \in DOMAIN cq : slots'[cq[j].index].sequence \in Nat
    <3>1. \A j \in DOMAIN cq : cq[j].index \in DOMAIN slots'
      BY <1>7 DEF RequestsRight, OfSlot
    <3>2. \A j \in DOMAIN slots' : slots'[j].sequence \in Nat
      BY <1>2, <1>3, <1>6, <1>8
    <3> QED BY <3>1, <3>2
  <2>2. CompletedRight(slots', cq, target, hashed', copy, edited)
    BY <1>7, <1>10, <2>1, CompletedStays
  <2> QED BY <1>1, <2>2
<1>17. HashedRight(slots', target', hashed', next_hash', size')
  <2>0. PICK m \in Nat : m = q + 1
    BY <1>3
  <2>1. Len(hashed') = IF m < Chunks(size) THEN Offset(m) ELSE size
    BY <1>4, <1>9, <2>0
  <2>2. DOMAIN target \subseteq 0 .. (Len(hashed') - 1)
    <3>1. DOMAIN target \subseteq 0 .. (Len(hashed) - 1)
      BY <1>2 DEF HashedRight
    <3>2. 0 .. (Len(hashed) - 1) \subseteq 0 .. (Len(hashed') - 1)
      BY <1>3, <1>4, <1>9
    <3> QED BY <3>1, <3>2, Zenon
  <2>3. ASSUME NEW g \in 0 .. (m - 1), Written(slots', g),
               NEW p \in Offset(g) .. (Offset(g) + ChunkLen(size, g) - 1)
        PROVE  OnTarget(target, hashed', p)
    <3>1. g # q
      BY <1>6, <1>8, <2>3 DEF Written
    <3>2. g \in 0 .. (q - 1) /\ g \in Nat /\ Offset(g) \in Nat
      BY <1>3, <2>0, <3>1, OffsetSteps
    <3>3. Written(slots, g)
      BY <1>1, <1>8, <2>3 DEF Written
    <3>4. OnTarget(target, hashed, p) /\ p \in Nat
      BY <1>2, <3>2, <3>3 DEF HashedRight
    <3> QED BY <1>10, <3>4
  <2>4. HashedRight(slots', target, hashed', m, size)
    BY <2>1, <2>2, <2>3 DEF HashedRight
  <2> QED BY <1>1, <2>0, <2>4
<1>18. OrderOK' /\ OkMatchesSource'
  <2>1. OrderOK
    BY DEF CopyInv
  <2>2. /\ result # "ok"
        /\ ~edited => Len(source) = size /\ \A k \in DOMAIN source : source[k] = 0
    BY <1>1, <2>1 DEF OrderOK
  <2>3. ASSUME NEW k \in DOMAIN hashed' PROVE Good(copy, edited, hashed'[k], k - 1)
    <3>1. CASE k <= Len(hashed)
      <4>1. k \in DOMAIN hashed /\ hashed'[k] = hashed[k]
        BY <1>3, <1>4, <1>9, <3>1
      <4> QED BY <1>1, <2>1, <4>1 DEF OrderOK
    <3>2. CASE k > Len(hashed)
      <4>1. PICK m \in 1 .. L : k = Len(hashed) + m
        <5>1. k - Len(hashed) \in 1 .. L /\ k = Len(hashed) + (k - Len(hashed))
          BY <1>3, <1>4, <1>9, <3>2
        <5> QED BY <5>1
      <4>2. hashed'[k] = slots[i].bytes[m] /\ k - 1 = Offset(q) + m - 1
        BY <1>4, <1>6, <1>9, <4>1
      <4>3. Loaded(slots[i], copy, edited, L)
        BY <1>1, <1>2 DEF BytesRight, BytesOf, L
      <4>4. m \in 1 .. ChunkSize /\ m <= L
        BY <1>4, CopyAssumption
      <4>5. Good(copy, edited, slots[i].bytes[m], Offset(q) + m - 1)
        BY <1>1, <4>3, <4>4 DEF Loaded
      <4> QED BY <4>2, <4>5
    <3> QED BY <1>3, <1>4, <1>9, <3>1, <3>2
  <2>4. OkMatchesSource'
    BY <1>1, <2>2 DEF OkMatchesSource
  <2>5. OrderOK'
    BY <1>1, <2>2, <2>3 DEF OrderOK
  <2> QED BY <2>4, <2>5
<1>19. LoopInv'
  BY <1>1, <1>7, <1>12, <1>13, <1>14, <1>15, <1>16, <1>17 DEF LoopInv
<1> QED BY <1>1, <1>11, <1>18, <1>19, LoopStep

\* What is prepared goes to the kernel, all of it or a part.
LEMMA FlushKeeps ==
    ASSUME CopyInv, NEW k \in 0 .. Len(sq), Flush(k)
    PROVE  CopyInv'
<1>1. /\ pc \in Looping /\ pc # "engine" /\ pc' = "engine" /\ pc' \in Looping
      /\ k < Len(sq) => faults < MaxFaults
      /\ faults' = IF k < Len(sq) THEN faults + 1 ELSE faults
      /\ UNCHANGED <<copy, size, source, edited, edits, target, hashed, slots, next_read,
                     next_hash, ring, cq, orphans, waitFailed, result>>
  BY DEF Flush, Looping, sourceVars, cursors
<1>0. /\ kernel' = kernel \cup {sq[j] : j \in 1 .. k}
      /\ sq' = SubSeq(sq, k + 1, Len(sq)) /\ in_flight' = in_flight + k
  BY DEF Flush
<1>2. /\ EngineTypes /\ LoopOK /\ OnePlace(sq, kernel, cq, in_flight)
      /\ RequestsRight(slots, sq, kernel, cq, copy, size)
      /\ ~failure => Served(slots, sq, kernel, cq)
      /\ SlotsRight(slots, next_read, next_hash, size)
      /\ BytesRight(slots, target, hashed, copy, edited, size)
      /\ CompletedRight(slots, cq, target, hashed, copy, edited)
      /\ HashedRight(slots, target, hashed, next_hash, size)
  BY <1>1, LoopFacts
<1>3. /\ sq \in Seq(Request) /\ kernel \in SUBSET Request /\ cq \in Seq(Completion)
      /\ in_flight \in Nat /\ Len(sq) \in Nat /\ k \in Nat /\ k <= Len(sq)
      /\ DOMAIN sq = 1 .. Len(sq)
  BY QueueTypes
<1>4. /\ OnePlace(sq', kernel', cq, in_flight') /\ sq' \in Seq(Request)
      /\ kernel' \subseteq Request
      /\ \A j \in DOMAIN sq' : k + j \in DOMAIN sq /\ sq'[j] = sq[k + j]
      /\ \A j \in DOMAIN sq : sq[j] \in kernel' \/ \E m \in DOMAIN sq' : sq'[m] = sq[j]
      /\ k = Len(sq) => sq' = <<>>
  <2> DEFINE R == SubSeq(sq, k + 1, Len(sq))
             L == kernel \cup {sq[j] : j \in 1 .. k}
  <2>1. /\ OnePlace(R, L, cq, in_flight + k) /\ R \in Seq(Request) /\ L \subseteq Request
        /\ \A j \in DOMAIN R : k + j \in DOMAIN sq /\ R[j] = sq[k + j]
        /\ \A j \in DOMAIN sq : sq[j] \in L \/ \E m \in DOMAIN R : R[m] = sq[j]
        /\ k = Len(sq) => R = <<>>
    BY <1>2, <1>3, PlaceSubmitted, Zenon
  <2>2. R = sq' /\ L = kernel'
    BY <1>0
  <2> HIDE DEF R, L
  <2> QED BY <1>0, <2>1, <2>2
<1>5. EngineTypes'
  <2>1. faults' \in 0 .. MaxFaults /\ in_flight' \in Nat
    BY <1>0, <1>1, <1>2, <1>3, CopyAssumption DEF EngineTypes
  <2>2. failure' \in BOOLEAN
    <3>1. failure' = (k < Len(sq))
      BY DEF Flush
    <3> QED BY <1>3, <3>1
  <2> QED BY <1>1, <1>2, <1>4, <2>1, <2>2 DEF EngineTypes, Looping
<1>6. LoopOK'
  <2>1. ~failure' => k = Len(sq)
    <3>1. \A m \in Nat : k <= m => k = m \/ k < m
      BY <1>3
    <3> QED BY <1>3, <3>1, Zenon DEF Flush
  <2> QED BY <1>1, <1>4, <2>1 DEF LoopOK
<1>7. RequestsRight(slots', sq', kernel', cq', copy', size')
  <2>1. \A r \in kernel' : r \in kernel \/ \E j \in DOMAIN sq : r = sq[j]
    BY <1>0, <1>3
  <2>2. RequestsRight(slots, sq', kernel', cq, copy, size)
    BY <1>2, <1>4, <2>1 DEF RequestsRight
  <2> QED BY <1>1, <2>2
<1>8. Served(slots', sq', kernel', cq')
  <2>1. Served(slots, sq, kernel, cq)
    BY <1>1, <1>2 DEF LoopOK
  <2>2. kernel \subseteq kernel'
    BY <1>0
  <2>3. Used(sq, kernel, cq) \subseteq Used(sq', kernel', cq)
    BY <1>4, <2>2 DEF Used, BusyIn
  <2>4. Served(slots, sq', kernel', cq)
    BY <2>1, <2>3 DEF Served
  <2> QED BY <1>1, <2>4
<1>9. LoopInv'
  BY <1>1, <1>2, <1>4, <1>6, <1>7, <1>8 DEF LoopInv
<1> QED BY <1>1, <1>5, <1>9, LoopStep, OrderStays

\* What is known when a completion is taken.
LEMMA Taken ==
    ASSUME CopyInv, TakeCompletion
    PROVE  /\ pc = "engine" /\ pc \in Looping /\ cq' = Tail(cq) /\ cq' \in Seq(Completion)
           /\ in_flight' = in_flight - 1 /\ in_flight' \in Nat
           /\ UNCHANGED <<copy, size, source, edited, edits, target, hashed, next_hash, ring,
                          kernel, orphans, waitFailed, result, faults>>
           /\ Head(cq) \in Completion /\ OfSlot(slots, copy, size, Head(cq))
           /\ Brought(slots[Head(cq).index], Head(cq), target, hashed, copy, edited)
           /\ OnePlace(sq, kernel, cq', in_flight')
           /\ RequestsRight(slots, sq, kernel, cq', copy, size)
           /\ CompletedRight(slots, cq', target, hashed, copy, edited)
           /\ Head(cq).index \notin Used(sq, kernel, cq')
           /\ Used(sq, kernel, cq) = Used(sq, kernel, cq') \cup {Head(cq).index}
<1>1. /\ pc = "engine" /\ pc \in Looping /\ cq # <<>> /\ in_flight # 0
      /\ cq' = Tail(cq) /\ in_flight' = in_flight - 1
      /\ UNCHANGED <<copy, size, source, edited, edits, target, hashed, next_hash, ring,
                     kernel, orphans, waitFailed, result, faults>>
  BY DEF TakeCompletion, Looping, sourceVars
<1>2. /\ OnePlace(sq, kernel, cq, in_flight)
      /\ RequestsRight(slots, sq, kernel, cq, copy, size)
      /\ CompletedRight(slots, cq, target, hashed, copy, edited)
  BY <1>1, LoopFacts
<1>3. /\ sq \in Seq(Request) /\ kernel \in SUBSET Request /\ cq \in Seq(Completion)
      /\ in_flight \in Nat
  BY QueueTypes
<1>4. /\ Tail(cq) \in Seq(Completion) /\ Head(cq) \in Completion
      /\ RequestsRight(slots, sq, kernel, Tail(cq), copy, size)
      /\ CompletedRight(slots, Tail(cq), target, hashed, copy, edited)
      /\ OfSlot(slots, copy, size, Head(cq))
      /\ Brought(slots[Head(cq).index], Head(cq), target, hashed, copy, edited)
  BY <1>1, <1>2, <1>3, TakeKeeps
<1>6. /\ OnePlace(sq, kernel, Tail(cq), in_flight - 1)
      /\ Head(cq).index \notin BusyIn(kernel, Tail(cq))
      /\ BusyIn(kernel, cq) = BusyIn(kernel, Tail(cq)) \cup {Head(cq).index}
      /\ \A k \in DOMAIN sq : sq[k].index # Head(cq).index
  BY <1>1, <1>2, <1>3, PlaceTaken, Zenon
<1>7. /\ Head(cq).index \notin Used(sq, kernel, Tail(cq))
      /\ Used(sq, kernel, cq) = Used(sq, kernel, Tail(cq)) \cup {Head(cq).index}
  BY <1>6 DEF Used
<1>5. in_flight' \in Nat
  BY <1>1, <1>3
<1> QED BY <1>1, <1>4, <1>5, <1>6, <1>7

\* A completion of a failed copy is dropped, or one makes the copy fail.
LEMMA DropKeeps ==
    ASSUME CopyInv, Drain \/ Reject
    PROVE  CopyInv'
<1>1. /\ TakeCompletion /\ failure' = TRUE
      /\ UNCHANGED <<pc, slots, next_read, sq>>
  <2>1. failure \in BOOLEAN
    BY QueueTypes
  <2> QED BY <2>1 DEF Drain, Reject
<1>2. /\ pc = "engine" /\ pc \in Looping /\ pc' \in Looping /\ cq' \in Seq(Completion)
      /\ in_flight' \in Nat
      /\ UNCHANGED <<copy, size, source, edited, edits, target, hashed, next_hash, ring,
                     kernel, orphans, waitFailed, result, faults>>
      /\ OnePlace(sq, kernel, cq', in_flight')
      /\ RequestsRight(slots, sq, kernel, cq', copy, size)
      /\ CompletedRight(slots, cq', target, hashed, copy, edited)
  BY <1>1, Taken
<1>3. /\ EngineTypes /\ LoopOK
      /\ SlotsRight(slots, next_read, next_hash, size)
      /\ BytesRight(slots, target, hashed, copy, edited, size)
      /\ HashedRight(slots, target, hashed, next_hash, size)
  BY <1>2, LoopFacts
<1>4. EngineTypes'
  BY <1>1, <1>2, <1>3 DEF EngineTypes
<1>5. LoopOK'
  BY <1>1, <1>2 DEF LoopOK
<1>6. LoopInv'
  BY <1>1, <1>2, <1>3, <1>5 DEF LoopInv
<1> QED BY <1>1, <1>2, <1>4, <1>6, LoopStep, OrderStays

\* The hasher fails.
LEMMA HashFailsKeeps ==
    ASSUME CopyInv, HashFails
    PROVE  CopyInv'
<1>1. /\ pc \in Looping /\ pc' = "engine" /\ pc' \in Looping /\ failure' = TRUE
      /\ faults < MaxFaults /\ faults' = faults + 1
      /\ UNCHANGED <<copy, size, source, edited, edits, target, hashed, slots, next_read,
                     next_hash, in_flight, ring, sq, kernel, cq, orphans, waitFailed, result>>
  BY DEF HashFails, Looping, sourceVars, cursors, ringVars
<1>2. /\ EngineTypes /\ OnePlace(sq, kernel, cq, in_flight)
      /\ RequestsRight(slots, sq, kernel, cq, copy, size)
      /\ SlotsRight(slots, next_read, next_hash, size)
      /\ BytesRight(slots, target, hashed, copy, edited, size)
      /\ CompletedRight(slots, cq, target, hashed, copy, edited)
      /\ HashedRight(slots, target, hashed, next_hash, size)
  BY <1>1, LoopFacts
<1>3. faults' \in 0 .. MaxFaults
  <2>1. faults \in 0 .. MaxFaults
    BY <1>2 DEF EngineTypes
  <2> QED BY <1>1, <2>1, CopyAssumption
<1>4. EngineTypes'
  BY <1>1, <1>2, <1>3 DEF EngineTypes, Looping
<1>5. LoopOK'
  BY <1>1 DEF LoopOK
<1>6. LoopInv'
  BY <1>1, <1>2, <1>5 DEF LoopInv
<1> QED BY <1>1, <1>4, <1>6, LoopStep, OrderStays

\* What is known when the completion has moved a part of the chunk in slot i.
LEMMA MovedFacts ==
    ASSUME CopyInv, TakeCompletion, NEW i, NEW progress, Moved(Head(cq), i, progress)
    PROVE  /\ ~failure /\ i \in DOMAIN slots /\ slots[i] \in Slot
           /\ slots[i].phase = Phase(Head(cq).write) /\ slots[i].phase # "Free"
           /\ Head(cq).write \in BOOLEAN
           /\ slots[i].sequence \in Nat /\ slots[i].sequence < Chunks(size)
           /\ Length(slots[i].sequence) = ChunkLen(size, slots[i].sequence)
           /\ ChunkLen(size, slots[i].sequence) \in 1 .. ChunkSize
           /\ progress \in 0 .. ChunkSize
           /\ progress <= ChunkLen(size, slots[i].sequence)
           /\ Head(cq).write => Stored(slots[i], target, hashed, progress)
           /\ ~Head(cq).write => Loaded(slots[i], copy, edited, progress)
           /\ i \notin Used(sq, kernel, cq')
           /\ \A j \in DOMAIN slots : j # i /\ slots[j].phase \in {"Reading", "Writing"}
                                         => j \in Used(sq, kernel, cq')
<1>1. /\ pc \in Looping /\ Head(cq) \in Completion /\ OfSlot(slots, copy, size, Head(cq))
      /\ Brought(slots[Head(cq).index], Head(cq), target, hashed, copy, edited)
      /\ Head(cq).index \notin Used(sq, kernel, cq')
      /\ Used(sq, kernel, cq) = Used(sq, kernel, cq') \cup {Head(cq).index}
  BY Taken
<1>2. /\ ~failure /\ ~Unusable(Head(cq).index, Head(cq).write, Head(cq).res)
      /\ i = Head(cq).index /\ progress = slots[i].progress + Head(cq).res
  BY DEF Moved
<1>3. /\ ~failure => Served(slots, sq, kernel, cq)
      /\ \A q : Length(q) = ChunkLen(size, q)
      /\ \A j \in DOMAIN slots : slots[j] \in Slot
  BY <1>1, LoopFacts
<1>4. /\ i \in DOMAIN slots /\ slots[i].phase = Phase(Head(cq).write)
      /\ Head(cq).res <= ChunkLen(size, slots[i].sequence) - slots[i].progress
  BY <1>1, <1>2 DEF OfSlot
<1>5. Head(cq).write \in BOOLEAN /\ Head(cq).res \in Int
  BY <1>1 DEF Completion
<1>6. slots[i].phase # "Free"
  BY <1>4 DEF Phase
<1>7. /\ slots[i].sequence \in Nat /\ slots[i].sequence < Chunks(size)
      /\ ChunkLen(size, slots[i].sequence) \in 1 .. ChunkSize
  BY <1>1, <1>4, <1>6, ChunkInSlot
<1>8. slots[i] \in Slot /\ slots[i].progress \in 0 .. ChunkSize
  BY <1>3, <1>4 DEF Slot
<1>9. Head(cq).res > 0
  BY <1>2, <1>5 DEF Unusable
<1>10. progress \in 0 .. ChunkSize /\ progress <= ChunkLen(size, slots[i].sequence)
  BY <1>2, <1>4, <1>5, <1>7, <1>8, <1>9, CopyAssumption
<1>11. /\ Head(cq).write => Stored(slots[i], target, hashed, progress)
       /\ ~Head(cq).write => Loaded(slots[i], copy, edited, progress)
  BY <1>1, <1>2 DEF Brought
<1>12. \A j \in DOMAIN slots : j # i /\ slots[j].phase \in {"Reading", "Writing"}
                                  => j \in Used(sq, kernel, cq')
  BY <1>1, <1>2, <1>3 DEF Served
<1> QED BY <1>1, <1>2, <1>3, <1>4, <1>5, <1>6, <1>7, <1>8, <1>10, <1>11, <1>12

\* What the rest of the invariant needs of the slot that a completion has changed to x; the
\* number of chunks started, m, may have grown by the one in x.
LEMMA CompletedStep ==
    ASSUME CopyInv, TakeCompletion, pc' \in {"flush", "hash"}, UNCHANGED failure, ~failure,
           NEW i \in DOMAIN slots, NEW x \in Slot, slots' = [slots EXCEPT ![i] = x],
           next_read' \in Nat, next_hash <= next_read', next_read' <= Chunks(size),
           next_read <= next_read',
           sq' \in Seq(Request), OnePlace(sq', kernel, cq', in_flight'),
           RequestsRight(slots', sq', kernel, cq', copy, size),
           CompletedRight(slots', cq', target, hashed, copy, edited),
           Used(sq, kernel, cq') \subseteq Used(sq', kernel, cq'),
           x.phase \in {"Reading", "Writing"} => i \in Used(sq', kernel, cq'),
           \A j \in DOMAIN slots : j # i /\ slots[j].phase \in {"Reading", "Writing"}
                                      => j \in Used(sq, kernel, cq'),
           SlotRight(x, next_read', next_hash, size),
           x.phase # "Free" => OthersElse(slots, i, x.sequence),
           BytesOf(x, target, hashed, copy, edited, size),
           \/ slots[i].phase # "Writing"
           \/ x.phase = "Writing" /\ x.sequence = slots[i].sequence
           \/ ChunkStored(target, hashed, size, slots[i].sequence)
    PROVE  CopyInv'
<1>1. /\ pc \in Looping /\ cq' \in Seq(Completion) /\ in_flight' \in Nat
      /\ pc' \in Looping /\ pc' # "engine" /\ pc' # "prime"
      /\ UNCHANGED <<copy, size, source, edited, edits, target, hashed, next_hash, ring,
                     kernel, orphans, waitFailed, result, faults>>
  BY Taken DEF Looping
<1>2. /\ EngineTypes
      /\ SlotsRight(slots, next_read, next_hash, size)
      /\ BytesRight(slots, target, hashed, copy, edited, size)
      /\ HashedRight(slots, target, hashed, next_hash, size)
      /\ slots \in [0 .. (SlotsOf(size) - 1) -> Slot]
      /\ \A j \in DOMAIN slots : slots[j].sequence \in Nat
  BY <1>1, LoopFacts
<1>3. slots' \in [0 .. (SlotsOf(size) - 1) -> Slot]
  BY <1>2
<1>4. /\ DOMAIN slots' = DOMAIN slots /\ slots'[i] = x
      /\ \A j \in DOMAIN slots : j # i => slots'[j] = slots[j]
  BY <1>2
<1>5. EngineTypes'
  BY <1>1, <1>2, <1>3 DEF EngineTypes, Looping
<1>6. LoopOK'
  BY <1>1 DEF LoopOK
<1>7. Served(slots', sq', kernel', cq')
  <2>1. ASSUME NEW j \in DOMAIN slots', slots'[j].phase \in {"Reading", "Writing"}
        PROVE  j \in Used(sq', kernel, cq')
    BY <1>4, <2>1
  <2> QED BY <1>1, <2>1 DEF Served
<1>8. SlotsRight(slots', next_read', next_hash', size')
  <2>1. next_read \in Nat /\ next_hash \in Nat
    BY QueueTypes
  <2>2. OthersRight(slots, i, next_read', next_hash, size)
    BY <1>2, <2>1 DEF OthersRight, SlotsRight, SlotRight
  <2>3. SlotsRight(slots', next_read', next_hash, size)
    BY <1>2, <2>2, SlotsAfter
  <2> QED BY <1>1, <2>3
<1>9. BytesRight(slots', target', hashed', copy', edited', size')
  <2>1. BytesRight(slots', target, hashed, copy, edited, size)
    BY <1>2, BytesAfter
  <2> QED BY <1>1, <2>1
<1>10. HashedRight(slots', target', hashed', next_hash', size')
  <2>1. HashedRight(slots', target, hashed, next_hash, size)
    BY <1>2, HashedAfter
  <2> QED BY <1>1, <2>1
<1>11. LoopInv'
  BY <1>1, <1>6, <1>7, <1>8, <1>9, <1>10 DEF LoopInv
<1> QED BY <1>1, <1>5, <1>11, LoopStep, OrderStays

\* A short transfer is continued.
LEMMA ContinueKeeps ==
    ASSUME CopyInv, NEW i, NEW progress, Continue(i, progress)
    PROVE  CopyInv'
<1> DEFINE w == Head(cq).write
           q == slots[i].sequence
<1>1. /\ TakeCompletion /\ Moved(Head(cq), i, progress)
      /\ progress < Length(slots[i].sequence)
      /\ submit_request(i, q, progress, w)
      /\ pc' = "flush" /\ UNCHANGED <<next_read, failure>>
  BY DEF Continue
<1>2. /\ ~failure /\ i \in DOMAIN slots /\ slots[i] \in Slot
      /\ slots[i].phase = Phase(w) /\ slots[i].phase # "Free" /\ w \in BOOLEAN
      /\ q \in Nat /\ q < Chunks(size) /\ Length(q) = ChunkLen(size, q)
      /\ progress \in 0 .. ChunkSize
      /\ w => Stored(slots[i], target, hashed, progress)
      /\ ~w => Loaded(slots[i], copy, edited, progress)
      /\ i \notin Used(sq, kernel, cq')
      /\ \A j \in DOMAIN slots : j # i /\ slots[j].phase \in {"Reading", "Writing"}
                                    => j \in Used(sq, kernel, cq')
  BY <1>1, MovedFacts
<1>3. /\ pc \in Looping /\ cq' \in Seq(Completion)
      /\ OnePlace(sq, kernel, cq', in_flight')
      /\ RequestsRight(slots, sq, kernel, cq', copy, size)
      /\ CompletedRight(slots, cq', target, hashed, copy, edited)
  BY <1>1, Taken
<1>4. /\ SlotsRight(slots, next_read, next_hash, size)
      /\ BytesRight(slots, target, hashed, copy, edited, size)
      /\ next_read \in Nat
  BY <1>3, LoopFacts, QueueTypes
<1>5. PICK x : x = Slotted(slots[i], q, progress, Phase(w))
  OBVIOUS
<1>6. /\ x \in Slot /\ x.phase = Phase(w) /\ x.sequence = q /\ x.progress = progress
      /\ x.bytes = slots[i].bytes
  <2>1. Phase(w) \in {"Free", "Reading", "Ready", "Writing"}
    BY DEF Phase
  <2>2. /\ Slotted(slots[i], q, progress, Phase(w)) \in Slot
        /\ Slotted(slots[i], q, progress, Phase(w)).sequence = q
        /\ Slotted(slots[i], q, progress, Phase(w)).progress = progress
        /\ Slotted(slots[i], q, progress, Phase(w)).phase = Phase(w)
        /\ Slotted(slots[i], q, progress, Phase(w)).bytes = slots[i].bytes
    <3>1. Cursors(q, progress, Phase(w))
      BY <1>2, <2>1 DEF Cursors
    <3> QED BY <1>2, <3>1, SlotUpdated
  <2> QED BY <1>5, <2>2
<1>7. /\ slots' = [slots EXCEPT ![i] = x]
      /\ sq' \in Seq(Request)
      /\ OnePlace(sq', kernel, cq', in_flight')
      /\ RequestsRight(slots', sq', kernel, cq', copy, size)
      /\ CompletedRight(slots', cq', target, hashed, copy, edited)
      /\ Used(sq', kernel, cq') = Used(sq, kernel, cq') \cup {i}
  <2>1. /\ slots' = [slots EXCEPT ![i] = x]
        /\ sq' = Append(sq, [copy |-> copy, index |-> i, write |-> w,
                             data |-> x.progress, offset |-> Offset(x.sequence) + x.progress,
                             remaining |-> Length(x.sequence) - x.progress])
    BY <1>1, <1>5, <1>6 DEF submit_request, SetSlot, Slotted
  <2>2. x.sequence < Chunks(size) /\ x.progress < ChunkLen(size, x.sequence)
    BY <1>1, <1>2, <1>6
  <2> HIDE DEF w
  <2> QED BY <1>2, <1>3, <1>6, <2>1, <2>2, SubmitKeeps
<1>8. SlotRight(x, next_read', next_hash, size)
  BY <1>1, <1>2, <1>4, <1>6 DEF SlotsRight, SlotRight, Phase
<1>9. OthersElse(slots, i, x.sequence)
  BY <1>2, <1>4, <1>6 DEF SlotsRight, OthersElse
<1>10. BytesOf(x, target, hashed, copy, edited, size)
  <2>1. BytesOf(slots[i], target, hashed, copy, edited, size)
    BY <1>2, <1>4 DEF BytesRight
  <2>2. w => Stored(x, target, hashed, progress)
    BY <1>2, <1>6 DEF Stored
  <2>3. ~w => Loaded(x, copy, edited, progress)
    BY <1>2, <1>6 DEF Loaded
  <2>4. CASE w
    BY <1>2, <1>6, <2>1, <2>2, <2>4 DEF BytesOf, Phase
  <2>5. CASE ~w
    BY <1>2, <1>6, <2>3, <2>5 DEF BytesOf, Phase
  <2> QED BY <2>4, <2>5
<1>11. slots[i].phase # "Writing" \/ (x.phase = "Writing" /\ x.sequence = slots[i].sequence)
  BY <1>2, <1>6
<1>12. /\ next_read' \in Nat /\ next_hash <= next_read'
       /\ next_read' <= Chunks(size) /\ next_read <= next_read'
  BY <1>1, <1>4 DEF SlotsRight
<1>13. /\ Used(sq, kernel, cq') \subseteq Used(sq', kernel, cq') /\ i \in Used(sq', kernel, cq')
       /\ pc' \in {"flush", "hash"}
  BY <1>1, <1>7
<1> HIDE DEF w
<1> QED BY <1>1, <1>2, <1>6, <1>7, <1>8, <1>9, <1>10, <1>11, <1>12, <1>13, CompletedStep

\* A read is done.
LEMMA ReadDoneKeeps ==
    ASSUME CopyInv, NEW i, NEW progress, ReadDone(i, progress)
    PROVE  CopyInv'
<1> DEFINE q == slots[i].sequence
<1>1. /\ TakeCompletion /\ Moved(Head(cq), i, progress)
      /\ progress >= Length(slots[i].sequence) /\ ~Head(cq).write
      /\ SetSlot(i, q, progress, "Ready")
      /\ pc' = "hash" /\ UNCHANGED <<next_read, failure, sq>>
  BY DEF ReadDone
<1>2. /\ ~failure /\ i \in DOMAIN slots /\ slots[i] \in Slot
      /\ slots[i].phase = Phase(Head(cq).write) /\ slots[i].phase # "Free"
      /\ q \in Nat /\ q < Chunks(size) /\ Length(q) = ChunkLen(size, q)
      /\ ChunkLen(size, q) \in 1 .. ChunkSize
      /\ progress \in 0 .. ChunkSize /\ progress <= ChunkLen(size, q)
      /\ ~Head(cq).write => Loaded(slots[i], copy, edited, progress)
      /\ i \notin Used(sq, kernel, cq')
      /\ \A j \in DOMAIN slots : j # i /\ slots[j].phase \in {"Reading", "Writing"}
                                    => j \in Used(sq, kernel, cq')
  BY <1>1, MovedFacts
<1>3. /\ pc \in Looping /\ cq' \in Seq(Completion)
      /\ OnePlace(sq, kernel, cq', in_flight')
      /\ RequestsRight(slots, sq, kernel, cq', copy, size)
      /\ CompletedRight(slots, cq', target, hashed, copy, edited)
  BY <1>1, Taken
<1>4. /\ SlotsRight(slots, next_read, next_hash, size)
      /\ BytesRight(slots, target, hashed, copy, edited, size)
      /\ next_read \in Nat /\ sq \in Seq(Request)
  BY <1>3, LoopFacts, QueueTypes
<1>5. slots[i].phase = "Reading" /\ progress = ChunkLen(size, q)
  BY <1>1, <1>2 DEF Phase
<1>6. PICK x : x = Slotted(slots[i], q, progress, "Ready")
  OBVIOUS
<1>7. /\ x \in Slot /\ x.phase = "Ready" /\ x.sequence = q /\ x.progress = progress
      /\ x.bytes = slots[i].bytes
  <2>1. /\ Slotted(slots[i], q, progress, "Ready") \in Slot
        /\ Slotted(slots[i], q, progress, "Ready").sequence = q
        /\ Slotted(slots[i], q, progress, "Ready").progress = progress
        /\ Slotted(slots[i], q, progress, "Ready").phase = "Ready"
        /\ Slotted(slots[i], q, progress, "Ready").bytes = slots[i].bytes
    <3>1. Cursors(q, progress, "Ready")
      BY <1>2 DEF Cursors
    <3> QED BY <1>2, <3>1, SlotUpdated
  <2> QED BY <1>6, <2>1
<1>8. slots' = [slots EXCEPT ![i] = x]
  BY <1>1, <1>6 DEF SetSlot, Slotted
<1>9. /\ RequestsRight(slots', sq, kernel, cq', copy, size)
      /\ CompletedRight(slots', cq', target, hashed, copy, edited)
  BY <1>2, <1>3, <1>8, UpdateKeeps
<1>10. SlotRight(x, next_read', next_hash, size)
  BY <1>1, <1>2, <1>4, <1>5, <1>7 DEF SlotsRight, SlotRight
<1>11. OthersElse(slots, i, x.sequence)
  BY <1>2, <1>4, <1>7 DEF SlotsRight, OthersElse
<1>12. BytesOf(x, target, hashed, copy, edited, size)
  <2>1. Loaded(x, copy, edited, ChunkLen(size, q))
    BY <1>1, <1>2, <1>5, <1>7 DEF Loaded
  <2> QED BY <1>7, <2>1 DEF BytesOf
<1>13. /\ next_read' \in Nat /\ next_hash <= next_read'
       /\ next_read' <= Chunks(size) /\ next_read <= next_read'
  BY <1>1, <1>4 DEF SlotsRight
<1>14. /\ pc' \in {"flush", "hash"} /\ sq' \in Seq(Request) /\ slots[i].phase # "Writing"
       /\ Used(sq, kernel, cq') \subseteq Used(sq', kernel, cq')
       /\ OnePlace(sq', kernel, cq', in_flight')
       /\ RequestsRight(slots', sq', kernel, cq', copy, size)
       /\ x.phase \notin {"Reading", "Writing"} /\ UNCHANGED failure
  BY <1>1, <1>3, <1>4, <1>5, <1>7, <1>9
<1> QED BY <1>1, <1>2, <1>7, <1>8, <1>9, <1>10, <1>11, <1>12, <1>13, <1>14, CompletedStep

\* A write is done: its chunk is in the target, and the slot is free or reads the next one.
LEMMA WriteDoneKeeps ==
    ASSUME CopyInv, NEW i, NEW progress, WriteDone(i, progress)
    PROVE  CopyInv'
<1> DEFINE q == slots[i].sequence
<1>1. /\ TakeCompletion /\ Moved(Head(cq), i, progress)
      /\ progress >= Length(slots[i].sequence) /\ Head(cq).write
      /\ IF next_read < ChunkCount
         THEN start_read(i)
         ELSE SetSlot(i, q, progress, "Free") /\ UNCHANGED <<next_read, sq>>
      /\ pc' = "hash" /\ UNCHANGED failure
  BY DEF WriteDone
<1>2. /\ ~failure /\ i \in DOMAIN slots /\ slots[i] \in Slot
      /\ slots[i].phase = Phase(Head(cq).write) /\ slots[i].phase # "Free"
      /\ q \in Nat /\ q < Chunks(size) /\ Length(q) = ChunkLen(size, q)
      /\ ChunkLen(size, q) \in 1 .. ChunkSize
      /\ progress \in 0 .. ChunkSize /\ progress <= ChunkLen(size, q)
      /\ Head(cq).write => Stored(slots[i], target, hashed, progress)
      /\ i \notin Used(sq, kernel, cq')
      /\ \A j \in DOMAIN slots : j # i /\ slots[j].phase \in {"Reading", "Writing"}
                                    => j \in Used(sq, kernel, cq')
  BY <1>1, MovedFacts
<1>3. /\ pc \in Looping /\ cq' \in Seq(Completion)
      /\ OnePlace(sq, kernel, cq', in_flight')
      /\ RequestsRight(slots, sq, kernel, cq', copy, size)
      /\ CompletedRight(slots, cq', target, hashed, copy, edited)
  BY <1>1, Taken
<1>4. /\ SlotsRight(slots, next_read, next_hash, size)
      /\ BytesRight(slots, target, hashed, copy, edited, size)
      /\ next_read \in Nat /\ next_hash \in Nat /\ sq \in Seq(Request) /\ size \in Nat
      /\ ChunkCount = Chunks(size) /\ Chunks(size) \in Nat
      /\ \A j \in DOMAIN slots : slots[j].sequence \in Nat
  BY <1>3, LoopFacts, QueueTypes
<1>5. slots[i].phase = "Writing" /\ progress = ChunkLen(size, q)
  BY <1>1, <1>2 DEF Phase
<1>6. ChunkStored(target, hashed, size, q)
  <2>1. SUFFICES ASSUME NEW p \in Offset(q) .. (Offset(q) + ChunkLen(size, q) - 1)
                 PROVE  OnTarget(target, hashed, p)
    BY DEF ChunkStored
  <2>2. Offset(q) \in Nat
    BY <1>2, OffsetSteps
  <2>3. PICK k \in 1 .. ChunkSize : k <= progress /\ p = Offset(q) + k - 1
    <3>1. /\ p - Offset(q) + 1 \in 1 .. ChunkSize /\ p - Offset(q) + 1 <= progress
          /\ p = Offset(q) + (p - Offset(q) + 1) - 1
      BY <1>2, <1>5, <2>2, CopyAssumption
    <3> QED BY <3>1
  <2> QED BY <1>1, <1>2, <2>3 DEF Stored
<1>7. CASE next_read < ChunkCount
  <2>1. submit_request(i, next_read, 0, FALSE) /\ next_read' = next_read + 1
    BY <1>1, <1>7 DEF start_read
  <2>2. PICK x : x = Slotted(slots[i], next_read, 0, "Reading")
    OBVIOUS
  <2>3. x \in Slot /\ x.phase = "Reading" /\ x.sequence = next_read /\ x.progress = 0
    <3>1. Cursors(next_read, 0, "Reading")
      BY <1>4, CopyAssumption DEF Cursors
    <3> QED BY <1>2, <2>2, <3>1, SlotUpdated
  <2>4. ChunkLen(size, next_read) \in 1 .. ChunkSize
    BY <1>4, <1>7, ChunkLength
  <2>5. /\ slots' = [slots EXCEPT ![i] = x]
        /\ sq' \in Seq(Request)
        /\ OnePlace(sq', kernel, cq', in_flight')
        /\ RequestsRight(slots', sq', kernel, cq', copy, size)
        /\ CompletedRight(slots', cq', target, hashed, copy, edited)
        /\ Used(sq', kernel, cq') = Used(sq, kernel, cq') \cup {i}
    <3>1. /\ slots' = [slots EXCEPT ![i] = x]
          /\ sq' = Append(sq, [copy |-> copy, index |-> i, write |-> FALSE,
                               data |-> x.progress, offset |-> Offset(x.sequence) + x.progress,
                               remaining |-> Length(x.sequence) - x.progress])
      BY <2>1, <2>2, <2>3 DEF submit_request, SetSlot, Slotted, Phase
    <3>2. x.sequence < Chunks(size) /\ x.progress < ChunkLen(size, x.sequence)
      BY <1>4, <1>7, <2>3, <2>4
    <3>3. x.phase = Phase(FALSE) /\ FALSE \in BOOLEAN
      BY <2>3 DEF Phase
    <3> QED BY <1>2, <1>3, <2>3, <3>1, <3>2, <3>3, SubmitKeeps
  <2>6. /\ next_read' \in Nat /\ next_hash <= next_read'
        /\ next_read' <= Chunks(size) /\ next_read <= next_read'
    BY <1>4, <1>7, <2>1 DEF SlotsRight
  <2>7. SlotRight(x, next_read', next_hash, size)
    BY <1>4, <2>1, <2>3, <2>4 DEF SlotsRight, SlotRight
  <2>8. OthersElse(slots, i, x.sequence)
    BY <1>4, <2>3 DEF SlotsRight, SlotRight, OthersElse
  <2>9. BytesOf(x, target, hashed, copy, edited, size)
    BY <2>3 DEF BytesOf, Loaded
  <2>10. /\ Used(sq, kernel, cq') \subseteq Used(sq', kernel, cq')
         /\ i \in Used(sq', kernel, cq')
         /\ pc' \in {"flush", "hash"}
    BY <1>1, <2>5
  <2> QED BY <1>1, <1>2, <1>6, <2>3, <2>5, <2>6, <2>7, <2>8, <2>9, <2>10, CompletedStep
<1>8. CASE ~(next_read < ChunkCount)
  <2>1. SetSlot(i, q, progress, "Free") /\ UNCHANGED <<next_read, sq>>
    BY <1>1, <1>8
  <2>2. PICK x : x = Slotted(slots[i], q, progress, "Free")
    OBVIOUS
  <2>3. x \in Slot /\ x.phase = "Free"
    <3>1. Cursors(q, progress, "Free")
      BY <1>2 DEF Cursors
    <3> QED BY <1>2, <2>2, <3>1, SlotUpdated
  <2>4. slots' = [slots EXCEPT ![i] = x]
    BY <2>1, <2>2 DEF SetSlot, Slotted
  <2>5. /\ RequestsRight(slots', sq, kernel, cq', copy, size)
        /\ CompletedRight(slots', cq', target, hashed, copy, edited)
    BY <1>2, <1>3, <2>4, UpdateKeeps
  <2>6. /\ SlotRight(x, next_read', next_hash, size)
        /\ BytesOf(x, target, hashed, copy, edited, size)
    BY <2>3 DEF SlotRight, BytesOf
  <2>7. /\ next_read' \in Nat /\ next_hash <= next_read'
        /\ next_read' <= Chunks(size) /\ next_read <= next_read'
    BY <1>4, <2>1 DEF SlotsRight
  <2>8. /\ pc' \in {"flush", "hash"} /\ sq' \in Seq(Request)
        /\ Used(sq, kernel, cq') \subseteq Used(sq', kernel, cq')
        /\ OnePlace(sq', kernel, cq', in_flight')
        /\ RequestsRight(slots', sq', kernel, cq', copy, size)
        /\ x.phase \notin {"Reading", "Writing"} /\ UNCHANGED failure
    BY <1>1, <1>3, <1>4, <2>1, <2>3, <2>5
  <2> QED BY <1>1, <1>2, <1>6, <2>3, <2>4, <2>5, <2>6, <2>7, <2>8, CompletedStep
<1> QED BY <1>7, <1>8

-----------------------------------------------------------------------------
(* The kernel.                                                             *)

\* Nobody is in the loop outside it, so the kernel has nothing.
LEMMA KernelBusy ==
    ASSUME CopyInv, NEW r \in kernel
    PROVE  pc \in Looping /\ r \in Request
BY QueueTypes DEF CopyInv, CleanOK

\* A request is completed, after which all is right that concerns the slots.
LEMMA CompletionKeeps ==
    ASSUME CopyInv, NEW r \in kernel, NEW n \in Int, n <= r.remaining, kernel' = kernel \ {r},
           cq' = Append(cq, [copy |-> r.copy, index |-> r.index, write |-> r.write, res |-> n]),
           UNCHANGED <<pc, copy, size, source, edited, edits, hashed, next_read, next_hash,
                       failure, in_flight, ring, sq, orphans, waitFailed, result>>,
           faults' \in 0 .. MaxFaults,
           slots' \in [0 .. (SlotsOf(size) - 1) -> Slot],
           \A i \in DOMAIN slots : /\ slots'[i].phase = slots[i].phase
                                   /\ slots'[i].sequence = slots[i].sequence
                                   /\ slots'[i].progress = slots[i].progress,
           DOMAIN target' \subseteq 0 .. (Len(hashed) - 1),
           \A p \in Nat : OnTarget(target, hashed, p) => OnTarget(target', hashed, p),
           BytesRight(slots', target', hashed, copy, edited, size),
           CompletedRight(slots', cq, target', hashed, copy, edited),
           LET d == [copy |-> r.copy, index |-> r.index, write |-> r.write, res |-> n]
           IN  Brought(slots'[r.index], d, target', hashed, copy, edited)
    PROVE  CopyInv'
<1> DEFINE d == [copy |-> r.copy, index |-> r.index, write |-> r.write, res |-> n]
<1>1. pc \in Looping /\ pc' \in Looping /\ r \in Request
  BY KernelBusy
<1>2. /\ EngineTypes /\ LoopOK /\ OnePlace(sq, kernel, cq, in_flight)
      /\ RequestsRight(slots, sq, kernel, cq, copy, size)
      /\ ~failure => Served(slots, sq, kernel, cq)
      /\ SlotsRight(slots, next_read, next_hash, size)
      /\ HashedRight(slots, target, hashed, next_hash, size)
      /\ DOMAIN slots = 0 .. (SlotsOf(size) - 1) /\ copy \in Nat
  BY <1>1, LoopFacts
<1>3. /\ sq \in Seq(Request) /\ kernel \in SUBSET Request /\ cq \in Seq(Completion)
      /\ next_hash \in Nat /\ Len(hashed) \in Nat
  BY QueueTypes
<1>4. DOMAIN slots' = DOMAIN slots
  BY <1>2
<1>5. PICK c : c = d
  OBVIOUS
<1>6. /\ c.copy = r.copy /\ c.index = r.index /\ c.write = r.write /\ c.res = n
      /\ cq' = Append(cq, c) /\ Brought(slots'[r.index], c, target', hashed, copy, edited)
  BY <1>5
<1>7. c \in Completion
  <2>1. r.copy \in Nat /\ r.index \in 0 .. (QueueDepth - 1) /\ r.write \in BOOLEAN
    BY <1>1, CopyAssumption DEF Request
  <2> QED BY <1>5, <2>1 DEF Completion
<1> HIDE DEF d
<1>8. /\ DOMAIN cq' = 1 .. (Len(cq) + 1) /\ Len(cq) \in Nat /\ DOMAIN cq = 1 .. Len(cq)
      /\ cq' \in Seq(Completion)
      /\ \A k \in DOMAIN cq' : cq'[k] = c \/ (k \in DOMAIN cq /\ cq'[k] = cq[k])
  <2>1. /\ DOMAIN cq' = 1 .. (Len(cq) + 1) /\ Len(cq) \in Nat /\ DOMAIN cq = 1 .. Len(cq)
        /\ cq' \in Seq(Completion)
        /\ \A k \in 1 .. Len(cq) : cq'[k] = cq[k]
        /\ cq'[Len(cq) + 1] = c
    BY <1>3, <1>6, <1>7
  <2> QED BY <2>1
<1>9. OnePlace(sq, kernel', cq', in_flight) /\ BusyIn(kernel', cq') = BusyIn(kernel, cq)
  BY <1>2, <1>3, <1>6, <1>7, PlaceCompleted
<1>10. EngineTypes'
  BY <1>1, <1>2, <1>3, <1>8 DEF EngineTypes
<1>11. LoopOK'
  BY <1>2, <1>4 DEF LoopOK
<1>12. RequestsRight(slots', sq', kernel', cq', copy', size')
  <2>1. \A q : ForSlot(slots, copy, size, q) => ForSlot(slots', copy, size, q)
    BY <1>4 DEF ForSlot
  <2>2. \A q : OfSlot(slots, copy, size, q) => OfSlot(slots', copy, size, q)
    BY <1>4 DEF OfSlot
  <2>3. ForSlot(slots', copy, size, r)
    BY <1>2, <2>1 DEF RequestsRight
  <2>4. OfSlot(slots', copy, size, c)
    BY <1>6, <2>3 DEF ForSlot, OfSlot
  <2>5. \A k \in DOMAIN cq' : OfSlot(slots', copy, size, cq'[k])
    BY <1>2, <1>8, <2>2, <2>4 DEF RequestsRight
  <2>6. RequestsRight(slots', sq, kernel', cq', copy, size)
    BY <1>2, <2>1, <2>5 DEF RequestsRight
  <2> QED BY <2>6
<1>13. ~failure' => Served(slots', sq', kernel', cq')
  BY <1>2, <1>4, <1>9 DEF Served, Used
<1>14. SlotsRight(slots', next_read', next_hash', size')
  <2>1. SlotsRight(slots', next_read, next_hash, size)
    BY <1>2, <1>4 DEF SlotsRight, SlotRight
  <2> QED BY <2>1
<1>15. CompletedRight(slots', cq', target', hashed', copy', edited')
  <2>1. CompletedRight(slots', cq', target', hashed, copy, edited)
    BY <1>6, <1>8 DEF CompletedRight
  <2> QED BY <2>1
<1>16. HashedRight(slots', target', hashed', next_hash', size')
  <2>1. \A q : Written(slots', q) => Written(slots, q)
    BY <1>4 DEF Written
  <2>2. ASSUME NEW q \in 0 .. (next_hash - 1), Written(slots', q),
               NEW p \in Offset(q) .. (Offset(q) + ChunkLen(size, q) - 1)
        PROVE  OnTarget(target', hashed, p)
    <3>1. OnTarget(target, hashed, p)
      BY <1>2, <2>1, <2>2 DEF HashedRight
    <3>2. p \in Nat
      <4>1. q \in Nat
        BY <1>3
      <4>2. Offset(q) \in Nat
        BY <4>1, OffsetSteps
      <4> QED BY <4>2
    <3> QED BY <3>1, <3>2
  <2>3. HashedRight(slots', target', hashed, next_hash, size)
    BY <1>2, <2>2 DEF HashedRight
  <2> QED BY <2>3
<1>17. BytesRight(slots', target', hashed', copy', edited', size')
  OBVIOUS
<1>18. LoopInv'
  BY <1>9, <1>11, <1>12, <1>13, <1>14, <1>15, <1>16, <1>17 DEF LoopInv
<1> QED BY <1>1, <1>10, <1>18, LoopStep, OrderStays

\* The request that the kernel executes.
LEMMA ExecutedFacts ==
    ASSUME CopyInv, NEW r \in kernel
    PROVE  LET s == slots[r.index] IN
           /\ pc \in Looping /\ r \in Request /\ r.index \in DOMAIN slots /\ s \in Slot
           /\ r.write \in BOOLEAN /\ s.phase = Phase(r.write) /\ r.data = s.progress
           /\ s.sequence \in Nat /\ Offset(s.sequence) \in Nat
           /\ s.progress \in 0 .. ChunkSize
           /\ ChunkLen(size, s.sequence) \in 1 .. ChunkSize
           /\ r.offset = Offset(s.sequence) + s.progress /\ r.offset \in Nat
           /\ r.remaining = ChunkLen(size, s.sequence) - s.progress /\ r.remaining \in Nat
           /\ BytesOf(s, target, hashed, copy, edited, size)
           /\ s.phase = "Writing" =>
                 Offset(s.sequence) + ChunkLen(size, s.sequence) <= Len(hashed)
<1> DEFINE s == slots[r.index]
<1>1. pc \in Looping /\ r \in Request
  BY KernelBusy
<1>2. /\ RequestsRight(slots, sq, kernel, cq, copy, size)
      /\ BytesRight(slots, target, hashed, copy, edited, size)
      /\ SlotsRight(slots, next_read, next_hash, size)
      /\ HashedRight(slots, target, hashed, next_hash, size)
      /\ \A i \in DOMAIN slots : slots[i] \in Slot
      /\ size \in Nat /\ Chunks(size) \in Nat
  BY <1>1, LoopFacts
<1>3. ForSlot(slots, copy, size, r)
  BY <1>2 DEF RequestsRight
<1>4. /\ r.index \in DOMAIN slots /\ s \in Slot
      /\ s.phase = Phase(r.write) /\ r.data = s.progress
      /\ r.offset = Offset(s.sequence) + s.progress
      /\ r.remaining = ChunkLen(size, s.sequence) - s.progress
      /\ BytesOf(s, target, hashed, copy, edited, size)
  BY <1>2, <1>3 DEF ForSlot, BytesRight
<1>5. /\ s.sequence \in Nat /\ s.sequence < Chunks(size) /\ Offset(s.sequence) \in Nat
      /\ ChunkLen(size, s.sequence) \in 1 .. ChunkSize
      /\ Offset(s.sequence) + ChunkLen(size, s.sequence) <= size
  <2>1. s.phase # "Free"
    BY <1>4 DEF Phase
  <2> QED BY <1>1, <1>4, <2>1, ChunkInSlot
<1>6. r.write \in BOOLEAN /\ s.progress \in 0 .. ChunkSize /\ r.remaining \in Nat
  <2>1. r.write \in BOOLEAN /\ r.remaining \in 1 .. ChunkSize
    BY <1>1 DEF Request
  <2>2. s.progress \in 0 .. ChunkSize
    BY <1>4 DEF Slot
  <2> QED BY <2>1, <2>2, CopyAssumption
<1>7. ASSUME s.phase = "Writing"
      PROVE  Offset(s.sequence) + ChunkLen(size, s.sequence) <= Len(hashed)
  <2>1. s.sequence < next_hash /\ next_hash \in Nat
    BY <1>2, <1>4, <1>7, QueueTypes DEF SlotsRight, SlotRight
  <2>2. CASE next_hash < Chunks(size)
    <3>1. Len(hashed) = Offset(next_hash) /\ Offset(next_hash) \in Nat
      BY <1>2, <2>1, <2>2, OffsetSteps DEF HashedRight
    <3>2. Offset(s.sequence) + ChunkSize <= Offset(next_hash)
      BY <1>5, <2>1, OffsetsApart
    <3> QED BY <1>5, <3>1, <3>2, CopyAssumption
  <2>3. CASE ~(next_hash < Chunks(size))
    BY <1>2, <1>5, <2>3 DEF HashedRight
  <2> QED BY <2>2, <2>3
<1>8. r.offset \in Nat
  BY <1>4, <1>5, <1>6
<1> QED BY <1>1, <1>4, <1>5, <1>6, <1>7, <1>8

\* The kernel writes a part of a chunk.
LEMMA ExecuteWriteKeeps ==
    ASSUME CopyInv, NEW r \in kernel, NEW n \in 0 .. ChunkSize, Execute(r, n), r.write
    PROVE  CopyInv'
<1> DEFINE s == slots[r.index]
           new == r.offset .. (r.offset + n - 1)
<1>1. /\ n <= r.remaining /\ n > 0
      /\ target' = Pwrite(r.offset, SubSeq(s.bytes, r.data + 1, r.data + n))
      /\ kernel' = kernel \ {r} /\ slots' = slots
      /\ cq' = Append(cq, [copy |-> r.copy, index |-> r.index, write |-> r.write, res |-> n])
      /\ UNCHANGED <<pc, copy, size, source, edited, edits, hashed, next_read, next_hash,
                     failure, in_flight, ring, sq, orphans, waitFailed, result, faults>>
  BY DEF Execute, sourceVars, cursors
<1>2. /\ pc \in Looping /\ r \in Request /\ r.index \in DOMAIN slots /\ s \in Slot
      /\ s.phase = Phase(r.write) /\ r.data = s.progress
      /\ s.sequence \in Nat /\ Offset(s.sequence) \in Nat
      /\ s.progress \in 0 .. ChunkSize /\ ChunkLen(size, s.sequence) \in 1 .. ChunkSize
      /\ r.offset = Offset(s.sequence) + s.progress /\ r.offset \in Nat
      /\ r.remaining = ChunkLen(size, s.sequence) - s.progress /\ r.remaining \in Nat
      /\ BytesOf(s, target, hashed, copy, edited, size)
      /\ s.phase = "Writing" => Offset(s.sequence) + ChunkLen(size, s.sequence) <= Len(hashed)
  BY ExecutedFacts
<1>3. s.phase = "Writing"
  BY <1>2 DEF Phase
<1>4. /\ BytesRight(slots, target, hashed, copy, edited, size)
      /\ CompletedRight(slots, cq, target, hashed, copy, edited)
      /\ HashedRight(slots, target, hashed, next_hash, size)
      /\ RequestsRight(slots, sq, kernel, cq, copy, size)
      /\ slots \in [0 .. (SlotsOf(size) - 1) -> Slot]
      /\ \A i \in DOMAIN slots : slots[i].sequence \in Nat
      /\ EngineTypes /\ Len(hashed) \in Nat
  BY <1>2, LoopFacts, QueueTypes
<1>5. /\ \A k \in 1 .. ChunkSize :
            k <= ChunkLen(size, s.sequence) =>
                s.bytes[k] \in {hashed[Offset(s.sequence) + k], Stale}
      /\ Stored(s, target, hashed, s.progress)
  BY <1>2, <1>3 DEF BytesOf
<1>6. PICK e \in Nat, o \in Nat, l \in Nat :
            /\ e = s.progress /\ o = Offset(s.sequence) /\ l = ChunkLen(size, s.sequence)
            /\ r.data = e /\ r.offset = o + e /\ e + n <= l /\ l <= ChunkSize
            /\ o + l <= Len(hashed)
  <2>1. /\ s.progress \in Nat /\ ChunkLen(size, s.sequence) \in Nat
        /\ ChunkLen(size, s.sequence) <= ChunkSize
        /\ s.progress + n <= ChunkLen(size, s.sequence)
    BY <1>1, <1>2, CopyAssumption
  <2> QED BY <1>2, <1>3, <2>1
<1>7. /\ e + n <= l /\ l <= ChunkSize /\ n \in Nat /\ n > 0 /\ ChunkSize \in Nat
      /\ Len(hashed) \in Nat /\ o + l <= Len(hashed)
  BY <1>1, <1>6, <1>4, CopyAssumption
<1>8. r.data = e /\ r.offset = o + e
  BY <1>6
<1>9. \A p : p \in new <=> p \in (o + e) .. (o + e + n - 1)
  BY <1>6
<1>10. /\ DOMAIN target' = DOMAIN target \cup new
       /\ \A p \in DOMAIN target : p \notin new => target'[p] = target[p]
       /\ \A p \in new : target'[p] \in {hashed[p + 1], Stale}
  <2>1. PICK u : u = SubSeq(s.bytes, r.data + 1, r.data + n)
    OBVIOUS
  <2>2. s.bytes \in [1 .. ChunkSize -> Unit]
    BY <1>2 DEF Slot
  <2>3. /\ Len(u) = n /\ \A j \in 1 .. n : u[j] = s.bytes[s.progress + j]
    <3>1. \A k \in (e + 1) .. (e + n) : s.bytes[k] \in Unit
      BY <1>7, <2>2
    <3>2. e + 1 \in Int /\ e + n \in Int /\ u = SubSeq(s.bytes, e + 1, e + n)
      BY <1>8, <2>1
    <3>3. /\ Len(u) = IF e + 1 <= e + n THEN e + n - (e + 1) + 1 ELSE 0
          /\ \A j \in 1 .. (e + n - (e + 1) + 1) : u[j] = s.bytes[e + 1 + j - 1]
      BY <3>2, <3>1, SubSeqProperties
    <3>4. e + n - (e + 1) + 1 = n /\ e + 1 <= e + n
      BY <1>7
    <3>5. \A j \in 1 .. n : e + 1 + j - 1 = e + j
      BY <1>6
    <3>6. Len(u) = n /\ \A j \in 1 .. n : u[j] = s.bytes[e + j]
      BY <3>3, <3>4, <3>5
    <3>7. e = s.progress
      BY <1>6
    <3> QED BY <3>6, <3>7
  <2>4. target' = [p \in DOMAIN target \cup new |->
                     IF p \in new THEN u[p - r.offset + 1] ELSE target[p]]
    BY <1>1, <2>1, <2>3 DEF Pwrite
  <2>5. ASSUME NEW p \in new PROVE u[p - r.offset + 1] \in {hashed[p + 1], Stale}
    <3>1. PICK j \in 1 .. n : j = p - r.offset + 1 /\ o + (e + j) = p + 1
      <4>1. PICK m \in (o + e) .. (o + e + n - 1) : m = p
        BY <1>9
      <4>2. m - (o + e) + 1 \in 1 .. n /\ o + (e + (m - (o + e) + 1)) = m + 1
        BY <1>7
      <4> QED BY <1>8, <4>1, <4>2
    <3>2. e + j \in 1 .. ChunkSize /\ e + j <= l
      BY <1>7
    <3>3. u[j] = s.bytes[s.progress + j]
      BY <2>3
    <3>4. s.bytes[s.progress + j] \in {hashed[Offset(s.sequence) + (s.progress + j)], Stale}
      BY <1>5, <1>6, <3>2
    <3> QED BY <1>6, <3>1, <3>3, <3>4
  <2> HIDE DEF new
  <2> QED BY <2>4, <2>5
<1>11. \A p \in new : OnTarget(target', hashed, p)
  <2> HIDE DEF new
  <2> QED BY <1>10 DEF OnTarget
<1>12. \A p \in Nat : OnTarget(target, hashed, p) => OnTarget(target', hashed, p)
  <2> HIDE DEF new
  <2> QED BY <1>10, <1>11 DEF OnTarget
<1>13. DOMAIN target' \subseteq 0 .. (Len(hashed) - 1)
  <2>1. new \subseteq 0 .. (Len(hashed) - 1)
    <3>1. \A m \in (o + e) .. (o + e + n - 1) : m \in 0 .. (Len(hashed) - 1)
      BY <1>7
    <3> QED BY <1>9, <3>1
  <2>2. DOMAIN target \subseteq 0 .. (Len(hashed) - 1)
    BY <1>4 DEF HashedRight
  <2> QED BY <1>10, <2>1, <2>2
<1>14. BytesRight(slots', target', hashed, copy, edited, size)
  <2>1. ASSUME NEW i \in DOMAIN slots
        PROVE  BytesOf(slots[i], target', hashed, copy, edited, size)
    <3>1. slots[i].sequence \in Nat /\ BytesOf(slots[i], target, hashed, copy, edited, size)
      BY <1>4 DEF BytesRight
    <3> QED BY <1>12, <3>1, BytesStay
  <2> QED BY <1>1, <2>1 DEF BytesRight
<1>15. CompletedRight(slots', cq, target', hashed, copy, edited)
  <2>1. \A j \in DOMAIN cq : slots[cq[j].index].sequence \in Nat
    BY <1>4 DEF RequestsRight, OfSlot
  <2>2. CompletedRight(slots, cq, target', hashed, copy, edited)
    BY <1>4, <1>12, <2>1, CompletedStays
  <2> QED BY <1>1, <2>2
<1>16. Stored(s, target', hashed, s.progress + n)
  <2>1. SUFFICES ASSUME NEW k \in 1 .. ChunkSize, k <= s.progress + n
                 PROVE  OnTarget(target', hashed, Offset(s.sequence) + k - 1)
    BY DEF Stored
  <2>2. CASE k <= s.progress
    <3>1. OnTarget(target, hashed, Offset(s.sequence) + k - 1)
      BY <1>5, <2>2 DEF Stored
    <3>2. Offset(s.sequence) + k - 1 \in Nat
      BY <1>2, CopyAssumption
    <3> QED BY <1>12, <3>1, <3>2
  <2>3. CASE k > s.progress
    <3>1. Offset(s.sequence) + k - 1 \in new
      <4>1. k > e /\ k <= e + n
        BY <1>6, <2>1, <2>3
      <4>2. o + k - 1 \in (o + e) .. (o + e + n - 1)
        BY <1>7, <4>1
      <4> QED BY <1>6, <1>9, <4>2
    <3> QED BY <1>11, <3>1
  <2> QED BY <1>2, <2>2, <2>3, CopyAssumption
<1>17. LET d == [copy |-> r.copy, index |-> r.index, write |-> r.write, res |-> n]
       IN  Brought(slots'[r.index], d, target', hashed, copy, edited)
  BY <1>1, <1>16 DEF Brought
<1>18. faults' \in 0 .. MaxFaults /\ n \in Int /\ slots' \in [0 .. (SlotsOf(size) - 1) -> Slot]
  BY <1>1, <1>4 DEF EngineTypes
<1> HIDE DEF new
<1>19. \A i \in DOMAIN slots : /\ slots'[i].phase = slots[i].phase
                               /\ slots'[i].sequence = slots[i].sequence
                               /\ slots'[i].progress = slots[i].progress
  BY <1>1
<1> QED BY <1>1, <1>12, <1>13, <1>14, <1>15, <1>17, <1>18, <1>19, CompletionKeeps

\* A slot with other bytes.
Filled(s, b) == [s EXCEPT !.bytes = b]
LEMMA FilledSlot ==
    ASSUME NEW s \in Slot, NEW b \in [1 .. ChunkSize -> Unit]
    PROVE  /\ Filled(s, b) \in Slot /\ Filled(s, b).bytes = b
           /\ Filled(s, b).phase = s.phase /\ Filled(s, b).sequence = s.sequence
           /\ Filled(s, b).progress = s.progress
BY DEF Filled, Slot

\* A unit the kernel reads is of this copy and position, and while nobody has edited the
\* source it is the one of the manifest.
LEMMA ReadUnit ==
    ASSUME CopyInv, pc \in Looping, NEW p \in Nat, p + 1 <= Len(source)
    PROVE  SourceUnit(p) \in Unit /\ Good(copy, edited, SourceUnit(p), p)
<1>1. /\ copy \in Nat /\ OrderOK /\ source \in Seq(Nat)
  BY LoopFacts DEF EngineTypes
<1>2. p + 1 \in DOMAIN source /\ source[p + 1] \in Nat
  BY <1>1
<1>3. ~edited => source[p + 1] = 0
  BY <1>1, <1>2 DEF OrderOK, Looping
<1> QED BY <1>1, <1>2, <1>3 DEF SourceUnit, Unit, Good

\* The kernel reads a part of a chunk.
LEMMA ExecuteReadKeeps ==
    ASSUME CopyInv, NEW r \in kernel, NEW n \in 0 .. ChunkSize, Execute(r, n), ~r.write
    PROVE  CopyInv'
<1> DEFINE s == slots[r.index]
           b == Pread(s.bytes, r.data, r.offset, n)
<1>1. /\ n <= r.remaining /\ (n # 0 => r.offset + n <= Len(source))
      /\ slots' = [slots EXCEPT ![r.index] = Filled(s, b)]
      /\ kernel' = kernel \ {r} /\ target' = target
      /\ cq' = Append(cq, [copy |-> r.copy, index |-> r.index, write |-> r.write, res |-> n])
      /\ UNCHANGED <<pc, copy, size, source, edited, edits, hashed, next_read, next_hash,
                     failure, in_flight, ring, sq, orphans, waitFailed, result, faults>>
  <2>2. slots' = [slots EXCEPT ![r.index] = Filled(s, b)]
    BY DEF Execute, Filled
  <2>3. /\ n <= r.remaining /\ (n # 0 => r.offset + n <= Len(source))
        /\ kernel' = kernel \ {r} /\ target' = target
        /\ cq' = Append(cq, [copy |-> r.copy, index |-> r.index, write |-> r.write, res |-> n])
        /\ UNCHANGED <<pc, copy, size, source, edited, edits, hashed, next_read, next_hash,
                       failure, in_flight, ring, sq, orphans, waitFailed, result, faults>>
    BY DEF Execute, sourceVars, cursors
  <2> HIDE DEF b
  <2> QED BY <2>2, <2>3
<1>2. /\ pc \in Looping /\ r \in Request /\ r.index \in DOMAIN slots /\ s \in Slot
      /\ s.phase = Phase(r.write) /\ r.data = s.progress
      /\ s.sequence \in Nat /\ Offset(s.sequence) \in Nat
      /\ s.progress \in 0 .. ChunkSize /\ ChunkLen(size, s.sequence) \in 1 .. ChunkSize
      /\ r.offset = Offset(s.sequence) + s.progress /\ r.offset \in Nat
      /\ r.remaining = ChunkLen(size, s.sequence) - s.progress /\ r.remaining \in Nat
      /\ BytesOf(s, target, hashed, copy, edited, size)
  BY ExecutedFacts
<1>3. s.phase = "Reading"
  BY <1>2 DEF Phase
<1>4. /\ BytesRight(slots, target, hashed, copy, edited, size)
      /\ CompletedRight(slots, cq, target, hashed, copy, edited)
      /\ HashedRight(slots, target, hashed, next_hash, size)
      /\ OnePlace(sq, kernel, cq, in_flight)
      /\ slots \in [0 .. (SlotsOf(size) - 1) -> Slot]
      /\ DOMAIN slots = 0 .. (SlotsOf(size) - 1)
      /\ EngineTypes /\ source \in Seq(Nat)
  BY <1>2, LoopFacts DEF EngineTypes
<1>5. Loaded(s, copy, edited, s.progress)
  BY <1>2, <1>3 DEF BytesOf
<1>6. PICK e \in Nat, o \in Nat :
            /\ e = s.progress /\ o = Offset(s.sequence)
            /\ r.data = e /\ r.offset = o + e /\ (n # 0 => o + e + n <= Len(source))
  BY <1>1, <1>2, CopyAssumption
<1>7. /\ (n # 0 => o + e + n <= Len(source)) /\ Len(source) \in Nat
      /\ n \in Nat /\ ChunkSize \in Nat
  BY <1>4, <1>6, CopyAssumption
<1>8. ASSUME NEW k \in 1 .. ChunkSize
      PROVE  /\ k <= e => b[k] = s.bytes[k]
             /\ k > e /\ k <= e + n => b[k] = SourceUnit(o + k - 1)
             /\ k > e + n => b[k] = s.bytes[k]
  <2>1. b[k] = IF k - 1 \in r.data .. (r.data + n - 1)
               THEN SourceUnit(r.offset + k - 1 - r.data) ELSE s.bytes[k]
    BY DEF Pread
  <2> HIDE DEF b
  <2>2. b[k] = IF k - 1 \in e .. (e + n - 1) THEN SourceUnit(o + e + k - 1 - e) ELSE s.bytes[k]
    BY <1>6, <2>1
  <2>3. /\ o + e + k - 1 - e = o + k - 1 /\ (k <= e => ~(k - 1 \in e .. (e + n - 1)))
        /\ (k > e /\ k <= e + n => k - 1 \in e .. (e + n - 1))
        /\ (k > e + n => ~(k - 1 \in e .. (e + n - 1)))
    BY <1>7
  <2> QED BY <2>2, <2>3
<1>9. b \in [1 .. ChunkSize -> Unit]
  <2>1. s.bytes \in [1 .. ChunkSize -> Unit]
    BY <1>2 DEF Slot
  <2>2. ASSUME NEW k \in 1 .. ChunkSize PROVE b[k] \in Unit
    <3>1. CASE k > e /\ k <= e + n
      <4>1. o + k - 1 \in Nat /\ o + k - 1 + 1 <= Len(source)
        BY <1>7, <3>1
      <4> QED BY <1>2, <1>8, <3>1, <4>1, ReadUnit
    <3>2. CASE ~(k > e /\ k <= e + n)
      <4>1. k <= e \/ k > e + n
        BY <1>7, <3>2
      <4> QED BY <1>8, <2>1, <4>1
    <3> QED BY <3>1, <3>2
  <2>3. b = [k \in 1 .. ChunkSize |-> b[k]]
    BY DEF Pread
  <2> HIDE DEF b
  <2> QED BY <2>2, <2>3
<1> HIDE DEF b
<1>10. PICK x : x = Filled(s, b)
  OBVIOUS
<1>11. /\ x \in Slot /\ x.bytes = b /\ x.phase = "Reading" /\ x.sequence = s.sequence
       /\ x.progress = s.progress
  BY <1>2, <1>3, <1>9, <1>10, FilledSlot
<1>12. Loaded(x, copy, edited, e + n)
  <2>1. SUFFICES ASSUME NEW k \in 1 .. ChunkSize, k <= e + n
                 PROVE  Good(copy, edited, b[k], o + k - 1)
    BY <1>6, <1>11 DEF Loaded
  <2>2. CASE k <= e
    BY <1>5, <1>6, <1>8, <2>2 DEF Loaded
  <2>3. CASE k > e
    <3>1. o + k - 1 \in Nat /\ o + k - 1 + 1 <= Len(source)
      BY <1>7, <2>1, <2>3
    <3> QED BY <1>2, <1>8, <2>1, <2>3, <3>1, ReadUnit
  <2> QED BY <1>7, <2>2, <2>3
<1>13. Loaded(x, copy, edited, x.progress)
  <2>1. \A k \in 1 .. ChunkSize : k <= e => k <= e + n
    BY <1>7
  <2>2. x.progress = e
    BY <1>6, <1>11
  <2> QED BY <1>12, <2>1, <2>2 DEF Loaded
<1>14. /\ slots' = [slots EXCEPT ![r.index] = x] /\ slots'[r.index] = x
       /\ DOMAIN slots' = DOMAIN slots
       /\ \A i \in DOMAIN slots : i # r.index => slots'[i] = slots[i]
  BY <1>1, <1>2, <1>4, <1>10
<1>15. BytesRight(slots', target', hashed, copy, edited, size)
  <2>1. BytesOf(x, target, hashed, copy, edited, size)
    BY <1>11, <1>13 DEF BytesOf
  <2>2. BytesRight(slots', target, hashed, copy, edited, size)
    BY <1>4, <1>14, <2>1 DEF BytesRight
  <2> QED BY <1>1, <2>2
<1>16. CompletedRight(slots', cq, target', hashed, copy, edited)
  <2>1. \A j \in DOMAIN cq : cq[j].index # r.index
    BY <1>4 DEF OnePlace
  <2>2. \A j \in DOMAIN cq : slots'[cq[j].index] = slots[cq[j].index]
    BY <1>14, <2>1
  <2> QED BY <1>1, <1>4, <2>2 DEF CompletedRight
<1>17. LET d == [copy |-> r.copy, index |-> r.index, write |-> r.write, res |-> n]
       IN  Brought(slots'[r.index], d, target', hashed, copy, edited)
  <2>1. x.progress + n = e + n
    BY <1>6, <1>11
  <2> QED BY <1>12, <1>14, <2>1 DEF Brought
<1>18. faults' \in 0 .. MaxFaults /\ n \in Int /\ slots' \in [0 .. (SlotsOf(size) - 1) -> Slot]
  <2>1. faults' \in 0 .. MaxFaults /\ n \in Int
    BY <1>1, <1>4, <1>7 DEF EngineTypes
  <2>2. slots' \in [0 .. (SlotsOf(size) - 1) -> Slot]
    BY <1>4, <1>11, <1>14
  <2> QED BY <2>1, <2>2
<1>19. \A i \in DOMAIN slots : /\ slots'[i].phase = slots[i].phase
                               /\ slots'[i].sequence = slots[i].sequence
                               /\ slots'[i].progress = slots[i].progress
  BY <1>3, <1>11, <1>14
<1>20. DOMAIN target' \subseteq 0 .. (Len(hashed) - 1)
  BY <1>1, <1>4 DEF HashedRight
<1>21. \A p \in Nat : OnTarget(target, hashed, p) => OnTarget(target', hashed, p)
  BY <1>1
<1> QED BY <1>1, <1>15, <1>16, <1>17, <1>18, <1>19, <1>20, <1>21, CompletionKeeps

\* A request fails.
LEMMA ExecuteFailsKeeps ==
    ASSUME CopyInv, NEW r \in kernel, ExecuteFails(r)
    PROVE  CopyInv'
<1> DEFINE s == slots[r.index]
<1>1. /\ kernel' = kernel \ {r} /\ target' = target /\ slots' = slots
      /\ cq' = Append(cq, [copy |-> r.copy, index |-> r.index, write |-> r.write, res |-> -1])
      /\ UNCHANGED <<pc, copy, size, source, edited, edits, hashed, next_read, next_hash,
                     failure, in_flight, ring, sq, orphans, waitFailed, result>>
      /\ faults < MaxFaults /\ faults' = faults + 1
  BY DEF ExecuteFails, sourceVars, engineVars, cursors
<1>2. /\ pc \in Looping /\ r.index \in DOMAIN slots
      /\ s.phase = Phase(r.write) /\ s.progress \in 0 .. ChunkSize
      /\ r.write \in BOOLEAN /\ r.remaining \in Nat
      /\ BytesOf(s, target, hashed, copy, edited, size)
  BY ExecutedFacts
<1>3. /\ BytesRight(slots, target, hashed, copy, edited, size)
      /\ CompletedRight(slots, cq, target, hashed, copy, edited)
      /\ HashedRight(slots, target, hashed, next_hash, size)
      /\ slots \in [0 .. (SlotsOf(size) - 1) -> Slot] /\ EngineTypes
  BY <1>2, LoopFacts
<1>4. \A k \in 1 .. ChunkSize : k <= s.progress + (-1) => k <= s.progress
  BY <1>2, CopyAssumption
<1>5. LET d == [copy |-> r.copy, index |-> r.index, write |-> r.write, res |-> -1]
      IN  Brought(slots'[r.index], d, target', hashed, copy, edited)
  <2>1. r.write => Stored(s, target, hashed, s.progress + (-1))
    BY <1>2, <1>4 DEF BytesOf, Stored, Phase
  <2>2. ~r.write => Loaded(s, copy, edited, s.progress + (-1))
    BY <1>2, <1>4 DEF BytesOf, Loaded, Phase
  <2> QED BY <1>1, <2>1, <2>2 DEF Brought
<1>6. faults' \in 0 .. MaxFaults /\ -1 \in Int /\ -1 <= r.remaining
  BY <1>1, <1>2, <1>3, CopyAssumption DEF EngineTypes
<1>7. /\ slots' \in [0 .. (SlotsOf(size) - 1) -> Slot]
      /\ BytesRight(slots', target', hashed, copy, edited, size)
      /\ CompletedRight(slots', cq, target', hashed, copy, edited)
      /\ DOMAIN target' \subseteq 0 .. (Len(hashed) - 1)
  BY <1>1, <1>3 DEF HashedRight
<1>8. \A i \in DOMAIN slots : /\ slots'[i].phase = slots[i].phase
                              /\ slots'[i].sequence = slots[i].sequence
                              /\ slots'[i].progress = slots[i].progress
  BY <1>1
<1>9. \A p \in Nat : OnTarget(target, hashed, p) => OnTarget(target', hashed, p)
  BY <1>1
<1> QED BY <1>1, <1>5, <1>6, <1>7, <1>8, <1>9, CompletionKeeps

-----------------------------------------------------------------------------
(* Steps that leave the requests alone.                                    *)

\* Units of a buffer become stale, and nothing else of its slot changes.
Tainted(s, x) ==
    /\ x \in Slot /\ x.phase = s.phase /\ x.sequence = s.sequence /\ x.progress = s.progress
    /\ \A k \in 1 .. ChunkSize : x.bytes[k] \in {s.bytes[k], Stale}
LEMMA TaintedBytes ==
    ASSUME NEW s, NEW x, Tainted(s, x), NEW t, NEW h, NEW c, NEW e, NEW z,
           BytesOf(s, t, h, c, e, z)
    PROVE  BytesOf(x, t, h, c, e, z)
<1>1. \A u, v, p : u \in {v, Stale} /\ Good(c, e, v, p) => Good(c, e, u, p)
  BY DEF Good
<1>2. \A n : Loaded(s, c, e, n) => Loaded(x, c, e, n)
  BY <1>1 DEF Loaded, Tainted
<1>3. \A n : Stored(s, t, h, n) => Stored(x, t, h, n)
  BY DEF Stored, Tainted
<1>4. s.phase = "Writing" =>
        \A k \in 1 .. ChunkSize :
            k <= ChunkLen(z, s.sequence) => x.bytes[k] \in {h[Offset(s.sequence) + k], Stale}
  BY DEF BytesOf, Tainted
<1>5. x.phase = s.phase /\ x.sequence = s.sequence /\ x.progress = s.progress
  BY DEF Tainted
<1> QED BY <1>2, <1>3, <1>4, <1>5 DEF BytesOf

\* An abandoned read ends, possibly in a buffer of this copy.
LEMMA OrphanEndsKeeps ==
    ASSUME CopyInv, NEW b \in orphans, OrphanEnds(b)
    PROVE  CopyInv'
<1>1. /\ orphans' = orphans \ {b}
      /\ UNCHANGED <<pc, copy, size, source, edited, edits, target, hashed, next_read,
                     next_hash, failure, in_flight, ring, sq, kernel, cq, waitFailed, result,
                     faults>>
      /\ slots' = slots \/ \E i \in DOMAIN slots, n \in 1 .. ChunkSize : Spoil(i, n)
  BY DEF OrphanEnds, sourceVars, cursors
<1>2. CleanOK'
  BY <1>1 DEF CopyInv, CleanOK
<1>3. OrderOK' /\ OkMatchesSource'
  BY <1>1 DEF CopyInv, OrderOK, OkMatchesSource, TargetIs
<1>4. CASE pc \notin Looping
  <2>1. EngineTypes'
    BY <1>1, <1>4 DEF CopyInv, EngineTypes
  <2>2. LoopInv'
    BY <1>1, <1>4 DEF LoopInv
  <2> QED BY <1>2, <1>3, <2>1, <2>2 DEF CopyInv
<1>5. CASE pc \in Looping /\ slots' = slots
  <2>1. EngineTypes'
    BY <1>1, <1>5 DEF CopyInv, EngineTypes
  <2>2. LoopInv'
    BY <1>1, <1>5 DEF CopyInv, LoopInv, LoopOK
  <2> QED BY <1>2, <1>3, <2>1, <2>2 DEF CopyInv
<1>6. ASSUME pc \in Looping, NEW i \in DOMAIN slots, NEW n \in 1 .. ChunkSize, Spoil(i, n)
      PROVE  CopyInv'
  <2>1. /\ EngineTypes /\ LoopOK /\ RequestsRight(slots, sq, kernel, cq, copy, size)
        /\ OnePlace(sq, kernel, cq, in_flight) /\ (~failure => Served(slots, sq, kernel, cq))
        /\ SlotsRight(slots, next_read, next_hash, size)
        /\ BytesRight(slots, target, hashed, copy, edited, size)
        /\ CompletedRight(slots, cq, target, hashed, copy, edited)
        /\ HashedRight(slots, target, hashed, next_hash, size)
        /\ slots \in [0 .. (SlotsOf(size) - 1) -> Slot] /\ slots[i] \in Slot
    BY <1>6, LoopFacts
  <2>2. PICK d : d = [k \in 1 .. ChunkSize |-> IF k >= n THEN Stale ELSE slots[i].bytes[k]]
    OBVIOUS
  <2>3. slots' = [slots EXCEPT ![i] = Filled(slots[i], d)]
    BY <1>6, <2>2 DEF Spoil, Filled
  <2>4. d \in [1 .. ChunkSize -> Unit]
    <3>1. slots[i].bytes \in [1 .. ChunkSize -> Unit]
      BY <2>1 DEF Slot
    <3>2. Stale \in Unit
      BY DEF Stale, Unit
    <3> QED BY <2>2, <3>1, <3>2
  <2>5. Tainted(slots[i], Filled(slots[i], d))
    <3>1. \A k \in 1 .. ChunkSize : d[k] \in {slots[i].bytes[k], Stale}
      BY <2>2
    <3>2. /\ Filled(slots[i], d) \in Slot /\ Filled(slots[i], d).bytes = d
          /\ Filled(slots[i], d).phase = slots[i].phase
          /\ Filled(slots[i], d).sequence = slots[i].sequence
          /\ Filled(slots[i], d).progress = slots[i].progress
      BY <2>1, <2>4, FilledSlot
    <3> QED BY <3>1, <3>2 DEF Tainted
  <2>6. /\ slots' \in [0 .. (SlotsOf(size) - 1) -> Slot] /\ DOMAIN slots' = DOMAIN slots
        /\ \A j \in DOMAIN slots : Tainted(slots[j], slots'[j])
    <3>1. \A j \in DOMAIN slots : Tainted(slots[j], slots[j])
      BY <2>1 DEF Tainted
    <3>2. Filled(slots[i], d) \in Slot
      BY <2>5 DEF Tainted
    <3> QED BY <2>1, <2>3, <2>5, <3>1, <3>2
  <2>7. \A j \in DOMAIN slots : /\ slots'[j].phase = slots[j].phase
                                /\ slots'[j].sequence = slots[j].sequence
                                /\ slots'[j].progress = slots[j].progress
    BY <2>6 DEF Tainted
  <2>8. EngineTypes'
    BY <1>1, <2>1, <2>6 DEF EngineTypes
  <2>9. LoopOK'
    BY <1>1, <2>1, <2>6, <2>7 DEF LoopOK
  <2>10. RequestsRight(slots', sq, kernel, cq, copy, size)
    BY <2>1, <2>6, <2>7 DEF RequestsRight, ForSlot, OfSlot
  <2>11. Served(slots, sq, kernel, cq) => Served(slots', sq, kernel, cq)
    BY <2>6, <2>7 DEF Served
  <2>12. SlotsRight(slots', next_read, next_hash, size)
    BY <2>1, <2>6, <2>7 DEF SlotsRight, SlotRight
  <2>13. BytesRight(slots', target, hashed, copy, edited, size)
    BY <2>1, <2>6, TaintedBytes DEF BytesRight
  <2>14. CompletedRight(slots', cq, target, hashed, copy, edited)
    <3>1. SUFFICES ASSUME NEW j \in DOMAIN cq
                   PROVE  Brought(slots'[cq[j].index], cq[j], target, hashed, copy, edited)
      BY DEF CompletedRight
    <3>2. PICK m \in DOMAIN slots : m = cq[j].index
      BY <2>1 DEF RequestsRight, OfSlot
    <3>3. Brought(slots[m], cq[j], target, hashed, copy, edited)
      BY <2>1, <3>2 DEF CompletedRight
    <3>4. Tainted(slots[m], slots'[m])
      BY <2>6
    <3>5. \A u, v, p : u \in {v, Stale} /\ Good(copy, edited, v, p) => Good(copy, edited, u, p)
      BY DEF Good
    <3>6. \A l : Loaded(slots[m], copy, edited, l) => Loaded(slots'[m], copy, edited, l)
      BY <3>4, <3>5 DEF Loaded, Tainted
    <3>7. \A l : Stored(slots[m], target, hashed, l) => Stored(slots'[m], target, hashed, l)
      BY <3>4 DEF Stored, Tainted
    <3>8. slots'[m].progress = slots[m].progress
      BY <3>4 DEF Tainted
    <3> QED BY <3>2, <3>3, <3>6, <3>7, <3>8 DEF Brought
  <2>15. HashedRight(slots', target, hashed, next_hash, size)
    <3>1. \A q : Written(slots', q) => Written(slots, q)
      BY <2>6, <2>7 DEF Written
    <3> QED BY <2>1, <3>1 DEF HashedRight
  <2>16. LoopInv'
    BY <1>1, <2>1, <2>9, <2>10, <2>11, <2>12, <2>13, <2>14, <2>15 DEF LoopInv
  <2> QED BY <1>2, <1>3, <2>8, <2>16 DEF CopyInv
<1> QED BY <1>1, <1>4, <1>5, <1>6

\* Another program edits the source; what is read from now on may differ from the manifest.
LEMMA EditSourceKeeps ==
    ASSUME CopyInv, EditSource
    PROVE  CopyInv'
<1>1. /\ pc # "idle" /\ edits < MaxEdits /\ edits' = edits + 1 /\ edited' = TRUE
      /\ \/ \E p \in DOMAIN source : source' = [source EXCEPT ![p] = @ + 1]
         \/ source # <<>> /\ source' = SubSeq(source, 1, Len(source) - 1)
         \/ source' = Append(source, 0)
      /\ UNCHANGED <<pc, copy, size, target, hashed, slots, next_read, next_hash, failure,
                     in_flight, ring, sq, kernel, cq, orphans, waitFailed, result, faults>>
  BY DEF EditSource, engineVars, cursors, ringVars
<1>2. EngineTypes /\ CleanOK /\ LoopInv /\ OrderOK /\ OkMatchesSource
  BY DEF CopyInv
<1>3. source' \in Seq(Nat)
  <2>1. source \in Seq(Nat)
    BY <1>2 DEF EngineTypes
  <2>2. CASE \E p \in DOMAIN source : source' = [source EXCEPT ![p] = @ + 1]
    <3>1. PICK p \in DOMAIN source : source' = [source EXCEPT ![p] = source[p] + 1]
      BY <2>2
    <3>2. source[p] + 1 \in Nat
      BY <2>1
    <3> QED BY <2>1, <3>1, <3>2
  <2>3. CASE source # <<>> /\ source' = SubSeq(source, 1, Len(source) - 1)
    <3>1. Len(source) \in Nat /\ DOMAIN source = 1 .. Len(source)
          /\ \A k \in 1 .. (Len(source) - 1) : source[k] \in Nat
      BY <2>1
    <3> QED BY <2>3, <3>1, SubSeqProperties
  <2>4. CASE source' = Append(source, 0)
    BY <2>1, <2>4
  <2> QED BY <1>1, <2>2, <2>3, <2>4
<1>4. EngineTypes'
  <2>1. edits' \in 0 .. MaxEdits
    <3>1. edits \in 0 .. MaxEdits
      BY <1>2 DEF EngineTypes
    <3>2. edits < MaxEdits /\ edits' = edits + 1
      BY <1>1
    <3> QED BY <3>1, <3>2, CopyAssumption
  <2> QED BY <1>1, <1>2, <1>3, <2>1 DEF EngineTypes
<1>5. CleanOK'
  BY <1>1, <1>2 DEF CleanOK
<1>6. \A c, u, p : Good(c, edited, u, p) => Good(c, TRUE, u, p)
  BY DEF Good
<1>7. ASSUME pc \in Looping PROVE LoopInv'
  <2>1. /\ BytesRight(slots, target, hashed, copy, edited, size)
        /\ CompletedRight(slots, cq, target, hashed, copy, edited)
    BY <1>2, <1>7 DEF LoopInv
  <2>2. \A s, n : Loaded(s, copy, edited, n) => Loaded(s, copy, TRUE, n)
    BY <1>6 DEF Loaded
  <2>3. BytesRight(slots, target, hashed, copy, TRUE, size)
    BY <2>1, <2>2 DEF BytesRight, BytesOf
  <2>4. CompletedRight(slots, cq, target, hashed, copy, TRUE)
    BY <2>1, <2>2 DEF CompletedRight, Brought
  <2>5. /\ BytesRight(slots', target', hashed', copy', edited', size')
        /\ CompletedRight(slots', cq', target', hashed', copy', edited')
    BY <1>1, <2>3, <2>4
  <2>6. /\ LoopOK' /\ OnePlace(sq', kernel', cq', in_flight')
        /\ RequestsRight(slots', sq', kernel', cq', copy', size')
        /\ ~failure' => Served(slots', sq', kernel', cq')
        /\ SlotsRight(slots', next_read', next_hash', size')
        /\ HashedRight(slots', target', hashed', next_hash', size')
    BY <1>1, <1>2, <1>7 DEF LoopInv, LoopOK
  <2> QED BY <2>5, <2>6 DEF LoopInv
<1>8. LoopInv'
  BY <1>1, <1>7 DEF LoopInv
<1>9. OrderOK' /\ OkMatchesSource'
  <2>1. \A k \in DOMAIN hashed : Good(copy, TRUE, hashed[k], k - 1)
    BY <1>1, <1>2, <1>6 DEF OrderOK
  <2>2. result # "ok"
    BY <1>1, <1>2 DEF OrderOK
  <2> QED BY <1>1, <1>2, <2>1, <2>2 DEF OrderOK, OkMatchesSource, TargetIs
<1> QED BY <1>4, <1>5, <1>8, <1>9 DEF CopyInv

-----------------------------------------------------------------------------
(* The end of the loop.                                                    *)

\* Outside the loop the ring and the cursors have to be clean.
LEMMA OutsideLoop ==
    ASSUME EngineTypes', OrderOK', OkMatchesSource', pc' \notin Looping,
           next_read' = 0, next_hash' = 0, ~failure', in_flight' = 0,
           sq' = <<>>, kernel' = {}, cq' = <<>>, orphans' # {} => waitFailed'
    PROVE  CopyInv'
BY DEF CopyInv, CleanOK, LoopInv

\* The ring is closed over requests that are still executed, and the copy fails.
LEMMA WaitFailsKeeps ==
    ASSUME CopyInv, WaitFails
    PROVE  CopyInv'
<1>1. /\ pc = "engine" /\ faults < MaxFaults /\ faults' = faults + 1 /\ waitFailed' = TRUE
      /\ ring' = "none" /\ sq' = <<>> /\ cq' = <<>> /\ kernel' = {}
      /\ orphans' = orphans \cup {[copy |-> r.copy, index |-> r.index] :
                                  r \in {q \in kernel : ~q.write}}
      /\ pc' = "idle" /\ result' = "error"
      /\ next_read' = 0 /\ next_hash' = 0 /\ failure' = FALSE /\ in_flight' = 0
      /\ UNCHANGED <<copy, size, source, edited, edits, target, hashed>>
  BY DEF WaitFails, ResetRing, FreeBuffers, sourceVars
<1>2. EngineTypes
  BY DEF CopyInv
<1>3. EngineTypes'
  <2>1. faults' \in 0 .. MaxFaults
    BY <1>1, <1>2, CopyAssumption DEF EngineTypes
  <2>2. /\ sq' \in Seq(Request) /\ cq' \in Seq(Completion)
        /\ kernel' \subseteq Request /\ orphans' \subseteq Orphan
    <3>1. \A r \in kernel : [copy |-> r.copy, index |-> r.index] \in Orphan
      BY <1>2 DEF EngineTypes, Request, Orphan
    <3>2. orphans' \subseteq Orphan
      BY <1>1, <1>2, <3>1 DEF EngineTypes
    <3> QED BY <1>1, <3>2
  <2>3. pc' \notin Looping /\ pc' = "idle"
    BY <1>1 DEF Looping
  <2> QED BY <1>1, <1>2, <2>1, <2>2, <2>3 DEF EngineTypes
<1>4. OrderOK' /\ OkMatchesSource'
  BY <1>1 DEF OrderOK, OkMatchesSource
<1>5. pc' \notin Looping
  BY <1>1 DEF Looping
<1> QED BY <1>1, <1>3, <1>4, <1>5, OutsideLoop

\* When nothing is in flight the kernel and the completion queue are empty.
LEMMA NothingInFlight ==
    ASSUME CopyInv, pc \in Looping, in_flight = 0
    PROVE  kernel = {} /\ cq = <<>> /\ BusyIn(kernel, cq) = {}
<1>1. /\ OnePlace(sq, kernel, cq, in_flight) /\ kernel \in SUBSET Request
      /\ cq \in Seq(Completion)
  BY LoopFacts, QueueTypes
<1>2. IsFiniteSet(BusyIn(kernel, cq)) /\ Cardinality(BusyIn(kernel, cq)) = 0
  BY <1>1, BusyFinite DEF OnePlace
<1>3. BusyIn(kernel, cq) = {}
  BY <1>2, FS_EmptySet
<1>4. kernel = {} /\ DOMAIN cq = {}
  BY <1>3, Zenon DEF BusyIn
<1>5. cq = <<>>
  BY <1>1, <1>4
<1> QED BY <1>3, <1>4, <1>5

\* Then, if nothing failed, every chunk that was hashed has been written.
LEMMA AllWritten ==
    ASSUME CopyInv, pc = "engine", in_flight = 0, ~failure, next_hash = ChunkCount
    PROVE  TargetIs(hashed) /\ Len(hashed) = size /\ sq = <<>>
<1>1. pc \in Looping
  BY DEF Looping
<1>2. /\ LoopOK /\ Served(slots, sq, kernel, cq)
      /\ HashedRight(slots, target, hashed, next_hash, size)
      /\ size \in Nat /\ next_hash = Chunks(size) /\ Chunks(size) \in Nat
  BY <1>1, LoopFacts
<1>3. sq = <<>> /\ BusyIn(kernel, cq) = {}
  BY <1>1, <1>2, NothingInFlight DEF LoopOK
<1>4. \A i \in DOMAIN slots : slots[i].phase \notin {"Reading", "Writing"}
  <2>1. DOMAIN sq = {}
    BY <1>3
  <2>2. Used(sq, kernel, cq) = {}
    BY <1>3, <2>1, Zenon DEF Used
  <2> QED BY <1>2, <2>2 DEF Served
<1>5. \A q : Written(slots, q)
  BY <1>4 DEF Written
<1>6. Len(hashed) = size /\ DOMAIN target \subseteq 0 .. (size - 1)
  BY <1>2 DEF HashedRight
<1>7. ASSUME NEW p \in 0 .. (size - 1) PROVE OnTarget(target, hashed, p)
  <2>1. p \in Nat /\ p < size
    BY <1>2
  <2>2. PICK q \in Nat : q < Chunks(size)
                         /\ p \in Offset(q) .. (Offset(q) + ChunkLen(size, q) - 1)
    BY <1>2, <2>1, ChunkOf
  <2>3. q \in 0 .. (next_hash - 1)
    BY <1>2, <2>2
  <2> QED BY <1>2, <1>5, <2>2, <2>3 DEF HashedRight
<1>8. DOMAIN target = 0 .. (size - 1)
  BY <1>6, <1>7 DEF OnTarget
<1> QED BY <1>3, <1>6, <1>7, <1>8 DEF TargetIs, OnTarget

\* The loop ends with everything written, or with an error.
LEMMA EngineReturnsKeeps ==
    ASSUME CopyInv, EngineReturns
    PROVE  CopyInv'
<1>1. /\ pc = "engine" /\ in_flight = 0
      /\ next_read' = 0 /\ next_hash' = 0 /\ failure' = FALSE /\ in_flight' = 0
      /\ UNCHANGED <<copy, size, source, edited, edits, target, hashed, waitFailed, faults>>
  BY DEF EngineReturns, FreeBuffers, sourceVars
<1>2. pc \in Looping
  BY <1>1 DEF Looping
<1>3. EngineTypes /\ CleanOK /\ OrderOK /\ LoopOK
  BY <1>2, LoopFacts
<1>4. kernel = {} /\ cq = <<>>
  BY <1>1, <1>2, NothingInFlight
<1>5. CASE failure
  <2>1. /\ ring' = "none" /\ sq' = <<>> /\ cq' = <<>> /\ kernel' = {}
        /\ orphans' = orphans /\ pc' = "idle" /\ result' = "error"
    BY <1>4, <1>5 DEF EngineReturns, ResetRing
  <2>2. EngineTypes'
    <3>1. /\ sq' \in Seq(Request) /\ cq' \in Seq(Completion)
          /\ kernel' \subseteq Request /\ orphans' \subseteq Orphan
      BY <1>3, <2>1 DEF EngineTypes
    <3>2. pc' \notin Looping /\ pc' = "idle"
      BY <2>1 DEF Looping
    <3> QED BY <1>1, <1>3, <2>1, <3>1, <3>2 DEF EngineTypes
  <2>3. OrderOK' /\ OkMatchesSource' /\ pc' \notin Looping
    BY <2>1 DEF OrderOK, OkMatchesSource, Looping
  <2>4. orphans' # {} => waitFailed'
    BY <1>1, <1>3, <1>4, <2>1 DEF CleanOK
  <2> QED BY <1>1, <2>1, <2>2, <2>3, <2>4, OutsideLoop
<1>6. CASE ~failure
  <2>1. /\ UNCHANGED <<ring, sq, kernel, cq, orphans>>
        /\ \/ next_hash = ChunkCount /\ pc' = "after" /\ result' = result
           \/ pc' = "idle" /\ result' = "error"
    BY <1>6 DEF EngineReturns, ringVars
  <2>2. pc' \notin Looping /\ pc' \in {"after", "idle"}
    BY <2>1 DEF Looping
  <2>3. EngineTypes'
    BY <1>1, <1>3, <2>1, <2>2 DEF EngineTypes
  <2>4. sq = <<>>
    BY <1>1, <1>3, <1>6 DEF LoopOK
  <2>5. orphans' # {} => waitFailed'
    BY <1>1, <1>3, <2>1 DEF CleanOK
  <2>6. CASE pc' = "idle" /\ result' = "error"
    <3>1. OrderOK' /\ OkMatchesSource'
      BY <2>6 DEF OrderOK, OkMatchesSource
    <3> QED BY <1>1, <1>4, <2>1, <2>2, <2>3, <2>4, <2>5, <3>1, OutsideLoop
  <2>7. CASE next_hash = ChunkCount /\ pc' = "after" /\ result' = result
    <3>1. TargetIs(hashed) /\ Len(hashed) = size
      BY <1>1, <1>6, <2>7, AllWritten
    <3>2. result # "ok"
      BY <1>1, <1>3 DEF OrderOK
    <3>3. TargetIs(hashed)'
      BY <1>1, <3>1 DEF TargetIs
    <3>4. OrderOK' /\ OkMatchesSource'
      BY <1>1, <1>3, <2>1, <2>7, <3>1, <3>2, <3>3 DEF OrderOK, OkMatchesSource
    <3> QED BY <1>1, <1>4, <2>1, <2>2, <2>3, <2>4, <2>5, <3>4, OutsideLoop
  <2> QED BY <2>1, <2>6, <2>7
<1> QED BY <1>5, <1>6

\* The digest cannot be computed: an error, with the ring as clean as after a good copy.
LEMMA FinalizeFailsKeeps ==
    ASSUME CopyInv, FinalizeFails
    PROVE  CopyInv'
<1>1. /\ pc = "engine" /\ in_flight = 0 /\ ~failure
      /\ faults < MaxFaults /\ faults' = faults + 1 /\ pc' = "idle" /\ result' = "error"
      /\ next_read' = 0 /\ next_hash' = 0 /\ failure' = FALSE /\ in_flight' = 0
      /\ UNCHANGED <<copy, size, source, edited, edits, target, hashed, ring, sq, kernel, cq,
                     orphans, waitFailed>>
  BY DEF FinalizeFails, FreeBuffers, sourceVars, ringVars
<1>2. pc \in Looping /\ pc' \notin Looping
  BY <1>1 DEF Looping
<1>3. EngineTypes /\ CleanOK /\ LoopOK
  BY <1>2, LoopFacts
<1>4. kernel = {} /\ cq = <<>> /\ sq = <<>>
  BY <1>1, <1>2, <1>3, NothingInFlight DEF LoopOK
<1>5. faults' \in 0 .. MaxFaults
  <2>1. faults \in 0 .. MaxFaults
    BY <1>3 DEF EngineTypes
  <2> QED BY <1>1, <2>1, CopyAssumption
<1>6. EngineTypes'
  BY <1>1, <1>2, <1>3, <1>5 DEF EngineTypes
<1>7. OrderOK' /\ OkMatchesSource'
  BY <1>1 DEF OrderOK, OkMatchesSource
<1>8. orphans' # {} => waitFailed'
  BY <1>1, <1>3 DEF CleanOK
<1> QED BY <1>1, <1>2, <1>4, <1>6, <1>7, <1>8, OutsideLoop

-----------------------------------------------------------------------------
(* The beginning of a copy.                                                *)

\* A new copy finds the ring and the cursors clean, and the source as the manifest has it.
LEMMA NewCopyFacts ==
    ASSUME CopyInv, NEW n \in Sizes, NewCopy(n)
    PROVE  /\ n \in Nat /\ size' = n /\ copy' \in 1 .. MaxCopies
           /\ source' \in Seq(Nat) /\ Len(source') = n
           /\ \A k \in DOMAIN source' : source'[k] = 0
           /\ edited' = FALSE /\ target' = <<>> /\ hashed' = <<>>
           /\ next_read' = 0 /\ next_hash' = 0 /\ failure' = FALSE /\ in_flight' = 0
           /\ sq' = <<>> /\ kernel' = {} /\ cq' = <<>>
           /\ orphans' = orphans /\ waitFailed' = waitFailed /\ edits' = edits
           /\ orphans' # {} => waitFailed'
<1>1. /\ pc = "idle" /\ copy < MaxCopies /\ copy' = copy + 1 /\ size' = n
      /\ source' = [p \in 1 .. n |-> 0] /\ edited' = FALSE /\ target' = <<>> /\ hashed' = <<>>
      /\ UNCHANGED <<next_read, next_hash, failure, in_flight, sq, kernel, cq, orphans,
                     waitFailed, edits>>
  BY DEF NewCopy, cursors
<1>2. /\ next_read = 0 /\ next_hash = 0 /\ ~failure /\ in_flight = 0
      /\ sq = <<>> /\ kernel = {} /\ cq = <<>> /\ (orphans # {} => waitFailed)
  BY <1>1 DEF CopyInv, CleanOK, Looping
<1>3. copy \in 0 .. MaxCopies /\ failure \in BOOLEAN
  BY DEF CopyInv, EngineTypes
<1>4. n \in Nat /\ copy' \in 1 .. MaxCopies
  BY <1>1, <1>3, CopyAssumption
<1>5. /\ source' \in Seq(Nat) /\ Len(source') = n /\ \A k \in DOMAIN source' : source'[k] = 0
  <2>1. 0 \in Nat
    OBVIOUS
  <2> QED BY <1>1, <1>4, <2>1
<1>6. failure' = FALSE
  BY <1>1, <1>2, <1>3
<1> QED BY <1>1, <1>2, <1>4, <1>5, <1>6

\* The types after it, when pc, the result, the ring and the faults are right.
LEMMA NewCopyTypes ==
    ASSUME CopyInv, NEW n \in Sizes, NewCopy(n),
           pc' \in {"prime", "sync", "idle"}, ring' \in {"open", "unsupported", "broken"},
           result' \in {"none", "error"}, faults' \in 0 .. MaxFaults,
           pc' = "prime" => slots' \in [0 .. (SlotsOf(n) - 1) -> Slot] /\ ring' = "open"
    PROVE  EngineTypes'
<1>1. /\ n \in Nat /\ size' = n /\ copy' \in 1 .. MaxCopies
      /\ source' \in Seq(Nat)
      /\ edited' = FALSE /\ target' = <<>> /\ hashed' = <<>>
      /\ next_read' = 0 /\ next_hash' = 0 /\ failure' = FALSE /\ in_flight' = 0
      /\ sq' = <<>> /\ kernel' = {} /\ cq' = <<>>
      /\ orphans' = orphans /\ waitFailed' = waitFailed /\ edits' = edits
  BY NewCopyFacts
<1>2. /\ hashed' \in Seq(Unit) /\ sq' \in Seq(Request) /\ cq' \in Seq(Completion)
      /\ DOMAIN target' \subseteq Nat /\ kernel' \subseteq Request
  BY <1>1
<1>3. /\ orphans' \subseteq Orphan /\ waitFailed' \in BOOLEAN /\ edits' \in 0 .. MaxEdits
  BY <1>1 DEF CopyInv, EngineTypes
<1>4. copy' \in 0 .. MaxCopies
  BY <1>1, CopyAssumption
<1>5. next_read' \in Nat /\ next_hash' \in Nat /\ in_flight' \in Nat
  BY <1>1
<1>6. pc' \in Looping => pc' = "prime"
  BY DEF Looping
<1>7. pc' \in Looping \cup {"idle", "sync", "after"}
  BY DEF Looping
<1> QED BY <1>1, <1>2, <1>3, <1>4, <1>5, <1>6, <1>7 DEF EngineTypes

\* The engine begins with free slots.
LEMMA BeginEngineKeeps ==
    ASSUME CopyInv, NEW n \in Sizes, BeginEngine(n)
    PROVE  CopyInv'
<1>1. /\ NewCopy(n) /\ ring' = "open" /\ pc' = "prime" /\ result' = "none" /\ faults' = faults
      /\ slots' = [i \in 0 .. (SlotCount' - 1) |-> FreeSlot]
  BY DEF BeginEngine
<1>2. /\ n \in Nat /\ size' = n /\ copy' \in 1 .. MaxCopies
      /\ Len(source') = n /\ (\A k \in DOMAIN source' : source'[k] = 0)
      /\ edited' = FALSE /\ target' = <<>> /\ hashed' = <<>>
      /\ next_read' = 0 /\ next_hash' = 0 /\ failure' = FALSE /\ in_flight' = 0
      /\ sq' = <<>> /\ kernel' = {} /\ cq' = <<>>
      /\ (orphans' # {} => waitFailed')
  BY <1>1, NewCopyFacts
<1>3. /\ Chunks(n) \in Nat /\ SlotsOf(n) \in 0 .. QueueDepth
  BY <1>2, ChunksOfSize
<1>4. slots' = [i \in 0 .. (SlotsOf(n) - 1) |-> FreeSlot]
  <2>1. SlotCount' = SlotsOf(n)
    BY <1>2 DEF SlotCount, ChunkCount, SlotsOf, Chunks
  <2> QED BY <1>1, <2>1
<1>5. FreeSlot \in Slot /\ FreeSlot.phase = "Free"
  <2>1. [k \in 1 .. ChunkSize |-> Hole] \in [1 .. ChunkSize -> Unit]
    BY DEF Hole, Unit
  <2>2. 0 \in Nat /\ 0 \in 0 .. ChunkSize
    BY CopyAssumption
  <2> QED BY <2>1, <2>2 DEF FreeSlot, Slot
<1>6. /\ slots' \in [0 .. (SlotsOf(n) - 1) -> Slot] /\ DOMAIN slots' = 0 .. (SlotsOf(n) - 1)
      /\ \A i \in DOMAIN slots' : slots'[i].phase = "Free"
  BY <1>4, <1>5
<1>7. EngineTypes'
  <2>1. faults' \in 0 .. MaxFaults
    BY <1>1 DEF CopyInv, EngineTypes
  <2> QED BY <1>1, <1>6, <2>1, NewCopyTypes
<1>8. CleanOK'
  BY <1>1, <1>2 DEF CleanOK, Looping
<1>9. DOMAIN sq' = {} /\ DOMAIN cq' = {} /\ DOMAIN target' = {} /\ DOMAIN hashed' = {}
      /\ Len(hashed') = 0
  BY <1>2
<1>10. LoopOK'
  <2>1. next_read' <= SlotsOf(size)'
    BY <1>2, <1>3, CopyAssumption DEF SlotsOf, Chunks
  <2> QED BY <1>1, <1>2, <1>6, <2>1 DEF LoopOK
<1>11. OnePlace(sq', kernel', cq', in_flight')
  <2>1. BusyIn(kernel', cq') = {}
    BY <1>2, <1>9, Zenon DEF BusyIn
  <2>2. Cardinality({}) = 0
    BY FS_EmptySet
  <2> QED BY <1>2, <1>9, <2>1, <2>2 DEF OnePlace
<1>12. RequestsRight(slots', sq', kernel', cq', copy', size')
  BY <1>2, <1>9 DEF RequestsRight
<1>13. Served(slots', sq', kernel', cq')
  BY <1>6 DEF Served
<1>14. SlotsRight(slots', next_read', next_hash', size')
  <2>1. 0 <= Chunks(n)
    BY <1>3
  <2> QED BY <1>2, <1>6, <2>1 DEF SlotsRight, SlotRight
<1>15. BytesRight(slots', target', hashed', copy', edited', size')
  BY <1>6 DEF BytesRight, BytesOf
<1>16. CompletedRight(slots', cq', target', hashed', copy', edited')
  BY <1>9 DEF CompletedRight
<1>17. HashedRight(slots', target', hashed', next_hash', size')
  <2>1. Offset(0) = 0
    BY CopyAssumption DEF Offset
  <2>2. ~(0 < Chunks(n)) => n = 0
    <3>1. SUFFICES ASSUME n > 0 PROVE 0 < Chunks(n)
      BY <1>2
    <3>2. PICK q \in Nat : q < Chunks(n)
      BY <1>2, <3>1, ChunkOf
    <3> QED BY <1>3, <3>2
  <2>3. 0 .. (0 - 1) = {}
    OBVIOUS
  <2>4. HashedRight(slots', target', hashed', 0, n)
    BY <1>9, <2>1, <2>2, <2>3 DEF HashedRight
  <2> QED BY <1>2, <2>4
<1>18. LoopInv'
  BY <1>10, <1>11, <1>12, <1>13, <1>14, <1>15, <1>16, <1>17 DEF LoopInv
<1>19. OrderOK' /\ OkMatchesSource'
  BY <1>1, <1>2, <1>9 DEF OrderOK, OkMatchesSource
<1> QED BY <1>7, <1>8, <1>18, <1>19 DEF CopyInv

\* The synchronous copy begins with an empty file.
LEMMA BeginSyncKeeps ==
    ASSUME CopyInv, NEW n \in Sizes, BeginSync(n)
    PROVE  CopyInv'
<1>1. /\ NewCopy(n) /\ ring' = "unsupported" /\ pc' = "sync" /\ result' = "none"
      /\ faults' = faults
  BY DEF BeginSync
<1>2. /\ n \in Nat /\ size' = n
      /\ Len(source') = n /\ (\A k \in DOMAIN source' : source'[k] = 0)
      /\ edited' = FALSE /\ target' = <<>> /\ hashed' = <<>>
      /\ next_read' = 0 /\ next_hash' = 0 /\ failure' = FALSE /\ in_flight' = 0
      /\ sq' = <<>> /\ kernel' = {} /\ cq' = <<>>
      /\ (orphans' # {} => waitFailed')
  BY <1>1, NewCopyFacts
<1>3. EngineTypes'
  <2>1. faults' \in 0 .. MaxFaults
    BY <1>1 DEF CopyInv, EngineTypes
  <2> QED BY <1>1, <2>1, NewCopyTypes
<1>4. DOMAIN hashed' = {} /\ Len(hashed') = 0 /\ DOMAIN target' = {} /\ 0 .. (0 - 1) = {}
  BY <1>2
<1>5. TargetIs(hashed)'
  BY <1>4 DEF TargetIs
<1>6. OrderOK' /\ OkMatchesSource'
  BY <1>1, <1>2, <1>4, <1>5 DEF OrderOK, OkMatchesSource
<1>7. pc' \notin Looping
  BY <1>1 DEF Looping
<1> QED BY <1>2, <1>3, <1>6, <1>7, OutsideLoop

\* The ring cannot be opened.
LEMMA BeginFailsKeeps ==
    ASSUME CopyInv, NEW n \in Sizes, BeginFails(n)
    PROVE  CopyInv'
<1>1. /\ NewCopy(n) /\ ring' = "broken" /\ pc' = pc /\ result' = "error"
      /\ ring = "none" => faults < MaxFaults
      /\ faults' = IF ring = "none" THEN faults + 1 ELSE faults
      /\ pc = "idle"
  BY DEF BeginFails, NewCopy
<1>2. /\ next_read' = 0 /\ next_hash' = 0 /\ failure' = FALSE /\ in_flight' = 0
      /\ sq' = <<>> /\ kernel' = {} /\ cq' = <<>>
      /\ (orphans' # {} => waitFailed')
  BY <1>1, NewCopyFacts
<1>3. EngineTypes'
  <2>1. faults \in 0 .. MaxFaults
    BY DEF CopyInv, EngineTypes
  <2>2. faults' \in 0 .. MaxFaults
    BY <1>1, <2>1, CopyAssumption
  <2> QED BY <1>1, <2>2, NewCopyTypes
<1>4. OrderOK' /\ OkMatchesSource' /\ pc' \notin Looping
  BY <1>1 DEF OrderOK, OkMatchesSource, Looping
<1> QED BY <1>2, <1>3, <1>4, OutsideLoop

-----------------------------------------------------------------------------
(* The synchronous copy, and the check of the source after either.         *)

\* What stays outside the loop when a step touches neither the ring nor the cursors.
LEMMA OutsideStays ==
    ASSUME CopyInv, pc \notin Looping, pc' \notin Looping, EngineTypes', OrderOK',
           OkMatchesSource',
           UNCHANGED <<next_read, next_hash, failure, in_flight, sq, kernel, cq, orphans,
                       waitFailed>>
    PROVE  CopyInv'
<1>1. /\ next_read = 0 /\ next_hash = 0 /\ ~failure /\ in_flight = 0
      /\ sq = <<>> /\ kernel = {} /\ cq = <<>> /\ (orphans # {} => waitFailed)
  BY DEF CopyInv, CleanOK
<1> QED BY <1>1, OutsideLoop

\* A chunk is read, hashed and written at the end of the file.
LEMMA SyncChunkKeeps ==
    ASSUME CopyInv, NEW n \in 1 .. ChunkSize, SyncChunk(n)
    PROVE  CopyInv'
<1> DEFINE chunk == [k \in 1 .. n |-> SourceUnit(Len(hashed) + k - 1)]
<1>1. /\ pc = "sync" /\ Len(hashed) + n <= Len(source)
      /\ hashed' = hashed \o chunk /\ target' = Pwrite(Len(hashed), chunk)
      /\ UNCHANGED <<pc, copy, size, source, edited, edits, next_read, next_hash, failure,
                     in_flight, ring, sq, kernel, cq, orphans, waitFailed, result, faults>>
  BY DEF SyncChunk, sourceVars, engineVars, cursors, ringVars
<1>2. /\ EngineTypes /\ OrderOK /\ OkMatchesSource
      /\ hashed \in Seq(Unit) /\ source \in Seq(Nat) /\ copy \in 1 .. MaxCopies
      /\ copy \in Nat /\ size \in Nat /\ pc \notin Looping
  BY <1>1, CopyAssumption DEF CopyInv, EngineTypes, Looping
<1>3. /\ \A k \in DOMAIN hashed : Good(copy, edited, hashed[k], k - 1)
      /\ ~edited => Len(source) = size /\ \A k \in DOMAIN source : source[k] = 0
      /\ TargetIs(hashed) /\ ring = "unsupported" /\ result # "ok"
  BY <1>1, <1>2 DEF OrderOK
<1>4. PICK at \in Nat : at = Len(hashed) /\ at + n <= Len(source)
  BY <1>1, <1>2
<1>5. n \in Nat /\ Len(source) \in Nat /\ DOMAIN source = 1 .. Len(source)
      /\ DOMAIN hashed = 1 .. at
  BY <1>2, <1>4, CopyAssumption
<1>6. PICK u : u = chunk
  OBVIOUS
<1>7. ASSUME NEW k \in 1 .. n
      PROVE  u[k] = SourceUnit(at + k - 1) /\ u[k] \in Unit
             /\ Good(copy, edited, u[k], at + k - 1)
  <2>1. at + k - 1 \in Nat /\ at + k - 1 + 1 \in DOMAIN source
    BY <1>4, <1>5
  <2>2. source[at + k - 1 + 1] \in Nat /\ (~edited => source[at + k - 1 + 1] = 0)
    BY <1>2, <1>3, <2>1
  <2>3. u[k] = SourceUnit(at + k - 1)
    BY <1>4, <1>6
  <2> QED BY <1>2, <2>1, <2>2, <2>3 DEF SourceUnit, Unit, Good
<1>8. u \in Seq(Unit) /\ Len(u) = n
  <2>1. u = [k \in 1 .. n |-> SourceUnit(at + k - 1)]
    BY <1>4, <1>6
  <2>2. \A k \in 1 .. n : SourceUnit(at + k - 1) \in Unit
    BY <1>7
  <2> QED BY <1>5, <2>1, <2>2
<1>9. hashed' = hashed \o u /\ target' = Pwrite(at, u)
  BY <1>1, <1>4, <1>6
<1> HIDE DEF chunk
<1>10. /\ hashed' \in Seq(Unit) /\ Len(hashed') = at + n /\ DOMAIN hashed' = 1 .. (at + n)
       /\ \A k \in 1 .. at : hashed'[k] = hashed[k]
       /\ \A k \in 1 .. n : hashed'[at + k] = u[k]
  <2>1. /\ hashed' \in Seq(Unit) /\ Len(hashed') = Len(hashed) + Len(u)
        /\ \A k \in 1 .. (Len(hashed) + Len(u)) :
              hashed'[k] = IF k <= Len(hashed) THEN hashed[k] ELSE u[k - Len(hashed)]
    BY <1>2, <1>8, <1>9, ConcatProperties
  <2>2. /\ Len(hashed') = at + n
        /\ \A k \in 1 .. (at + n) : hashed'[k] = IF k <= at THEN hashed[k] ELSE u[k - at]
    BY <1>4, <1>8, <2>1
  <2>3. DOMAIN hashed' = 1 .. (at + n)
    <3>1. \A g \in Seq(Unit) : DOMAIN g = 1 .. Len(g)
      OBVIOUS
    <3>2. DOMAIN hashed' = 1 .. Len(hashed')
      BY <2>1, <3>1, Zenon
    <3> QED BY <2>2, <3>2, Zenon
  <2>4. /\ \A k \in 1 .. at : k \in 1 .. (at + n) /\ k <= at
        /\ \A k \in 1 .. n : at + k \in 1 .. (at + n) /\ ~(at + k <= at) /\ at + k - at = k
    BY <1>4, <1>5
  <2>5. ASSUME NEW k \in 1 .. n PROVE hashed'[at + k] = u[k]
    BY <2>2, <2>4
  <2>6. ASSUME NEW k \in 1 .. at PROVE hashed'[k] = hashed[k]
    BY <2>2, <2>4
  <2> QED BY <2>1, <2>2, <2>3, <2>5, <2>6
<1>11. \A k \in DOMAIN hashed' : Good(copy, edited, hashed'[k], k - 1)
  <2>1. SUFFICES ASSUME NEW k \in 1 .. (at + n) PROVE Good(copy, edited, hashed'[k], k - 1)
    BY <1>10
  <2>2. CASE k <= at
    <3>1. k \in 1 .. at
      BY <1>4, <2>2
    <3> QED BY <1>3, <1>5, <1>10, <3>1
  <2>3. CASE k > at
    <3>1. PICK j \in 1 .. n : k = at + j /\ at + j - 1 = k - 1
      <4>1. k - at \in 1 .. n /\ k = at + (k - at) /\ at + (k - at) - 1 = k - 1
        BY <1>4, <1>5, <2>3
      <4> QED BY <4>1
    <3> QED BY <1>7, <1>10, <3>1
  <2> QED BY <1>4, <2>2, <2>3
<1>12. /\ DOMAIN target' = 0 .. (Len(hashed') - 1)
       /\ \A p \in DOMAIN target' : target'[p] \in {hashed'[p + 1], Stale}
  <2>1. /\ DOMAIN target = 0 .. (at - 1)
        /\ \A p \in DOMAIN target : target[p] \in {hashed[p + 1], Stale}
    BY <1>3, <1>4 DEF TargetIs
  <2>2. target' = [p \in DOMAIN target \cup (at .. (at + n - 1)) |->
                     IF p \in at .. (at + n - 1) THEN u[p - at + 1] ELSE target[p]]
    BY <1>8, <1>9 DEF Pwrite
  <2>3. (0 .. (at - 1)) \cup (at .. (at + n - 1)) = 0 .. (at + n - 1)
    BY <1>4, <1>5
  <2>4. DOMAIN target' = 0 .. (at + n - 1)
    BY <2>1, <2>2, <2>3
  <2>5. ASSUME NEW p \in 0 .. (at + n - 1) PROVE target'[p] \in {hashed'[p + 1], Stale}
    <3>1. CASE p \in at .. (at + n - 1)
      <4>1. target'[p] = u[p - at + 1]
        BY <2>2, <3>1
      <4>2. p - at + 1 \in 1 .. n /\ at + (p - at + 1) = p + 1
        BY <1>4, <1>5, <3>1
      <4> QED BY <1>10, <4>1, <4>2
    <3>2. CASE p \notin at .. (at + n - 1)
      <4>1. p \in 0 .. (at - 1) /\ p + 1 \in 1 .. at
        BY <1>4, <1>5, <3>2
      <4>2. target'[p] = target[p]
        BY <2>1, <2>2, <3>2, <4>1
      <4> QED BY <1>10, <2>1, <4>1, <4>2
    <3> QED BY <3>1, <3>2
  <2> QED BY <1>10, <2>4, <2>5
<1>13. TargetIs(hashed)'
  BY <1>12 DEF TargetIs
<1>14. EngineTypes'
  <2>1. DOMAIN target' \subseteq Nat
    BY <1>4, <1>5, <1>10, <1>12
  <2> QED BY <1>1, <1>2, <1>10, <2>1 DEF EngineTypes
<1>15. ~edited => Len(hashed') <= size
  BY <1>2, <1>3, <1>4, <1>10
<1>16. OrderOK' /\ OkMatchesSource'
  <2>1. \A k \in DOMAIN hashed' : Good(copy', edited', hashed'[k], k - 1)
    BY <1>1, <1>11
  <2> QED BY <1>1, <1>3, <1>13, <1>15, <2>1 DEF OrderOK, OkMatchesSource
<1> QED BY <1>1, <1>2, <1>14, <1>16, OutsideStays

\* A read or a write fails.
LEMMA SyncFailsKeeps ==
    ASSUME CopyInv, SyncFails
    PROVE  CopyInv'
<1>1. /\ pc = "sync" /\ faults < MaxFaults /\ faults' = faults + 1
      /\ pc' = "idle" /\ result' = "error"
      /\ UNCHANGED <<copy, size, source, edited, edits, target, hashed, next_read, next_hash,
                     failure, in_flight, ring, sq, kernel, cq, orphans, waitFailed>>
  BY DEF SyncFails, sourceVars, engineVars, cursors, ringVars
<1>2. pc \notin Looping /\ pc' \notin Looping
  BY <1>1 DEF Looping
<1>3. EngineTypes'
  <2>1. faults \in 0 .. MaxFaults
    BY DEF CopyInv, EngineTypes
  <2>2. faults' \in 0 .. MaxFaults
    BY <1>1, <2>1, CopyAssumption
  <2> QED BY <1>1, <1>2, <2>2 DEF CopyInv, EngineTypes
<1>4. OrderOK' /\ OkMatchesSource'
  BY <1>1 DEF OrderOK, OkMatchesSource
<1> QED BY <1>1, <1>2, <1>3, <1>4, OutsideStays

\* The end of the file is read.
LEMMA SyncReturnsKeeps ==
    ASSUME CopyInv, SyncReturns
    PROVE  CopyInv'
<1>1. /\ pc = "sync" /\ Len(hashed) >= Len(source) /\ pc' = "after"
      /\ UNCHANGED <<copy, size, source, edited, edits, target, hashed, next_read, next_hash,
                     failure, in_flight, ring, sq, kernel, cq, orphans, waitFailed, result,
                     faults>>
  BY DEF SyncReturns, sourceVars, engineVars, cursors, ringVars
<1>2. pc \notin Looping /\ pc' \notin Looping
  BY <1>1 DEF Looping
<1>3. EngineTypes /\ OrderOK
  BY DEF CopyInv
<1>4. EngineTypes'
  BY <1>1, <1>2, <1>3 DEF EngineTypes
<1>5. /\ \A k \in DOMAIN hashed : Good(copy, edited, hashed[k], k - 1)
      /\ ~edited => Len(source) = size /\ \A k \in DOMAIN source : source[k] = 0
      /\ TargetIs(hashed) /\ ring = "unsupported" /\ result # "ok"
      /\ ~edited => Len(hashed) <= size
  BY <1>1, <1>3 DEF OrderOK
<1>6. ~edited => Len(hashed) = size
  <2>1. Len(hashed) \in Nat /\ size \in Nat
    BY <1>3 DEF EngineTypes
  <2> QED BY <1>1, <1>5, <2>1
<1>7. TargetIs(hashed)'
  BY <1>1, <1>5 DEF TargetIs
<1>8. OrderOK' /\ OkMatchesSource'
  BY <1>1, <1>5, <1>6, <1>7 DEF OrderOK, OkMatchesSource
<1> QED BY <1>1, <1>2, <1>4, <1>8, OutsideStays

\* VerifyAfterRead accepts a copy only when nobody has edited the source.
LEMMA AfterReadKeeps ==
    ASSUME CopyInv, AfterRead
    PROVE  CopyInv'
<1>1. /\ pc = "after" /\ pc' = "idle" /\ result' = IF edited THEN "error" ELSE "ok"
      /\ UNCHANGED <<copy, size, source, edited, edits, target, hashed, next_read, next_hash,
                     failure, in_flight, ring, sq, kernel, cq, orphans, waitFailed, faults>>
  BY DEF AfterRead, sourceVars, engineVars, cursors, ringVars
<1>2. pc \notin Looping /\ pc' \notin Looping
  BY <1>1 DEF Looping
<1>3. EngineTypes /\ OrderOK
  BY DEF CopyInv
<1>4. EngineTypes'
  <2>1. result' \in {"none", "ok", "error"}
    BY <1>1
  <2> QED BY <1>1, <1>2, <1>3, <2>1 DEF EngineTypes
<1>5. OrderOK'
  BY <1>1 DEF OrderOK
<1>6. OkMatchesSource'
  <2>1. SUFFICES ASSUME ~edited
                 PROVE  /\ Len(hashed) = size
                        /\ \A k \in DOMAIN hashed : hashed[k] \in {<<copy, k - 1, 0>>, Stale}
    BY <1>1 DEF OkMatchesSource
  <2>2. Len(hashed) = size
    BY <1>1, <1>3, <2>1 DEF OrderOK
  <2>3. ASSUME NEW k \in DOMAIN hashed PROVE hashed[k] \in {<<copy, k - 1, 0>>, Stale}
    <3>1. Good(copy, edited, hashed[k], k - 1)
      BY <1>1, <1>3 DEF OrderOK
    <3>2. hashed[k] \in Unit
      BY <1>3 DEF EngineTypes
    <3> QED BY <2>1, <3>1, <3>2 DEF Good, Unit
  <2> QED BY <2>2, <2>3
<1> QED BY <1>1, <1>2, <1>4, <1>5, <1>6, OutsideStays

\* A step that changes nothing.
LEMMA CopyStutter ==
    ASSUME CopyInv, UNCHANGED copyVars
    PROVE  CopyInv'
<1>1. UNCHANGED <<pc, copy, size, source, edited, edits, target, hashed, slots, next_read,
                  next_hash, failure, in_flight, ring, sq, kernel, cq, orphans, waitFailed,
                  result, faults>>
  BY DEF copyVars, sourceVars, engineVars, cursors, ringVars
<1>2. EngineTypes' /\ CleanOK'
  BY <1>1 DEF CopyInv, EngineTypes, CleanOK
<1>3. LoopInv'
  BY <1>1 DEF CopyInv, LoopInv, LoopOK
<1>4. OrderOK' /\ OkMatchesSource'
  BY <1>1 DEF CopyInv, OrderOK, OkMatchesSource, TargetIs
<1> QED BY <1>2, <1>3, <1>4 DEF CopyInv

-----------------------------------------------------------------------------
(* The theorems.                                                           *)

\* The thread has made no copy.
LEMMA CopyInitOK ==
    ASSUME CopyInit
    PROVE  CopyInv
<1>1. /\ hashed \in Seq(Unit) /\ sq \in Seq(Request) /\ cq \in Seq(Completion)
      /\ source \in Seq(Nat) /\ DOMAIN target \subseteq Nat
  BY DEF CopyInit
<1>2. EngineTypes
  <2>1. 0 \in Nat /\ 0 \in 0 .. MaxCopies /\ 0 \in 0 .. MaxEdits /\ 0 \in 0 .. MaxFaults
    BY CopyAssumption
  <2>2. pc = "idle" /\ pc \notin Looping
    BY DEF CopyInit, Looping
  <2> QED BY <1>1, <2>1, <2>2 DEF CopyInit, EngineTypes
<1>3. CleanOK /\ LoopInv /\ OrderOK /\ OkMatchesSource
  BY DEF CopyInit, CleanOK, LoopInv, OrderOK, OkMatchesSource, Looping
<1> QED BY <1>2, <1>3 DEF CopyInv

\* Every step keeps the invariant.
LEMMA CopyStep ==
    ASSUME CopyInv, [CopyNext]_copyVars
    PROVE  CopyInv'
<1>1. ASSUME NEW n \in Sizes, BeginEngine(n) \/ BeginSync(n) \/ BeginFails(n)
      PROVE  CopyInv'
  BY <1>1, BeginEngineKeeps, BeginSyncKeeps, BeginFailsKeeps
<1>2. CASE \/ Prime \/ HashFails \/ WaitFails \/ EngineReturns \/ FinalizeFails
           \/ SyncFails \/ SyncReturns \/ AfterRead
  BY <1>2, PrimeKeeps, HashFailsKeeps, WaitFailsKeeps, EngineReturnsKeeps,
     FinalizeFailsKeeps, SyncFailsKeeps, SyncReturnsKeeps, AfterReadKeeps
<1>3. CASE Reap
  <2>1. CASE Drain \/ Reject
    BY <2>1, DropKeeps
  <2>2. ASSUME NEW i \in DOMAIN slots, NEW progress \in 0 .. ChunkSize,
               Continue(i, progress) \/ ReadDone(i, progress) \/ WriteDone(i, progress)
        PROVE  CopyInv'
    BY <2>2, ContinueKeeps, ReadDoneKeeps, WriteDoneKeeps
  <2> QED BY <1>3, <2>1, <2>2 DEF Reap
<1>4. ASSUME NEW i \in DOMAIN slots, HashChunk(i) PROVE CopyInv'
  BY <1>4, HashChunkKeeps
<1>5. ASSUME NEW k \in 0 .. Len(sq), Flush(k) PROVE CopyInv'
  BY <1>5, FlushKeeps
<1>6. ASSUME NEW n \in 1 .. ChunkSize, SyncChunk(n) PROVE CopyInv'
  BY <1>6, SyncChunkKeeps
<1>7. CASE Kernel
  <2>1. ASSUME NEW r \in kernel, ExecuteFails(r) PROVE CopyInv'
    BY <2>1, ExecuteFailsKeeps
  <2>2. ASSUME NEW r \in kernel, NEW n \in 0 .. ChunkSize, Execute(r, n) PROVE CopyInv'
    BY <2>2, ExecuteReadKeeps, ExecuteWriteKeeps
  <2>3. ASSUME NEW b \in orphans, OrphanEnds(b) PROVE CopyInv'
    BY <2>3, OrphanEndsKeeps
  <2> QED BY <1>7, <2>1, <2>2, <2>3 DEF Kernel
<1>8. CASE EditSource
  BY <1>8, EditSourceKeeps
<1>9. CASE AllCopied \/ UNCHANGED copyVars
  BY <1>9, CopyStutter DEF AllCopied
<1>10. CASE Thread
  BY <1>1, <1>2, <1>3, <1>4, <1>5, <1>6, <1>10 DEF Thread
<1> QED BY <1>7, <1>8, <1>9, <1>10 DEF CopyNext

\* The invariant holds throughout: queues, slots, buffers, hash and target of the loop agree.
THEOREM CopyInvariant == CopySpec => []CopyInv
<1>1. CopyInit => CopyInv
  BY CopyInitOK
<1>2. CopyInv /\ [CopyNext]_copyVars => CopyInv'
  BY CopyStep
<1> QED BY <1>1, <1>2, PTL DEF CopySpec

\* The types, and the bounds of the queue and of the kernel's ranges.
LEMMA CopyTypes ==
    ASSUME CopyInv
    PROVE  CopyTypeOK
<1>1. EngineTypes
  BY DEF CopyInv
<1>2. ASSUME NEW r \in kernel PROVE r.data + r.remaining <= ChunkSize
  <2>1. /\ r.data = slots[r.index].progress /\ slots[r.index].progress \in 0 .. ChunkSize
        /\ ChunkLen(size, slots[r.index].sequence) \in 1 .. ChunkSize
        /\ r.remaining = ChunkLen(size, slots[r.index].sequence) - slots[r.index].progress
    BY ExecutedFacts
  <2>2. \A a \in 0 .. ChunkSize, b \in 1 .. ChunkSize : a + (b - a) <= ChunkSize
    BY CopyAssumption
  <2> QED BY <2>1, <2>2
<1>3. Len(sq) <= QueueDepth /\ in_flight \in 0 .. QueueDepth
  <2>1. CASE pc \in Looping
    <3>1. OnePlace(sq, kernel, cq, in_flight)
      BY <2>1, LoopFacts
    <3> QED BY <3>1, QueueTypes, QueueFits
  <2>2. CASE pc \notin Looping
    <3>1. in_flight = 0 /\ sq = <<>>
      BY <2>2 DEF CopyInv, CleanOK
    <3> QED BY <3>1, CopyAssumption
  <2> QED BY <2>1, <2>2
<1>4. \A k \in DOMAIN sq : sq[k] \in Request
  BY <1>1 DEF EngineTypes
<1> QED BY <1>1, <1>2, <1>3, <1>4 DEF CopyTypeOK, EngineTypes

\* Requests and completions in the ring are for slots of this copy, no two for one slot.
LEMMA InRingFacts ==
    ASSUME CopyInv, pc \in Looping
    PROVE  /\ \A r \in InRing : r.copy = copy /\ slots[r.index].phase = Phase(r.write)
           /\ \A r, q \in InRing : r.index = q.index => r = q
           /\ \A i : i \in Used(sq, kernel, cq) <=> \E r \in InRing : r.index = i
<1>1. /\ OnePlace(sq, kernel, cq, in_flight)
      /\ RequestsRight(slots, sq, kernel, cq, copy, size)
  BY LoopFacts
<1>2. ASSUME NEW r \in InRing
      PROVE  \/ \E k \in DOMAIN sq : r = sq[k]
             \/ r \in kernel
             \/ \E k \in DOMAIN cq : r = cq[k]
  BY DEF InRing, Range
<1>3. /\ \A k \in DOMAIN sq : sq[k] \in InRing
      /\ \A r \in kernel : r \in InRing
      /\ \A k \in DOMAIN cq : cq[k] \in InRing
  BY DEF InRing, Range
<1>4. ASSUME NEW r \in InRing PROVE r.copy = copy /\ slots[r.index].phase = Phase(r.write)
  BY <1>1, <1>2 DEF RequestsRight, ForSlot, OfSlot
<1>5. ASSUME NEW r \in InRing, NEW q \in InRing, r.index = q.index PROVE r = q
  <2>1. /\ \A k \in DOMAIN cq : cq[k].index \in BusyIn(kernel, cq)
        /\ \A p \in kernel : p.index \in BusyIn(kernel, cq)
    BY DEF BusyIn
  <2>2. CASE \E k \in DOMAIN sq : r = sq[k]
    BY <1>1, <1>2, <1>5, <2>1, <2>2 DEF OnePlace
  <2>3. CASE r \in kernel
    BY <1>1, <1>2, <1>5, <2>1, <2>3 DEF OnePlace
  <2>4. CASE \E k \in DOMAIN cq : r = cq[k]
    BY <1>1, <1>2, <1>5, <2>1, <2>4 DEF OnePlace
  <2> QED BY <1>2, <2>2, <2>3, <2>4
<1>6. ASSUME NEW i PROVE i \in Used(sq, kernel, cq) <=> \E r \in InRing : r.index = i
  <2>1. ASSUME i \in Used(sq, kernel, cq) PROVE \E r \in InRing : r.index = i
    BY <1>3, <2>1 DEF Used, BusyIn
  <2>2. ASSUME NEW r \in InRing, r.index = i PROVE i \in Used(sq, kernel, cq)
    BY <1>2, <2>2 DEF Used, BusyIn
  <2> QED BY <2>1, <2>2
<1> QED BY <1>4, <1>5, <1>6

\* A buffer serves one request at a time, the one its phase names, and the queues fit: for
\* every file size, chunk size and queue depth, however requests complete, are short or fail.
THEOREM BuffersExclusiveSafe == CopySpec => []BuffersExclusive
<1>1. CopyInv => BuffersExclusive
  <2>1. SUFFICES ASSUME CopyInv PROVE CopyTypeOK /\ OneRequestPerSlot
    BY DEF BuffersExclusive
  <2>2. SUFFICES ASSUME pc \in Looping, ~failure PROVE OneRequestPerSlot
    BY <2>1, CopyTypes DEF OneRequestPerSlot
  <2>3. /\ \A r \in InRing : slots[r.index].phase = Phase(r.write)
        /\ \A r, q \in InRing : r.index = q.index => r = q
        /\ \A i : i \in Used(sq, kernel, cq) <=> \E r \in InRing : r.index = i
    BY <2>1, <2>2, InRingFacts
  <2>4. /\ Served(slots, sq, kernel, cq)
        /\ RequestsRight(slots, sq, kernel, cq, copy, size)
    BY <2>1, <2>2, LoopFacts
  <2>5. ASSUME NEW i \in DOMAIN slots, slots[i].phase \in {"Free", "Ready"}
        PROVE  {r \in InRing : r.index = i} = {}
    BY <2>3, <2>4, <2>5, QuietUnused
  <2>6. ASSUME NEW i \in DOMAIN slots, slots[i].phase \in {"Reading", "Writing"}
        PROVE  \E r \in {r \in InRing : r.index = i} :
                  {p \in InRing : p.index = i} = {r} /\ slots[i].phase = Phase(r.write)
    <3>1. PICK r \in InRing : r.index = i
      BY <2>3, <2>4, <2>6 DEF Served
    <3>2. {p \in InRing : p.index = i} = {r}
      BY <2>3, <3>1
    <3> QED BY <2>3, <3>1, <3>2
  <2>7. \A w : /\ Phase(w) = "Reading" => ~w
               /\ Phase(w) = "Writing" => w
    BY DEF Phase
  <2> QED BY <2>5, <2>6, <2>7 DEF OneRequestPerSlot
<1> QED BY <1>1, CopyInvariant, PTL

\* The next copy of the thread finds nothing of an earlier one in the cached ring.
THEOREM RingCleanSafe == CopySpec => []RingCleanBetweenCopies
<1>1. CopyInv => RingCleanBetweenCopies
  <2>1. SUFFICES ASSUME CopyInv PROVE RingCleanBetweenCopies
    OBVIOUS
  <2>2. CleanOK
    BY <2>1 DEF CopyInv
  <2>3. \A r \in InRing : r.copy = copy
    <3>1. CASE pc \in Looping
      BY <2>1, <3>1, InRingFacts
    <3>2. CASE pc \notin Looping
      <4>1. kernel = {} /\ DOMAIN sq = {} /\ DOMAIN cq = {}
        BY <2>2, <3>2 DEF CleanOK
      <4>2. InRing = {}
        BY <4>1, Zenon DEF InRing, Range
      <4> QED BY <4>2
    <3> QED BY <3>1, <3>2
  <2> QED BY <2>2, <2>3 DEF RingCleanBetweenCopies, CleanOK
<1> QED BY <1>1, CopyInvariant, PTL

-----------------------------------------------------------------------------
(* Nothing is stale before a wait has failed.                              *)

Fresh(f) == \A k \in DOMAIN f : f[k] # Stale
NoStale ==
    ~waitFailed => /\ Fresh(hashed) /\ Fresh(target)
                   /\ pc \in Looping => \A i \in DOMAIN slots : Fresh(slots[i].bytes)

\* A part of a fresh buffer is fresh.
LEMMA SubSeqFresh ==
    ASSUME NEW b \in [1 .. ChunkSize -> Unit], Fresh(b), NEW m \in Nat, NEW n \in Nat,
           m + n <= ChunkSize
    PROVE  /\ SubSeq(b, m + 1, m + n) \in Seq(Unit) /\ Len(SubSeq(b, m + 1, m + n)) = n
           /\ Fresh(SubSeq(b, m + 1, m + n))
<1>1. PICK u : u = SubSeq(b, m + 1, m + n)
  OBVIOUS
<1>2. \A k \in (m + 1) .. (m + n) : k \in 1 .. ChunkSize
  BY CopyAssumption
<1>3. \A k \in (m + 1) .. (m + n) : b[k] \in Unit /\ b[k] # Stale
  BY <1>2 DEF Fresh
<1>4. m + 1 \in Int /\ m + n \in Int
  OBVIOUS
<1>5. /\ u \in Seq(Unit)
      /\ Len(u) = IF m + 1 <= m + n THEN m + n - (m + 1) + 1 ELSE 0
      /\ \A j \in 1 .. (m + n - (m + 1) + 1) : u[j] = b[m + 1 + j - 1]
  BY <1>1, <1>3, <1>4, SubSeqProperties
<1>6. m + n - (m + 1) + 1 = n /\ (IF m + 1 <= m + n THEN m + n - (m + 1) + 1 ELSE 0) = n
  OBVIOUS
<1>7. \A j \in 1 .. n : m + 1 + j - 1 \in (m + 1) .. (m + n)
  OBVIOUS
<1>8. Len(u) = n /\ \A j \in 1 .. n : u[j] # Stale
  BY <1>3, <1>5, <1>6, <1>7
<1>9. DOMAIN u = 1 .. n
  BY <1>5, <1>8
<1> QED BY <1>1, <1>5, <1>8, <1>9 DEF Fresh

\* So is what two fresh sequences make together.
LEMMA ConcatFresh ==
    ASSUME NEW h \in Seq(Unit), NEW u \in Seq(Unit), Fresh(h), Fresh(u)
    PROVE  Fresh(h \o u)
<1>1. PICK g : g = h \o u
  OBVIOUS
<1>2. /\ g \in Seq(Unit) /\ Len(g) = Len(h) + Len(u)
      /\ \A k \in 1 .. (Len(h) + Len(u)) :
            g[k] = IF k <= Len(h) THEN h[k] ELSE u[k - Len(h)]
  BY <1>1, ConcatProperties
<1>3. /\ Len(h) \in Nat /\ Len(u) \in Nat /\ DOMAIN g = 1 .. (Len(h) + Len(u))
      /\ DOMAIN h = 1 .. Len(h) /\ DOMAIN u = 1 .. Len(u)
  BY <1>2
<1>4. ASSUME NEW k \in 1 .. (Len(h) + Len(u)) PROVE g[k] # Stale
  <2>1. CASE k <= Len(h)
    BY <1>2, <1>3, <2>1 DEF Fresh
  <2>2. CASE ~(k <= Len(h))
    <3>1. k - Len(h) \in 1 .. Len(u)
      BY <1>3, <2>2
    <3> QED BY <1>2, <1>3, <2>2, <3>1 DEF Fresh
  <2> QED BY <2>1, <2>2
<1> QED BY <1>1, <1>3, <1>4 DEF Fresh

\* And the target after a write of fresh units.
LEMMA PwriteFresh ==
    ASSUME Fresh(target), NEW at \in Nat, NEW u \in Seq(Unit), Fresh(u)
    PROVE  Fresh(Pwrite(at, u))
<1> DEFINE new == at .. (at + Len(u) - 1)
<1>1. \A p \in new : p - at + 1 \in DOMAIN u
  BY DEF new
<1>2. Pwrite(at, u) = [p \in DOMAIN target \cup new |->
                          IF p \in new THEN u[p - at + 1] ELSE target[p]]
  BY DEF Pwrite
<1> HIDE DEF new
<1> QED BY <1>1, <1>2 DEF Fresh

\* A step that leaves the hasher, the target and the bytes of the buffers alone.
LEMMA StaleStays ==
    ASSUME NoStale, hashed' = hashed, target' = target, waitFailed' = waitFailed,
           pc' \in Looping => /\ pc \in Looping /\ DOMAIN slots' = DOMAIN slots
                             /\ \A i \in DOMAIN slots : slots'[i].bytes = slots[i].bytes
    PROVE  NoStale'
BY DEF NoStale, Fresh

\* The fields of a slot but for its bytes.
LEMMA SetSlotBytes ==
    ASSUME CopyInv, pc \in Looping, NEW i \in DOMAIN slots, NEW q, NEW g, NEW f,
           SetSlot(i, q, g, f)
    PROVE  /\ DOMAIN slots' = DOMAIN slots
           /\ \A j \in DOMAIN slots : slots'[j].bytes = slots[j].bytes
<1>1. slots \in [0 .. (SlotsOf(size) - 1) -> Slot] /\ slots[i] \in Slot
  BY LoopFacts
<1>2. slots' = [slots EXCEPT ![i] = Slotted(slots[i], q, g, f)]
  BY DEF SetSlot, Slotted
<1>3. Slotted(slots[i], q, g, f).bytes = slots[i].bytes
  BY <1>1 DEF Slotted, Slot
<1> QED BY <1>1, <1>2, <1>3

\* The steps of the loop that move no bytes.
LEMMA LoopStale ==
    ASSUME CopyInv, NoStale,
           \/ Prime \/ Drain \/ Reject
           \/ \E i \in DOMAIN slots, progress \in 0 .. ChunkSize :
                 Continue(i, progress) \/ ReadDone(i, progress) \/ WriteDone(i, progress)
    PROVE  NoStale'
<1>1. CASE Prime
  <2>1. /\ pc \in Looping /\ hashed' = hashed /\ target' = target /\ waitFailed' = waitFailed
        /\ SetSlot(next_read, next_read, 0, Phase(FALSE)) /\ next_read < SlotCount
    BY <1>1 DEF Prime, start_read, submit_request, Looping
  <2>2. next_read \in DOMAIN slots
    BY <2>1, LoopFacts, QueueTypes
  <2> QED BY <2>1, <2>2, SetSlotBytes, StaleStays
<1>2. CASE Drain \/ Reject
  <2>1. /\ pc \in Looping /\ hashed' = hashed /\ target' = target /\ waitFailed' = waitFailed
        /\ slots' = slots
    BY <1>2 DEF Drain, Reject, TakeCompletion, Looping
  <2> QED BY <2>1, StaleStays
<1>3. ASSUME NEW i \in DOMAIN slots, NEW progress \in 0 .. ChunkSize,
             Continue(i, progress) \/ ReadDone(i, progress) \/ WriteDone(i, progress)
      PROVE  NoStale'
  <2>1. pc \in Looping /\ hashed' = hashed /\ target' = target /\ waitFailed' = waitFailed
    BY <1>3 DEF Continue, ReadDone, WriteDone, TakeCompletion, Looping
  <2>2. \E q, g, f : SetSlot(i, q, g, f)
    BY <1>3 DEF Continue, ReadDone, WriteDone, start_read, submit_request
  <2> QED BY <2>1, <2>2, SetSlotBytes, StaleStays
<1> QED BY <1>1, <1>2, <1>3

\* The hasher is given a fresh chunk.
LEMMA HashStale ==
    ASSUME CopyInv, NoStale, NEW i \in DOMAIN slots, HashChunk(i)
    PROVE  NoStale'
<1>1. /\ pc \in Looping /\ target' = target /\ waitFailed' = waitFailed
      /\ SetSlot(i, slots[i].sequence, 0, Phase(TRUE))
      /\ next_hash < ChunkCount /\ slots[i].sequence = next_hash
      /\ hashed' = hashed \o SubSeq(slots[i].bytes, 1, Length(slots[i].sequence))
  BY DEF HashChunk, NextReady, submit_request, Looping
<1>2. SUFFICES ASSUME ~waitFailed PROVE Fresh(hashed')
  BY <1>1, SetSlotBytes DEF NoStale, Fresh
<1>3. /\ slots[i] \in Slot /\ Fresh(slots[i].bytes) /\ Fresh(hashed) /\ hashed \in Seq(Unit)
      /\ size \in Nat /\ next_hash \in Nat /\ next_hash < Chunks(size)
      /\ Length(next_hash) = ChunkLen(size, next_hash)
  BY <1>1, <1>2, LoopFacts, QueueTypes DEF NoStale
<1>4. PICK l \in 1 .. ChunkSize : l = Length(slots[i].sequence)
  BY <1>1, <1>3, ChunkLength
<1>5. PICK u : u = SubSeq(slots[i].bytes, 0 + 1, 0 + l)
  OBVIOUS
<1>6. slots[i].bytes \in [1 .. ChunkSize -> Unit] /\ l \in Nat /\ 0 + l <= ChunkSize
  BY <1>3, <1>4, CopyAssumption DEF Slot
<1>7. u \in Seq(Unit) /\ Fresh(u)
  BY <1>3, <1>5, <1>6, SubSeqFresh
<1>8. 0 + 1 = 1 /\ 0 + l = l
  BY <1>6
<1>9. hashed' = hashed \o u
  BY <1>1, <1>4, <1>5, <1>8
<1> QED BY <1>3, <1>7, <1>9, ConcatFresh

\* The kernel moves fresh units.
LEMMA ExecuteStale ==
    ASSUME CopyInv, NoStale, NEW r \in kernel, NEW n \in 0 .. ChunkSize, Execute(r, n)
    PROVE  NoStale'
<1> DEFINE s == slots[r.index]
<1>1. /\ pc \in Looping /\ r \in Request /\ r.index \in DOMAIN slots /\ s \in Slot
      /\ r.data \in Nat /\ r.offset \in Nat /\ r.remaining \in Nat
      /\ r.data + r.remaining <= ChunkSize
  <2>1. /\ pc \in Looping /\ r \in Request /\ r.index \in DOMAIN slots /\ s \in Slot
        /\ r.data = s.progress /\ s.progress \in 0 .. ChunkSize
        /\ ChunkLen(size, s.sequence) \in 1 .. ChunkSize /\ r.offset \in Nat
        /\ r.remaining = ChunkLen(size, s.sequence) - s.progress /\ r.remaining \in Nat
    BY ExecutedFacts
  <2>2. PICK e \in 0 .. ChunkSize, l \in 1 .. ChunkSize :
              r.data = e /\ r.remaining = l - e
    BY <2>1
  <2>3. e \in Nat /\ e + (l - e) <= ChunkSize
    BY CopyAssumption
  <2> QED BY <2>1, <2>2, <2>3
<1>2. /\ pc' = pc /\ waitFailed' = waitFailed /\ hashed' = hashed /\ n <= r.remaining /\ n \in Nat
  BY CopyAssumption DEF Execute
<1>3. SUFFICES ASSUME ~waitFailed
               PROVE  Fresh(target') /\ \A i \in DOMAIN slots' : Fresh(slots'[i].bytes)
  BY <1>1, <1>2 DEF NoStale, Fresh
<1>4. /\ Fresh(target) /\ \A i \in DOMAIN slots : Fresh(slots[i].bytes)
      /\ s.bytes \in [1 .. ChunkSize -> Unit]
  BY <1>1, <1>3 DEF NoStale, Slot
<1>5. CASE r.write
  <2>1. PICK u : u = SubSeq(s.bytes, r.data + 1, r.data + n)
    OBVIOUS
  <2>2. target' = Pwrite(r.offset, u) /\ slots' = slots
    BY <1>5, <2>1 DEF Execute
  <2>3. r.data + n <= ChunkSize
    BY <1>1, <1>2, CopyAssumption
  <2>4. u \in Seq(Unit) /\ Fresh(u)
    BY <1>1, <1>2, <1>4, <2>1, <2>3, SubSeqFresh
  <2> QED BY <1>1, <1>4, <2>2, <2>4, PwriteFresh
<1>6. CASE ~r.write
  <2>1. PICK b : b = Pread(s.bytes, r.data, r.offset, n)
    OBVIOUS
  <2>2. slots' = [slots EXCEPT ![r.index] = Filled(s, b)] /\ target' = target
    BY <1>6, <2>1 DEF Execute, Filled
  <2>3. copy # 0
    BY <1>1, LoopFacts
  <2>4. \A p : SourceUnit(p) # Stale
    BY <2>3 DEF SourceUnit, Stale
  <2>5. DOMAIN b = 1 .. ChunkSize /\ \A k \in 1 .. ChunkSize : b[k] # Stale
    BY <1>1, <1>4, <2>1, <2>4 DEF Pread, Fresh
  <2>6. Fresh(b) /\ Filled(s, b).bytes = b
    BY <1>1, <2>5 DEF Fresh, Filled, Slot
  <2>7. slots \in [0 .. (SlotsOf(size) - 1) -> Slot]
    BY <1>1, LoopFacts
  <2> QED BY <1>1, <1>4, <2>2, <2>6, <2>7
<1> QED BY <1>5, <1>6

\* The synchronous copy hashes and writes units of the source.
LEMMA SyncStale ==
    ASSUME CopyInv, NoStale, NEW n \in 1 .. ChunkSize, SyncChunk(n)
    PROVE  NoStale'
<1>1. PICK u : u = [k \in 1 .. n |-> SourceUnit(Len(hashed) + k - 1)]
  OBVIOUS
<1>2. /\ pc = "sync" /\ pc' = pc /\ waitFailed' = waitFailed /\ Len(hashed) + n <= Len(source)
      /\ hashed' = hashed \o u /\ target' = Pwrite(Len(hashed), u)
  BY <1>1 DEF SyncChunk
<1>3. SUFFICES ASSUME ~waitFailed PROVE Fresh(hashed') /\ Fresh(target')
  BY <1>2 DEF NoStale, Looping
<1>4. /\ hashed \in Seq(Unit) /\ source \in Seq(Nat) /\ copy \in 1 .. MaxCopies
      /\ Fresh(hashed) /\ Fresh(target) /\ n \in Nat
  BY <1>2, <1>3, CopyAssumption DEF CopyInv, EngineTypes, NoStale
<1>5. Len(hashed) \in Nat /\ Len(source) \in Nat /\ DOMAIN source = 1 .. Len(source)
  BY <1>4
<1>6. ASSUME NEW k \in 1 .. n PROVE u[k] \in Unit /\ u[k] # Stale
  <2>1. PICK p \in Nat : p = Len(hashed) + k - 1 /\ p + 1 \in 1 .. Len(source)
    <3>1. PICK at \in Nat, l \in Nat : at = Len(hashed) /\ l = Len(source) /\ at + n <= l
      BY <1>2, <1>5
    <3>2. at + k - 1 \in Nat /\ at + k - 1 + 1 \in 1 .. l
      BY <1>4, <3>1
    <3> QED BY <3>1, <3>2
  <2>2. u[k] = SourceUnit(p) /\ source[p + 1] \in Nat /\ copy \in Nat /\ copy # 0
    BY <1>1, <1>4, <1>5, <2>1, CopyAssumption
  <2> QED BY <2>2 DEF SourceUnit, Unit, Stale
<1>7. u \in Seq(Unit) /\ DOMAIN u = 1 .. n
  <2>1. DOMAIN u = 1 .. n
    BY <1>1
  <2>2. \A k \in 1 .. n : SourceUnit(Len(hashed) + k - 1) \in Unit
    BY <1>1, <1>6
  <2> QED BY <1>1, <1>4, <2>1, <2>2
<1>8. Fresh(u)
  BY <1>6, <1>7 DEF Fresh
<1> QED BY <1>2, <1>4, <1>5, <1>7, <1>8, ConcatFresh, PwriteFresh

\* A copy begins with nothing hashed, nothing written and empty buffers.
LEMMA BeginStale ==
    ASSUME CopyInv, NEW n \in Sizes, BeginEngine(n) \/ BeginSync(n) \/ BeginFails(n)
    PROVE  NoStale'
<1>1. hashed' = <<>> /\ target' = <<>>
  BY DEF BeginEngine, BeginSync, BeginFails, NewCopy
<1>2. Fresh(hashed') /\ Fresh(target')
  BY <1>1 DEF Fresh
<1>3. CASE BeginEngine(n)
  <2>1. slots' = [i \in 0 .. (SlotCount' - 1) |-> FreeSlot]
    BY <1>3 DEF BeginEngine
  <2>2. Fresh(FreeSlot.bytes)
    <3>1. FreeSlot.bytes = [k \in 1 .. ChunkSize |-> Hole]
      BY DEF FreeSlot
    <3>2. Hole # Stale
      BY DEF Hole, Stale
    <3> QED BY <3>1, <3>2 DEF Fresh
  <2>3. \A i \in DOMAIN slots' : slots'[i] = FreeSlot
    BY <2>1
  <2>4. \A i \in DOMAIN slots' : Fresh(slots'[i].bytes)
    BY <2>2, <2>3
  <2> QED BY <1>2, <2>4 DEF NoStale, Fresh
<1>4. CASE BeginSync(n) \/ BeginFails(n)
  <2>1. pc' \in {"sync", "idle"}
    BY <1>4 DEF BeginSync, BeginFails, NewCopy
  <2>2. pc' \notin Looping
    BY <2>1 DEF Looping
  <2> QED BY <1>2, <2>2 DEF NoStale
<1> QED BY <1>3, <1>4

\* A unit is stale only after a wait has failed.
LEMMA NoStaleStep == CopyInv /\ NoStale /\ [CopyNext]_copyVars => NoStale'
<1> SUFFICES ASSUME CopyInv, NoStale, [CopyNext]_copyVars PROVE NoStale'
  OBVIOUS
<1>1. ASSUME NEW n \in Sizes, BeginEngine(n) \/ BeginSync(n) \/ BeginFails(n) PROVE NoStale'
  BY <1>1, BeginStale
<1>2. CASE Prime \/ Reap
  BY <1>2, LoopStale DEF Reap
<1>3. CASE HashFails \/ EngineReturns \/ FinalizeFails \/ SyncFails \/ SyncReturns
           \/ AfterRead \/ EditSource \/ AllCopied \/ UNCHANGED copyVars
  <2>1. hashed' = hashed /\ target' = target /\ waitFailed' = waitFailed
    BY <1>3 DEF HashFails, EngineReturns, FinalizeFails, SyncFails, SyncReturns, AfterRead,
       EditSource, AllCopied, copyVars
  <2>2. pc' \in Looping => pc \in Looping /\ slots' = slots
    BY <1>3 DEF HashFails, EngineReturns, FinalizeFails, SyncFails, SyncReturns, AfterRead,
       EditSource, AllCopied, copyVars, engineVars, Looping
  <2> QED BY <2>1, <2>2, StaleStays
<1>4. CASE WaitFails
  BY <1>4 DEF WaitFails, NoStale
<1>5. ASSUME NEW i \in DOMAIN slots, HashChunk(i) PROVE NoStale'
  BY <1>5, HashStale
<1>6. ASSUME NEW k \in 0 .. Len(sq), Flush(k) PROVE NoStale'
  <2>1. /\ hashed' = hashed /\ target' = target /\ waitFailed' = waitFailed
        /\ pc \in Looping /\ slots' = slots
    BY <1>6 DEF Flush, Looping
  <2> QED BY <2>1, StaleStays
<1>7. ASSUME NEW n \in 1 .. ChunkSize, SyncChunk(n) PROVE NoStale'
  BY <1>7, SyncStale
<1>8. CASE Kernel
  <2>1. ASSUME NEW r \in kernel, ExecuteFails(r) PROVE NoStale'
    <3>1. /\ hashed' = hashed /\ target' = target /\ waitFailed' = waitFailed
          /\ pc' = pc /\ slots' = slots
      BY <2>1 DEF ExecuteFails, engineVars
    <3> QED BY <3>1, StaleStays
  <2>2. ASSUME NEW r \in kernel, NEW n \in 0 .. ChunkSize, Execute(r, n) PROVE NoStale'
    BY <2>2, ExecuteStale
  <2>3. ASSUME NEW b \in orphans, OrphanEnds(b) PROVE NoStale'
    <3>1. waitFailed /\ waitFailed' = waitFailed
      BY <2>3 DEF OrphanEnds, CopyInv, CleanOK
    <3> QED BY <3>1 DEF NoStale
  <2> QED BY <1>8, <2>1, <2>2, <2>3 DEF Kernel
<1>9. CASE Thread
  BY <1>1, <1>2, <1>3, <1>4, <1>5, <1>6, <1>7, <1>9 DEF Thread
<1> QED BY <1>3, <1>8, <1>9 DEF CopyNext

\* What a copy delivers is in the target as it was hashed, every position once and in file
\* order, and what Prepare accepts is the source the manifest describes; but for units of
\* reads that an earlier copy has abandoned, of which there are none before a wait failed.
THEOREM CopyIsFaithfulSafe == CopySpec => []CopyIsFaithful
<1>1. CopyInv /\ NoStale => CopyIsFaithful
  <2>1. SUFFICES ASSUME CopyInv, NoStale
                 PROVE  CopiedIsHashed /\ OkMatchesSource /\ StaleAfterFailedWait
    BY DEF CopyIsFaithful
  <2>2. OrderOK /\ OkMatchesSource
    BY <2>1 DEF CopyInv
  <2>3. CopiedIsHashed
    BY <2>2 DEF OrderOK, CopiedIsHashed, Good
  <2>4. StaleAfterFailedWait
    BY <2>1 DEF NoStale, Fresh, StaleAfterFailedWait, Range
  <2> QED BY <2>2, <2>3, <2>4
<1>2. CopyInit => NoStale
  BY DEF CopyInit, NoStale, Fresh, Looping
<1> QED BY <1>1, <1>2, CopyInvariant, NoStaleStep, PTL DEF CopySpec
=============================================================================
