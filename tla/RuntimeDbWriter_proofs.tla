---------------------- MODULE RuntimeDbWriter_proofs ----------------------
(***************************************************************************)
(* TLAPS proofs about module RuntimeDbWriter, for every set of calling     *)
(* threads and tasks and every bound: type correctness, first come first   *)
(* served, and the refinement of RuntimeStore.                             *)
(***************************************************************************)
EXTENDS RuntimeDbWriter, SequenceTheorems, NaturalsInduction, WellFoundedInduction,
        TLAPS

\* The ranges WriterTypeOK leaves open.
CountersOK ==
    /\ stopping \in BOOLEAN /\ fatal \in BOOLEAN
    /\ applied \in Nat /\ answered \in Nat /\ errors \in Nat /\ throws \in Nat

\* What the writer thread holds where it is.
Phases ==
    /\ wpc \in {"check", "asleep"} => batch = <<>> /\ applied = 0 /\ answered = 0
    /\ wpc = "run" => batch # <<>> /\ applied = 0 /\ answered = 0
    /\ wpc = "apply" => batch # <<>> /\ answered = 0
    /\ wpc = "answer" => answered <= Len(batch)
    /\ wpc \in {"failBatch", "setFatal", "failPending", "terminated"} => throws > 0
    /\ wpc \in {"setFatal", "failPending"} => answered = 0
    /\ wpc = "failPending" => stopping /\ commands = <<>>
    /\ wpc = "returned" => stopping /\ commands = <<>> /\ batch = <<>>
    /\ fatal => wpc \in {"failPending", "returned"}
    /\ stopper = "joined" => wpc = "returned"

\* Ids grow along committed, the batch in work and the queue, in this order.
QueueOrder ==
    /\ \A i, j \in DOMAIN commands : i < j => commands[i].id < commands[j].id
    /\ \A i \in DOMAIN commands : commands[i].id <= accepted
    /\ \A i \in DOMAIN committed, j \in DOMAIN commands : committed[i] < commands[j].id

BatchOrder ==
    /\ \A i, j \in DOMAIN batch : i < j => batch[i].id < batch[j].id
    /\ \A i \in DOMAIN batch : batch[i].id <= accepted
    /\ \A i \in DOMAIN batch, j \in DOMAIN commands : batch[i].id < commands[j].id
    /\ wpc \in {"run", "apply"} =>
           \A i \in DOMAIN committed, j \in DOMAIN batch : committed[i] < batch[j].id

CommitOrder ==
    /\ CommitsFollowAcceptance
    /\ \A i \in DOMAIN committed : committed[i] <= accepted

\* The result the batch is completed with is the truth about its transaction.
ResultIsTrue ==
    wpc = "answer" =>
        \/ \A i \in DOMAIN batch : result[i] = "ok" /\ batch[i].id \in CommittedIds
        \/ \A i \in DOMAIN batch : result[i] = "error" /\ batch[i].id \notin CommittedIds

Working == {"run", "apply", "answer", "failBatch", "failPending"}

\* The caller of a command blocks on it.
Waiting(cmd) ==
    /\ cpc[cmd.client] # "idle"
    /\ call[cmd.client] = cmd
    /\ promise[cmd.client] = "none"

CommandsWait == \A i \in DOMAIN commands : Waiting(commands[i])

BatchWaits ==
    wpc \in Working => \A i \in DOMAIN batch : i > answered => Waiting(batch[i])

\* The other way round: whoever waits has its command in the queue or in the batch.
NoneForgotten ==
    \A c \in Client : cpc[c] # "idle" /\ promise[c] = "none" =>
        \/ \E i \in DOMAIN commands : commands[i] = call[c]
        \/ /\ wpc \in Working \cup {"terminated"}
           /\ \E i \in DOMAIN batch : i > answered /\ batch[i] = call[c]

\* What a promise holds is the truth about the transaction of its command.
PromiseIsTrue ==
    \A c \in Client :
        /\ cpc[c] = "idle" => promise[c] = "none"
        /\ cpc[c] # "idle" => call[c] \in Command /\ call[c].id <= accepted
        /\ promise[c] = "ok" => call[c].id \in CommittedIds
        /\ promise[c] = "error" => call[c].id \notin CommittedIds \/ throws > 0

\* No two callers wait for commands of one id.
CallsApart ==
    \A c, d \in Client :
        cpc[c] # "idle" /\ cpc[d] # "idle" /\ call[c].id = call[d].id => c = d

\* The inductive invariant.
WriterInv ==
    /\ WriterTypeOK /\ CountersOK /\ Phases
    /\ QueueOrder /\ BatchOrder /\ CommitOrder
    /\ ResultIsTrue /\ CommandsWait /\ BatchWaits /\ NoneForgotten
    /\ PromiseIsTrue /\ CallsApart

---------------------------------------------------------------------------
(* Lemmas about the operators.                                             *)

\* What Append does to the queue.
LEMMA AppendFacts ==
    ASSUME NEW s \in Seq(Command), NEW e \in Command
    PROVE  /\ Append(s, e) \in Seq(Command)
           /\ DOMAIN s = 1 .. Len(s) /\ Len(s) \in Nat
           /\ DOMAIN Append(s, e) = 1 .. (Len(s) + 1)
           /\ \A i \in 1 .. Len(s) : Append(s, e)[i] = s[i]
           /\ Append(s, e)[Len(s) + 1] = e
  OBVIOUS

\* A non-empty set of positions has a last one.
LEMMA LastPosition ==
    ASSUME NEW n \in Nat, NEW S \in SUBSET (1 .. n), S # {}
    PROVE  \E x \in S : \A y \in S : y <= x
<1> DEFINE T == {n - x : x \in S}
<1>1. T \subseteq Nat /\ T # {}
  <2>1. ASSUME NEW x \in S PROVE n - x \in Nat
    OBVIOUS
  <2>2. PICK x \in S : TRUE
    OBVIOUS
  <2>3. n - x \in T
    OBVIOUS
  <2> QED BY <2>1, <2>3
<1>2. \E a \in T : \A b \in T : ~(<<b, a>> \in OpToRel(<, Nat))
  <2> HIDE DEF T
  <2> QED BY <1>1, NatLessThanWellFounded, WFMin
<1>3. PICK a \in T : \A b \in T : ~(<<b, a>> \in OpToRel(<, Nat))
  BY <1>2
<1>4. \A b \in T : ~(b < a)
  BY <1>1, <1>3 DEF OpToRel
<1>5. PICK x \in S : a = n - x
  OBVIOUS
<1>6. ASSUME NEW y \in S PROVE y <= x
  <2>1. n - y \in T
    OBVIOUS
  <2> QED BY <1>4, <1>5, <2>1
<1> QED BY <1>6

\* A batch can always be chosen, and it is a beginning of the queue: of the lengths that
\* fit there is a largest one.
LEMMA BatchSizeInRange ==
    ASSUME NEW q \in Seq(Command), q # <<>>
    PROVE  BatchSize(q) \in 1 .. Len(q)
<1> DEFINE Fits(n) == n = 1 \/ (n <= MaxBatch /\ Groupable(q, n))
           S == {n \in 1 .. Len(q) : Fits(n)}
<1>1. Len(q) \in Nat /\ Len(q) >= 1 /\ MaxBatch \in Nat
  BY WriterAssumption
<1>2. S \in SUBSET (1 .. Len(q)) /\ S # {}
  <2>1. 1 \in S
    BY <1>1
  <2> QED BY <2>1
<1>3. PICK n \in S : \A m \in S : m <= n
  <2> HIDE DEF S
  <2> QED BY <1>1, <1>2, LastPosition
<1>4. n \in 1 .. Len(q) /\ Fits(n)
  OBVIOUS
<1>5. ASSUME NEW m \in (n + 1) .. Len(q) PROVE m > MaxBatch \/ ~Groupable(q, m)
  <2>1. m \in 1 .. Len(q) /\ ~(m <= n) /\ m \in Nat
    BY <1>1, <1>4
  <2>2. ~Fits(m)
    BY <1>3, <2>1
  <2> QED BY <1>1, <2>1, <2>2
<1> QED BY <1>4, <1>5 DEF BatchSize

\* What Take does: the queue is cut in two.
LEMMA CutFacts ==
    ASSUME NEW q \in Seq(Command), NEW n \in 1 .. Len(q)
    PROVE  /\ SubSeq(q, 1, n) \in Seq(Command) /\ SubSeq(q, n + 1, Len(q)) \in Seq(Command)
           /\ Len(q) \in Nat /\ DOMAIN q = 1 .. Len(q)
           /\ Len(SubSeq(q, 1, n)) = n /\ DOMAIN SubSeq(q, 1, n) = 1 .. n
           /\ DOMAIN SubSeq(q, n + 1, Len(q)) = 1 .. (Len(q) - n)
           /\ \A i \in 1 .. n : SubSeq(q, 1, n)[i] = q[i]
           /\ \A i \in 1 .. (Len(q) - n) : SubSeq(q, n + 1, Len(q))[i] = q[i + n]
<1>1. Len(q) \in Nat /\ DOMAIN q = 1 .. Len(q) /\ \A i \in 1 .. Len(q) : q[i] \in Command
  OBVIOUS
<1>2. /\ SubSeq(q, 1, n) \in Seq(Command) /\ Len(SubSeq(q, 1, n)) = n
      /\ \A i \in 1 .. n : SubSeq(q, 1, n)[i] = q[i]
  BY <1>1, SubSeqProperties
<1>3. PICK m \in Int : m = n + 1
  OBVIOUS
<1>4. \A i \in m .. Len(q) : q[i] \in Command
  BY <1>1, <1>3
<1> DEFINE r == SubSeq(q, m, Len(q))
<1>5. /\ r \in Seq(Command)
      /\ Len(r) = IF m <= Len(q) THEN Len(q) - m + 1 ELSE 0
      /\ \A i \in 1 .. Len(q) - m + 1 : r[i] = q[m + i - 1]
  <2>1. m \in Int /\ Len(q) \in Int
    BY <1>1
  <2> QED BY <2>1, <1>4, SubSeqProperties
<1>6. r = SubSeq(q, n + 1, Len(q))
  BY <1>3
<1> HIDE DEF r
<1>7. Len(r) = Len(q) - n /\ \A i \in 1 .. (Len(q) - n) : r[i] = q[i + n]
  <2>1. Len(r) = Len(q) - n
    <3>1. m <= Len(q) => Len(q) - m + 1 = Len(q) - n
      BY <1>1, <1>3
    <3>2. ASSUME ~(m <= Len(q)) PROVE 0 = Len(q) - n
      <4>1. n \in Int /\ n <= Len(q) /\ Len(q) \in Int
        BY <1>1
      <4>2. n = Len(q)
        BY <1>3, <3>2, <4>1
      <4> QED BY <4>1, <4>2
    <3> QED BY <1>5, <3>1, <3>2
  <2>2. ASSUME NEW i \in 1 .. (Len(q) - n) PROVE r[i] = q[i + n]
    <3>1. i \in 1 .. Len(q) - m + 1 /\ m + i - 1 = i + n
      BY <1>1, <1>3
    <3> QED BY <1>5, <3>1
  <2> QED BY <2>1, <2>2
<1>8. DOMAIN r = 1 .. (Len(q) - n)
  BY <1>5, <1>7
<1>9. DOMAIN SubSeq(q, 1, n) = 1 .. n
  BY <1>2
<1> QED BY <1>1, <1>2, <1>5, <1>6, <1>7, <1>8, <1>9

\* The fields of a command.
LEMMA CommandFields ==
    ASSUME NEW cmd \in Command
    PROVE  cmd.id \in 1 .. MaxCalls /\ cmd.id \in Nat /\ cmd.client \in Client
  BY WriterAssumption DEF Command

\* What a COMMIT does to the committed ids.
LEMMA CommitFacts ==
    ASSUME NEW ids \in Seq(1 .. MaxCalls), NEW b \in Seq(Command)
    PROVE  /\ ids \o Ids(b) \in Seq(1 .. MaxCalls)
           /\ Len(ids) \in Nat /\ Len(b) \in Nat
           /\ DOMAIN ids = 1 .. Len(ids) /\ DOMAIN b = 1 .. Len(b)
           /\ DOMAIN (ids \o Ids(b)) = 1 .. (Len(ids) + Len(b))
           /\ \A i \in 1 .. Len(ids) : (ids \o Ids(b))[i] = ids[i]
           /\ \A i \in 1 .. Len(b) : (ids \o Ids(b))[Len(ids) + i] = b[i].id
<1>1. /\ Len(b) \in Nat /\ DOMAIN b = 1 .. Len(b)
      /\ \A i \in 1 .. Len(b) : b[i] \in Command
  OBVIOUS
<1>2. \A i \in 1 .. Len(b) : b[i].id \in 1 .. MaxCalls
  BY <1>1, CommandFields
<1>3. Ids(b) \in Seq(1 .. MaxCalls) /\ Len(Ids(b)) = Len(b)
  BY <1>1, <1>2 DEF Ids
<1>4. \A i \in 1 .. Len(b) : Ids(b)[i] = b[i].id
  BY <1>1 DEF Ids
<1>5. Len(ids) \in Nat /\ DOMAIN ids = 1 .. Len(ids)
  OBVIOUS
<1>6. /\ ids \o Ids(b) \in Seq(1 .. MaxCalls)
      /\ Len(ids \o Ids(b)) = Len(ids) + Len(Ids(b))
      /\ \A i \in 1 .. (Len(ids) + Len(Ids(b))) : (ids \o Ids(b))[i] =
              IF i <= Len(ids) THEN ids[i] ELSE Ids(b)[i - Len(ids)]
  BY <1>3, ConcatProperties, Zenon
<1>7. /\ DOMAIN (ids \o Ids(b)) = 1 .. (Len(ids) + Len(b))
      /\ \A i \in 1 .. Len(ids) : (ids \o Ids(b))[i] = ids[i]
  BY <1>1, <1>3, <1>5, <1>6
<1>8. ASSUME NEW i \in 1 .. Len(b) PROVE (ids \o Ids(b))[Len(ids) + i] = b[i].id
  <2>1. /\ Len(ids) + i \in 1 .. (Len(ids) + Len(Ids(b)))
        /\ ~(Len(ids) + i <= Len(ids)) /\ Len(ids) + i - Len(ids) = i
    BY <1>1, <1>3, <1>5
  <2>2. (ids \o Ids(b))[Len(ids) + i] = Ids(b)[i]
    BY <1>6, <2>1
  <2> QED BY <1>4, <2>2
<1> QED BY <1>1, <1>5, <1>6, <1>7, <1>8

---------------------------------------------------------------------------
(* The invariant is inductive.                                             *)

\* The initial state satisfies the invariant.
LEMMA WriterInvInit == WriterInit => WriterInv
<1> SUFFICES ASSUME WriterInit PROVE WriterInv
  OBVIOUS
<1> USE WriterAssumption DEF WriterInit
<1>1. <<>> \in Seq(Command) /\ <<>> \in Seq(1 .. MaxCalls) /\ Len(<<>>) = 0
  OBVIOUS
<1>2. WriterTypeOK
  BY <1>1 DEF WriterTypeOK, Answer
<1>3. CountersOK /\ Phases
  BY DEF CountersOK, Phases
<1>4. QueueOrder /\ BatchOrder /\ CommitOrder
  BY DEF QueueOrder, BatchOrder, CommitOrder, CommitsFollowAcceptance
<1>5. ResultIsTrue /\ CommandsWait /\ BatchWaits /\ NoneForgotten
  BY DEF ResultIsTrue, CommandsWait, BatchWaits, Working, NoneForgotten
<1>6. PromiseIsTrue /\ CallsApart
  BY DEF PromiseIsTrue, CallsApart
<1> QED BY <1>2, <1>3, <1>4, <1>5, <1>6 DEF WriterInv

\* The invariant taken apart, and what its types say of sequences and commands.
LEMMA WriterFacts ==
    ASSUME WriterInv
    PROVE  /\ WriterTypeOK /\ CountersOK /\ Phases
           /\ QueueOrder /\ BatchOrder /\ CommitOrder
           /\ ResultIsTrue /\ CommandsWait /\ BatchWaits /\ NoneForgotten
           /\ PromiseIsTrue /\ CallsApart
           /\ commands \in Seq(Command) /\ batch \in Seq(Command)
           /\ DOMAIN commands = 1 .. Len(commands) /\ Len(commands) \in Nat
           /\ DOMAIN batch = 1 .. Len(batch) /\ Len(batch) \in Nat
           /\ DOMAIN committed = 1 .. Len(committed) /\ Len(committed) \in Nat
           /\ \A i \in DOMAIN commands : commands[i] \in Command
           /\ \A i \in DOMAIN batch : batch[i] \in Command
           /\ \A i \in DOMAIN committed : committed[i] \in Nat
           /\ \A cmd \in Command : cmd.id \in Nat /\ cmd.client \in Client
           /\ committed \in Seq(1 .. MaxCalls) /\ accepted \in Nat /\ MaxCalls \in Nat
<1>1. /\ WriterTypeOK /\ CountersOK /\ Phases /\ QueueOrder /\ BatchOrder /\ CommitOrder
      /\ ResultIsTrue /\ CommandsWait /\ BatchWaits /\ NoneForgotten /\ PromiseIsTrue
      /\ CallsApart
  BY DEF WriterInv
<1>2. /\ commands \in Seq(Command) /\ batch \in Seq(Command)
      /\ committed \in Seq(1 .. MaxCalls) /\ accepted \in Nat /\ MaxCalls \in Nat
  BY <1>1, WriterAssumption DEF WriterTypeOK
<1>3. \A cmd \in Command : cmd.id \in Nat /\ cmd.client \in Client
  BY CommandFields
<1>4. /\ DOMAIN commands = 1 .. Len(commands) /\ Len(commands) \in Nat
      /\ DOMAIN batch = 1 .. Len(batch) /\ Len(batch) \in Nat
      /\ DOMAIN committed = 1 .. Len(committed) /\ Len(committed) \in Nat
      /\ \A i \in DOMAIN commands : commands[i] \in Command
      /\ \A i \in DOMAIN batch : batch[i] \in Command
  BY <1>2
<1>5. \A i \in DOMAIN committed : committed[i] \in Nat
  BY <1>2
<1> QED BY <1>1, <1>2, <1>3, <1>4, <1>5

\* COMMIT succeeds: the ids of the batch go to the end of committed.
LEMMA CommittingKeeps ==
    ASSUME WriterInv, wpc \in {"run", "apply"}, Completing(AllOk),
           committed' = committed \o Ids(batch),
           UNCHANGED <<queueVars, clientVars, batch, applied, answered, stopper, bounds>>
    PROVE  WriterInv' /\ CommittedIds' = CommittedIds \cup {batch[i].id : i \in DOMAIN batch}
<1> USE DEF queueVars, clientVars, bounds, Completing
<1>1. /\ committed' \in Seq(1 .. MaxCalls)
      /\ DOMAIN committed' = 1 .. (Len(committed) + Len(batch))
      /\ \A i \in 1 .. Len(committed) : committed'[i] = committed[i]
      /\ \A i \in 1 .. Len(batch) : committed'[Len(committed) + i] = batch[i].id
  BY WriterFacts, CommitFacts
<1>2. ASSUME NEW k \in DOMAIN committed'
      PROVE  \/ k \in DOMAIN committed /\ committed'[k] = committed[k]
             \/ \E i \in DOMAIN batch : k = Len(committed) + i /\ committed'[k] = batch[i].id
  <2>1. CASE k <= Len(committed)
    BY <1>1, <2>1, WriterFacts
  <2>2. CASE ~(k <= Len(committed))
    <3>1. k - Len(committed) \in DOMAIN batch /\ Len(committed) + (k - Len(committed)) = k
      BY <1>1, <2>2, WriterFacts
    <3> QED BY <1>1, <3>1, WriterFacts
  <2> QED BY <2>1, <2>2
<1>3. CommittedIds' = CommittedIds \cup {batch[i].id : i \in DOMAIN batch}
  <2>1. ASSUME NEW x \in CommittedIds'
        PROVE  x \in CommittedIds \cup {batch[i].id : i \in DOMAIN batch}
    BY <1>2 DEF CommittedIds
  <2>2. ASSUME NEW x \in CommittedIds PROVE x \in CommittedIds'
    <3>1. PICK k \in DOMAIN committed : x = committed[k]
      BY DEF CommittedIds
    <3>2. k \in DOMAIN committed' /\ committed'[k] = x
      BY <1>1, <3>1, WriterFacts
    <3> QED BY <3>2 DEF CommittedIds
  <2>3. ASSUME NEW i \in DOMAIN batch PROVE batch[i].id \in CommittedIds'
    <3>1. Len(committed) + i \in DOMAIN committed'
      BY <1>1, WriterFacts
    <3>2. committed'[Len(committed) + i] = batch[i].id
      BY <1>1, WriterFacts
    <3> QED BY <3>1, <3>2 DEF CommittedIds
  <2> QED BY <2>1, <2>2, <2>3
<1>4. WriterTypeOK' /\ CountersOK'
  BY <1>1, WriterFacts DEF WriterTypeOK, CountersOK
<1>5. Phases'
  BY WriterFacts DEF Phases, CountersOK
<1>6. QueueOrder'
  <2>1. ASSUME NEW k \in DOMAIN committed', NEW j \in DOMAIN commands
        PROVE  committed'[k] < commands[j].id
    BY <1>2, WriterFacts DEF QueueOrder, BatchOrder
  <2> QED BY <2>1, WriterFacts DEF QueueOrder
<1>7. BatchOrder'
  BY WriterFacts DEF BatchOrder
<1>8. CommitOrder'
  <2>1. ASSUME NEW k \in DOMAIN committed' PROVE committed'[k] <= accepted
    BY <1>2, WriterFacts DEF CommitOrder, BatchOrder
  <2>2. ASSUME NEW k \in DOMAIN committed', NEW l \in DOMAIN committed', k < l
        PROVE  committed'[k] < committed'[l]
    <3>1. CASE k \in DOMAIN committed /\ l \in DOMAIN committed
      BY <1>1, <2>2, <3>1, WriterFacts DEF CommitOrder, CommitsFollowAcceptance
    <3>2. CASE k \in DOMAIN committed /\ l \notin DOMAIN committed
      <4>1. PICK j \in DOMAIN batch : l = Len(committed) + j /\ committed'[l] = batch[j].id
        BY <1>2, <3>2
      <4>2. committed'[k] = committed[k]
        BY <1>1, <3>2, WriterFacts
      <4> QED BY <3>2, <4>1, <4>2, WriterFacts DEF BatchOrder
    <3>3. CASE k \notin DOMAIN committed /\ l \notin DOMAIN committed
      <4>1. PICK i \in DOMAIN batch : k = Len(committed) + i /\ committed'[k] = batch[i].id
        BY <1>2, <3>3
      <4>2. PICK j \in DOMAIN batch : l = Len(committed) + j /\ committed'[l] = batch[j].id
        BY <1>2, <3>3
      <4>3. i < j
        BY <2>2, <4>1, <4>2, WriterFacts
      <4> QED BY <4>1, <4>2, <4>3, WriterFacts DEF BatchOrder
    <3>4. CASE k \notin DOMAIN committed /\ l \in DOMAIN committed
      BY <1>1, <2>2, <3>4, WriterFacts
    <3> QED BY <3>1, <3>2, <3>3, <3>4
  <2> QED BY <2>1, <2>2 DEF CommitOrder, CommitsFollowAcceptance
<1>9. ResultIsTrue'
  <2>1. \A i \in DOMAIN batch : result'[i] = "ok" /\ batch[i].id \in CommittedIds'
    BY <1>3, WriterFacts DEF AllOk
  <2> QED BY <2>1 DEF ResultIsTrue
<1>10. CommandsWait' /\ BatchWaits'
  BY WriterFacts DEF CommandsWait, BatchWaits, Waiting, Working
<1>11. NoneForgotten'
  BY WriterFacts DEF NoneForgotten, Working
<1>12. PromiseIsTrue'
  <2>1. ASSUME NEW c \in Client, promise[c] = "error", throws = 0
        PROVE  call[c].id \notin CommittedIds'
    <3>1. cpc[c] # "idle" /\ call[c].id \notin CommittedIds
      BY <2>1, WriterFacts DEF PromiseIsTrue, CountersOK
    <3>2. ASSUME NEW i \in DOMAIN batch, batch[i].id = call[c].id PROVE FALSE
      <4>1. Waiting(batch[i])
        BY WriterFacts DEF BatchWaits, Phases, Working, CountersOK
      <4>2. batch[i].client \in Client /\ batch[i].client = c
        BY <3>1, <3>2, <4>1, WriterFacts DEF Waiting, CallsApart
      <4> QED BY <2>1, <4>1, <4>2 DEF Waiting
    <3> QED BY <1>3, <3>1, <3>2
  <2> QED BY <1>3, <2>1, WriterFacts DEF PromiseIsTrue, CountersOK
<1>13. CallsApart'
  BY WriterFacts DEF CallsApart
<1> QED
  BY <1>3, <1>4, <1>5, <1>6, <1>7, <1>8, <1>9, <1>10, <1>11, <1>12, <1>13
  DEF WriterInv

\* The transaction fails: it is rolled back and the batch is completed with errors.
LEMMA RollingBackKeeps ==
    ASSUME WriterInv, wpc \in {"run", "apply"}, Failing, Completing(AllError),
           UNCHANGED <<queueVars, clientVars, batch, applied, answered, committed, stopper>>
    PROVE  WriterInv'
<1> USE DEF queueVars, clientVars, Completing, Failing
<1>1. WriterTypeOK' /\ CountersOK'
  BY WriterFacts DEF WriterTypeOK, CountersOK
<1>2. Phases'
  BY WriterFacts DEF Phases, CountersOK
<1>3. QueueOrder' /\ CommitOrder'
  BY WriterFacts DEF QueueOrder, CommitOrder, CommitsFollowAcceptance
<1>4. BatchOrder'
  BY WriterFacts DEF BatchOrder
<1>5. ResultIsTrue'
  <2>1. ASSUME NEW i \in DOMAIN batch
        PROVE  result'[i] = "error" /\ batch[i].id \notin CommittedIds
    <3>1. result'[i] = "error"
      BY WriterFacts DEF AllError
    <3>2. ASSUME NEW k \in DOMAIN committed PROVE batch[i].id # committed[k]
      <4>1. committed[k] < batch[i].id
        BY WriterFacts DEF BatchOrder
      <4> QED BY <4>1, WriterFacts
    <3> QED BY <3>1, <3>2 DEF CommittedIds
  <2> QED BY <2>1 DEF ResultIsTrue, CommittedIds
<1>6. CommandsWait' /\ BatchWaits'
  BY WriterFacts DEF CommandsWait, BatchWaits, Waiting, Working
<1>7. NoneForgotten'
  BY WriterFacts DEF NoneForgotten, Working
<1>8. PromiseIsTrue' /\ CallsApart'
  BY WriterFacts DEF PromiseIsTrue, CommittedIds, CallsApart
<1> QED BY <1>1, <1>2, <1>3, <1>4, <1>5, <1>6, <1>7, <1>8 DEF WriterInv

\* The writer takes a batch from the head of the queue.
LEMMA TakeKeeps == ASSUME WriterInv, Take PROVE WriterInv'
<1> DEFINE n == BatchSize(commands)
           b == SubSeq(commands, 1, n)
           r == SubSeq(commands, n + 1, Len(commands))
<1>1. n \in 1 .. Len(commands)
  BY WriterFacts, BatchSizeInRange DEF Take
<1>2. /\ b \in Seq(Command) /\ r \in Seq(Command)
      /\ Len(b) = n /\ DOMAIN b = 1 .. n /\ DOMAIN r = 1 .. (Len(commands) - n)
      /\ \A i \in 1 .. n : b[i] = commands[i]
      /\ \A i \in 1 .. (Len(commands) - n) : r[i] = commands[i + n]
  BY <1>1, WriterFacts, CutFacts
<1>3. /\ wpc = "check" /\ batch' = b /\ commands' = r /\ wpc' = "run"
      /\ UNCHANGED <<stopping, fatal, accepted, cpc, call, promise, last, applied, result,
                     answered, committed, stopper, errors, throws>>
  BY DEF Take, clientVars, bounds
<1> HIDE DEF n, b, r
<1>4. n \in Nat /\ n >= 1 /\ n <= Len(commands)
  BY <1>1, WriterFacts
<1>5. ASSUME NEW i \in DOMAIN batch'
      PROVE  i \in DOMAIN commands /\ batch'[i] = commands[i] /\ i \in Nat /\ i <= n
  BY <1>2, <1>3, <1>4, WriterFacts
<1>6. ASSUME NEW i \in DOMAIN commands'
      PROVE  /\ i \in Nat /\ i >= 1
             /\ i + n \in DOMAIN commands /\ commands'[i] = commands[i + n]
  BY <1>2, <1>3, <1>4, WriterFacts
<1>7. batch = <<>> /\ applied = 0 /\ answered = 0
  BY <1>3, WriterFacts DEF Phases
<1>8. WriterTypeOK' /\ CountersOK'
  BY <1>2, <1>3, <1>4, <1>7, WriterFacts DEF WriterTypeOK, CountersOK
<1>9. Phases'
  <2>1. Len(batch') # 0
    BY <1>2, <1>3, <1>4
  <2>2. batch' # <<>>
    BY <2>1
  <2> QED BY <1>3, <1>7, <2>2, WriterFacts DEF Phases, CountersOK
<1>10. QueueOrder'
  <2>1. ASSUME NEW i \in DOMAIN commands', NEW j \in DOMAIN commands', i < j
        PROVE  commands'[i].id < commands'[j].id
    <3>1. i + n < j + n
      BY <1>4, <1>6, <2>1
    <3> QED BY <1>6, <3>1, WriterFacts DEF QueueOrder
  <2>2. \A i \in DOMAIN commands' : commands'[i].id <= accepted
    BY <1>6, WriterFacts DEF QueueOrder
  <2>3. \A k \in DOMAIN committed, i \in DOMAIN commands' : committed[k] < commands'[i].id
    BY <1>6, WriterFacts DEF QueueOrder
  <2> QED BY <1>3, <2>1, <2>2, <2>3 DEF QueueOrder
<1>11. BatchOrder'
  <2>1. ASSUME NEW i \in DOMAIN batch', NEW j \in DOMAIN commands'
        PROVE  batch'[i].id < commands'[j].id
    <3>1. i < j + n
      BY <1>4, <1>5, <1>6
    <3> QED BY <1>5, <1>6, <3>1, WriterFacts DEF QueueOrder
  <2>2. \A i, j \in DOMAIN batch' : i < j => batch'[i].id < batch'[j].id
    BY <1>5, WriterFacts DEF QueueOrder
  <2>3. \A k \in DOMAIN committed, j \in DOMAIN batch' : committed[k] < batch'[j].id
    BY <1>5, WriterFacts DEF QueueOrder
  <2>4. \A i \in DOMAIN batch' : batch'[i].id <= accepted
    BY <1>5, WriterFacts DEF QueueOrder
  <2> QED BY <1>3, <2>1, <2>2, <2>3, <2>4 DEF BatchOrder
<1>12. CommitOrder' /\ ResultIsTrue'
  BY <1>3, WriterFacts DEF CommitOrder, CommitsFollowAcceptance, ResultIsTrue
<1>13. CommandsWait' /\ BatchWaits'
  <2>1. ASSUME NEW i \in DOMAIN commands' PROVE Waiting(commands'[i])
    BY <1>6, WriterFacts DEF CommandsWait
  <2>2. ASSUME NEW i \in DOMAIN batch' PROVE Waiting(batch'[i])
    BY <1>5, WriterFacts DEF CommandsWait
  <2> QED BY <1>3, <2>1, <2>2 DEF CommandsWait, BatchWaits, Waiting
<1>14. NoneForgotten'
  <2>1. ASSUME NEW c \in Client, cpc[c] # "idle", promise[c] = "none"
        PROVE  \/ \E i \in DOMAIN commands' : commands'[i] = call[c]
               \/ \E i \in DOMAIN batch' : i > answered /\ batch'[i] = call[c]
    <3>1. PICK i \in DOMAIN commands : commands[i] = call[c]
      BY <1>3, <2>1, WriterFacts DEF NoneForgotten, Working
    <3>2. i \in Nat /\ i >= 1 /\ i <= Len(commands) /\ Len(commands) \in Nat
      BY WriterFacts
    <3>3. CASE i <= n
      <4>1. i \in 1 .. n
        BY <1>4, <3>2, <3>3
      <4>2. i \in DOMAIN batch' /\ batch'[i] = call[c]
        BY <1>2, <1>3, <3>1, <4>1
      <4> QED BY <1>7, <3>2, <4>2
    <3>4. CASE ~(i <= n)
      <4>1. i - n \in 1 .. (Len(commands) - n) /\ (i - n) + n = i
        BY <1>4, <3>2, <3>4
      <4>2. i - n \in DOMAIN commands' /\ commands'[i - n] = call[c]
        BY <1>2, <1>3, <3>1, <4>1
      <4> QED BY <4>2
    <3> QED BY <3>3, <3>4
  <2> QED BY <1>3, <2>1 DEF NoneForgotten, Working
<1>15. PromiseIsTrue' /\ CallsApart'
  BY <1>3, WriterFacts DEF PromiseIsTrue, CommittedIds, CallsApart
<1> QED
  BY <1>8, <1>9, <1>10, <1>11, <1>12, <1>13, <1>14, <1>15 DEF WriterInv

\* The writer completes one promise, or leaves the finished batch.
LEMMA CompleteKeeps == ASSUME WriterInv, Complete PROVE WriterInv'
<1> USE DEF queueVars, bounds
<1>1. CASE answered < Len(batch)
  <2> DEFINE k == answered + 1
  <2>1. /\ k \in DOMAIN batch /\ k > answered /\ wpc = "answer"
        /\ promise' = [promise EXCEPT ![batch[k].client] = result[k]] /\ answered' = k
        /\ UNCHANGED <<queueVars, cpc, call, last, committed, stopper, bounds, wpc, batch,
                       applied, result>>
    BY <1>1, WriterFacts DEF Complete, SetValue, CountersOK
  <2>2. Waiting(batch[k]) /\ batch[k].client \in Client /\ batch[k] \in Command
    BY <2>1, WriterFacts DEF BatchWaits, Working
  <2>3. result[k] \in {"ok", "error"}
    BY <2>1, WriterFacts DEF ResultIsTrue
  <2>4. /\ promise \in [Client -> Answer]
        /\ promise'[batch[k].client] = result[k]
        /\ \A c \in Client : c # batch[k].client => promise'[c] = promise[c]
    BY <2>1, <2>2, WriterFacts DEF WriterTypeOK
  <2>5. WriterTypeOK'
    BY <2>1, <2>2, <2>3, WriterFacts DEF WriterTypeOK, Answer
  <2>6. CountersOK' /\ Phases'
    BY <1>1, <2>1, WriterFacts DEF CountersOK, Phases
  <2>7. QueueOrder' /\ BatchOrder' /\ CommitOrder'
    BY <2>1, WriterFacts DEF QueueOrder, BatchOrder, CommitOrder, CommitsFollowAcceptance
  <2>8. ResultIsTrue' /\ CallsApart'
    BY <2>1, WriterFacts DEF ResultIsTrue, CommittedIds, CallsApart
  <2>9. CommandsWait'
    <3>1. ASSUME NEW i \in DOMAIN commands PROVE Waiting(commands[i])'
      <4>1. Waiting(commands[i]) /\ batch[k].id < commands[i].id
        BY <2>1, WriterFacts DEF CommandsWait, BatchOrder
      <4>2. commands[i].client # batch[k].client
        <5>1. commands[i] # batch[k]
          BY <2>2, <4>1, CommandFields
        <5> QED BY <2>2, <4>1, <5>1 DEF Waiting
      <4> QED BY <2>1, <2>4, <4>1, <4>2, WriterFacts DEF Waiting
    <3> QED BY <2>1, <3>1 DEF CommandsWait, Waiting
  <2>10. BatchWaits'
    <3>1. ASSUME NEW i \in DOMAIN batch, i > k PROVE Waiting(batch[i])'
      <4>1. Waiting(batch[i]) /\ batch[k].id < batch[i].id
        BY <2>1, <3>1, WriterFacts DEF BatchWaits, Working, BatchOrder, CountersOK
      <4>2. batch[i].client # batch[k].client
        <5>1. batch[i] # batch[k]
          BY <2>2, <4>1, CommandFields
        <5> QED BY <2>2, <4>1, <5>1 DEF Waiting
      <4> QED BY <2>1, <2>4, <4>1, <4>2, WriterFacts DEF Waiting
    <3> QED BY <2>1, <3>1 DEF BatchWaits, Waiting
  <2>11. NoneForgotten'
    <3>1. ASSUME NEW c \in Client, cpc[c] # "idle", promise'[c] = "none"
          PROVE  \/ \E i \in DOMAIN commands : commands[i] = call[c]
                 \/ \E i \in DOMAIN batch : i > k /\ batch[i] = call[c]
      <4>1. c # batch[k].client /\ promise[c] = "none"
        BY <2>3, <2>4, <3>1
      <4>2. ASSUME NEW i \in DOMAIN batch, i > answered, batch[i] = call[c] PROVE i > k
        <5>1. i # k
          BY <2>2, <3>1, <4>1, <4>2, WriterFacts DEF CallsApart, Waiting
        <5> QED BY <4>2, <5>1, WriterFacts DEF CountersOK
      <4> QED BY <3>1, <4>1, <4>2, WriterFacts DEF NoneForgotten
    <3> QED BY <2>1, <3>1 DEF NoneForgotten, Working
  <2>12. PromiseIsTrue'
    <3>1. ASSUME NEW c \in Client PROVE
            /\ cpc[c] = "idle" => promise'[c] = "none"
            /\ promise'[c] = "ok" => call[c].id \in CommittedIds
            /\ promise'[c] = "error" => call[c].id \notin CommittedIds \/ throws > 0
      <4>1. CASE c = batch[k].client
        BY <2>1, <2>2, <2>4, <4>1, WriterFacts DEF Waiting, ResultIsTrue
      <4>2. CASE c # batch[k].client
        BY <2>4, <4>2, WriterFacts DEF PromiseIsTrue
      <4> QED BY <4>1, <4>2
    <3> QED BY <2>1, <3>1, WriterFacts DEF PromiseIsTrue, CommittedIds
  <2> QED
    BY <2>5, <2>6, <2>7, <2>8, <2>9, <2>10, <2>11, <2>12 DEF WriterInv
<1>2. CASE ~(answered < Len(batch))
  <2>1. /\ wpc = "answer" /\ wpc' = "check" /\ batch' = <<>> /\ applied' = 0 /\ answered' = 0
        /\ UNCHANGED <<queueVars, clientVars, committed, stopper, bounds>>
    BY <1>2 DEF Complete, clientVars
  <2>2. \A i \in DOMAIN batch : ~(i > answered)
    BY <1>2, WriterFacts DEF CountersOK
  <2>3. WriterTypeOK' /\ CountersOK' /\ Phases'
    <3>1. <<>> \in Seq(Command) /\ Len(<<>>) = 0
      OBVIOUS
    <3> QED
      BY <2>1, <3>1, WriterFacts DEF WriterTypeOK, CountersOK, Phases, clientVars
  <2>4. QueueOrder' /\ CommitOrder'
    BY <2>1, WriterFacts DEF QueueOrder, CommitOrder, CommitsFollowAcceptance
  <2>5. BatchOrder' /\ ResultIsTrue' /\ BatchWaits'
    BY <2>1 DEF BatchOrder, ResultIsTrue, BatchWaits, Working
  <2>6. CommandsWait' /\ PromiseIsTrue' /\ CallsApart'
    BY <2>1, WriterFacts DEF CommandsWait, Waiting, PromiseIsTrue, CommittedIds, CallsApart,
       clientVars
  <2>7. NoneForgotten'
    BY <2>1, <2>2, WriterFacts DEF NoneForgotten, Working, clientVars
  <2> QED BY <2>3, <2>4, <2>5, <2>6, <2>7 DEF WriterInv
<1> QED BY <1>1, <1>2

\* Fail() on the batch gives an error to its callers and to nobody else.
LEMMA FailFacts ==
    ASSUME WriterInv, wpc \in {"failBatch", "failPending"}, answered = 0,
           promise' = [c \in Client |->
               IF \E i \in 1 .. Len(batch) : batch[i].client = c THEN "error"
               ELSE promise[c]]
    PROVE  /\ promise' \in [Client -> Answer]
           /\ \A c \in Client : promise'[c] \in {promise[c], "error"}
           /\ \A c \in Client : cpc[c] = "idle" => promise'[c] = "none"
           /\ \A i \in DOMAIN commands : promise'[commands[i].client] = "none"
           /\ \A c \in Client : cpc[c] # "idle" /\ promise'[c] = "none" =>
                  \E i \in DOMAIN commands : commands[i] = call[c]
<1>1. promise \in [Client -> Answer]
  BY WriterFacts DEF WriterTypeOK
<1>2. \A i \in DOMAIN batch : Waiting(batch[i]) /\ batch[i].client \in Client
  BY WriterFacts DEF BatchWaits, Working
<1>3. promise' \in [Client -> Answer] /\ \A c \in Client : promise'[c] \in {promise[c], "error"}
  BY <1>1 DEF Answer
<1>4. ASSUME NEW c \in Client, cpc[c] = "idle" PROVE promise'[c] = "none"
  <2>1. ~\E i \in 1 .. Len(batch) : batch[i].client = c
    BY <1>2, <1>4, WriterFacts DEF Waiting
  <2> QED BY <1>4, <2>1, WriterFacts DEF PromiseIsTrue
<1>5. ASSUME NEW i \in DOMAIN commands PROVE promise'[commands[i].client] = "none"
  <2>1. Waiting(commands[i]) /\ commands[i] \in Command /\ commands[i].client \in Client
    BY WriterFacts DEF CommandsWait
  <2>2. ASSUME NEW j \in 1 .. Len(batch) PROVE batch[j].client # commands[i].client
    <3>1. batch[j].id < commands[i].id /\ batch[j] \in Command /\ Waiting(batch[j])
      BY <1>2, WriterFacts DEF BatchOrder
    <3>2. batch[j] # commands[i]
      BY <2>1, <3>1, CommandFields
    <3> QED BY <2>1, <3>1, <3>2 DEF Waiting
  <2> QED BY <2>1, <2>2 DEF Waiting
<1>6. ASSUME NEW c \in Client, cpc[c] # "idle", promise'[c] = "none"
      PROVE  \E i \in DOMAIN commands : commands[i] = call[c]
  <2>1. promise[c] = "none" /\ ~\E i \in 1 .. Len(batch) : batch[i].client = c
    BY <1>6
  <2>2. ASSUME NEW i \in DOMAIN batch PROVE batch[i] # call[c]
    BY <1>2, <1>6, <2>1, WriterFacts DEF Waiting, CallsApart
  <2> QED BY <1>6, <2>1, <2>2, WriterFacts DEF NoneForgotten
<1> QED BY <1>3, <1>4, <1>5, <1>6

\* An exception is answered with errors; a promise that had its value ends the process.
LEMMA FailBatchKeeps == ASSUME WriterInv, FailBatch PROVE WriterInv'
<1> USE DEF queueVars, batchVars, bounds
<1>1. /\ wpc = "failBatch" /\ throws \in Nat /\ throws > 0
      /\ UNCHANGED <<queueVars, cpc, call, last, batchVars, committed, stopper, bounds>>
  BY WriterFacts DEF FailBatch, Phases, CountersOK
<1>2. QueueOrder' /\ CommitOrder' /\ CountersOK' /\ CallsApart'
  BY <1>1, WriterFacts DEF QueueOrder, CommitOrder, CommitsFollowAcceptance, CountersOK,
     CallsApart
<1>3. CASE answered > 0
  <2>1. wpc' = "terminated" /\ promise' = promise
    BY <1>3 DEF FailBatch
  <2>2. WriterTypeOK' /\ Phases'
    BY <1>1, <2>1, WriterFacts DEF WriterTypeOK, Phases
  <2>3. BatchOrder' /\ ResultIsTrue' /\ CommandsWait' /\ BatchWaits'
    BY <1>1, <2>1, WriterFacts DEF BatchOrder, ResultIsTrue, CommandsWait, Waiting,
       BatchWaits, Working
  <2>4. NoneForgotten' /\ PromiseIsTrue'
    BY <1>1, <2>1, WriterFacts DEF NoneForgotten, Working, PromiseIsTrue, CommittedIds
  <2> QED BY <1>2, <2>2, <2>3, <2>4 DEF WriterInv
<1>4. CASE ~(answered > 0)
  <2>1. /\ wpc' = "setFatal" /\ answered = 0
        /\ promise' = [c \in Client |->
               IF \E i \in 1 .. Len(batch) : batch[i].client = c THEN "error"
               ELSE promise[c]]
    BY <1>4, WriterFacts DEF FailBatch, CountersOK
  <2>2. WriterTypeOK' /\ Phases'
    BY <1>1, <2>1, FailFacts, WriterFacts DEF WriterTypeOK, Phases
  <2>3. BatchOrder' /\ ResultIsTrue' /\ BatchWaits'
    BY <1>1, <2>1, WriterFacts DEF BatchOrder, ResultIsTrue, BatchWaits, Working
  <2>4. CommandsWait' /\ NoneForgotten'
    BY <1>1, <2>1, FailFacts, WriterFacts DEF CommandsWait, Waiting, NoneForgotten
  <2>5. PromiseIsTrue'
    BY <1>1, <2>1, FailFacts, WriterFacts DEF PromiseIsTrue, CommittedIds
  <2> QED BY <1>2, <2>2, <2>3, <2>4, <2>5 DEF WriterInv
<1> QED BY <1>3, <1>4

\* The queue is closed and what it holds is taken.
LEMMA SetFatalKeeps == ASSUME WriterInv, SetFatal PROVE WriterInv'
<1> USE DEF SetFatal, clientVars, bounds
<1>1. throws > 0 /\ answered = 0 /\ stopper # "joined"
  BY WriterFacts DEF Phases
<1>2. <<>> \in Seq(Command) /\ DOMAIN <<>> = {}
  OBVIOUS
<1>3. WriterTypeOK' /\ CountersOK' /\ Phases'
  BY <1>1, <1>2, WriterFacts DEF WriterTypeOK, CountersOK, Phases
<1>4. QueueOrder' /\ CommandsWait'
  BY <1>2 DEF QueueOrder, CommandsWait
<1>5. CommitOrder' /\ ResultIsTrue' /\ PromiseIsTrue' /\ CallsApart'
  BY WriterFacts DEF CommitOrder, CommitsFollowAcceptance, ResultIsTrue, PromiseIsTrue,
     CommittedIds, CallsApart
<1>6. BatchOrder'
  <2>1. /\ \A i, j \in DOMAIN batch' : i < j => batch'[i].id < batch'[j].id
        /\ \A i \in DOMAIN batch' : batch'[i].id <= accepted
    BY WriterFacts DEF QueueOrder
  <2> QED BY <1>2, <2>1 DEF BatchOrder
<1>7. BatchWaits'
  <2>1. \A i \in DOMAIN batch' : Waiting(batch'[i])
    BY WriterFacts DEF CommandsWait
  <2> QED BY <2>1 DEF BatchWaits, Waiting
<1>8. NoneForgotten'
  <2>1. ASSUME NEW c \in Client, cpc[c] # "idle", promise[c] = "none"
        PROVE  \E i \in DOMAIN batch' : i > 0 /\ batch'[i] = call[c]
    <3>1. PICK i \in DOMAIN commands : commands[i] = call[c]
      BY <2>1, WriterFacts DEF NoneForgotten, Working
    <3>2. i > 0
      BY WriterFacts
    <3> QED BY <3>1, <3>2
  <2> QED BY <1>1, <2>1 DEF NoneForgotten, Working
<1> QED BY <1>3, <1>4, <1>5, <1>6, <1>7, <1>8 DEF WriterInv

\* Whoever was in the queue gets an error and the thread function returns.
LEMMA FailPendingKeeps == ASSUME WriterInv, FailPending PROVE WriterInv'
<1> USE DEF queueVars, bounds
<1>1. /\ wpc = "failPending" /\ throws > 0 /\ answered = 0 /\ stopping /\ commands = <<>>
      /\ wpc' = "returned" /\ batch' = <<>> /\ applied' = 0
      /\ promise' = [c \in Client |->
             IF \E i \in 1 .. Len(batch) : batch[i].client = c THEN "error" ELSE promise[c]]
      /\ UNCHANGED <<queueVars, cpc, call, last, answered, committed, stopper, bounds>>
  BY WriterFacts DEF FailPending, Phases
<1>2. <<>> \in Seq(Command) /\ DOMAIN <<>> = {} /\ Len(<<>>) = 0
  OBVIOUS
<1>3. WriterTypeOK' /\ CountersOK' /\ Phases'
  BY <1>1, <1>2, FailFacts, WriterFacts DEF WriterTypeOK, CountersOK, Phases
<1>4. QueueOrder' /\ CommitOrder' /\ CallsApart'
  BY <1>1, WriterFacts DEF QueueOrder, CommitOrder, CommitsFollowAcceptance, CallsApart
<1>5. BatchOrder' /\ ResultIsTrue' /\ CommandsWait' /\ BatchWaits'
  BY <1>1, <1>2 DEF BatchOrder, ResultIsTrue, CommandsWait, BatchWaits
<1>6. NoneForgotten'
  BY <1>1, FailFacts DEF NoneForgotten
<1>7. PromiseIsTrue'
  BY <1>1, FailFacts, WriterFacts DEF PromiseIsTrue, CommittedIds
<1> QED BY <1>3, <1>4, <1>5, <1>6, <1>7 DEF WriterInv

\* A caller is refused, or its command gets the next id and goes to the end of the queue.
LEMMA EnqueueKeeps ==
    ASSUME WriterInv, NEW c \in Client, NEW s \in Sends[c], Enqueue(c, s[1], s[2])
    PROVE  WriterInv'
<1> USE DEF batchVars, bounds
<1>1. cpc[c] = "idle" /\ UNCHANGED <<stopping, fatal, wpc, batchVars, committed, stopper, bounds>>
  BY DEF Enqueue
<1>2. CASE fatal \/ stopping
  <2>1. /\ last' = [last EXCEPT ![c] = "error"]
        /\ UNCHANGED <<commands, accepted, cpc, call, promise>>
    BY <1>2 DEF Enqueue
  <2>2. WriterTypeOK' /\ CountersOK' /\ Phases'
    BY <1>1, <2>1, WriterFacts DEF WriterTypeOK, Answer, CountersOK, Phases
  <2>3. QueueOrder' /\ BatchOrder' /\ CommitOrder' /\ ResultIsTrue'
    BY <1>1, <2>1, WriterFacts DEF QueueOrder, BatchOrder, CommitOrder,
       CommitsFollowAcceptance, ResultIsTrue, CommittedIds
  <2>4. CommandsWait' /\ BatchWaits' /\ NoneForgotten' /\ PromiseIsTrue' /\ CallsApart'
    BY <1>1, <2>1, WriterFacts DEF CommandsWait, BatchWaits, Waiting, NoneForgotten,
       PromiseIsTrue, CommittedIds, CallsApart
  <2> QED BY <2>2, <2>3, <2>4 DEF WriterInv
<1>3. CASE ~(fatal \/ stopping)
  <2> DEFINE new == [id |-> accepted + 1, client |-> c, kind |-> s[1], task |-> s[2]]
  <2>1. /\ accepted < MaxCalls
        /\ commands' = Append(commands, new) /\ call' = [call EXCEPT ![c] = new]
        /\ accepted' = accepted + 1 /\ cpc' = [cpc EXCEPT ![c] = "notify"]
        /\ UNCHANGED <<promise, last>>
    BY <1>3 DEF Enqueue
  <2>2. new \in Command /\ new.id = accepted + 1 /\ new.client = c
    <3>1. s[1] \in Kind /\ s[2] \in Task
      <4>1. Sends[c] \subseteq Kind \X Task
        BY WriterAssumption
      <4> QED BY <4>1
    <3>2. accepted + 1 \in 1 .. MaxCalls
      BY <2>1, WriterFacts
    <3> QED BY <3>1, <3>2 DEF Command
  <2> HIDE DEF new
  <2>3. /\ commands' \in Seq(Command) /\ DOMAIN commands' = 1 .. (Len(commands) + 1)
        /\ \A i \in DOMAIN commands : commands'[i] = commands[i]
        /\ commands'[Len(commands) + 1] = new
    BY <2>1, <2>2, AppendFacts, WriterFacts
  <2>4. ASSUME NEW i \in DOMAIN commands'
        PROVE  \/ i \in DOMAIN commands /\ commands'[i] = commands[i] /\ i <= Len(commands)
               \/ i = Len(commands) + 1 /\ commands'[i] = new
    BY <2>3, WriterFacts
  <2>5. /\ cpc'[c] = "notify" /\ call'[c] = new
        /\ \A d \in Client : d # c => cpc'[d] = cpc[d] /\ call'[d] = call[d]
        /\ promise[c] = "none"
    BY <1>1, <2>1, WriterFacts DEF WriterTypeOK, PromiseIsTrue
  <2> DEFINE Waits(cmd) == /\ cpc'[cmd.client] # "idle" /\ call'[cmd.client] = cmd
                           /\ promise'[cmd.client] = "none"
  <2>6. ASSUME NEW cmd \in Command, Waiting(cmd) PROVE Waits(cmd)
    <3>1. cmd.client \in Client /\ cmd.client # c
      BY <1>1, <2>6, CommandFields DEF Waiting
    <3> QED BY <2>1, <2>5, <2>6, <3>1 DEF Waiting
  <2>7. Waits(new)
    BY <2>1, <2>2, <2>5
  <2>8. WriterTypeOK' /\ CountersOK'
    BY <1>1, <2>1, <2>2, <2>3, WriterFacts DEF WriterTypeOK, CountersOK
  <2>9. Phases'
    BY <1>1, <1>3, <2>1, WriterFacts DEF Phases
  <2>10. QueueOrder'
    <3>1. ASSUME NEW i \in DOMAIN commands', NEW j \in DOMAIN commands', i < j
          PROVE  commands'[i].id < commands'[j].id
      <4>1. i \in DOMAIN commands /\ commands'[i] = commands[i]
        BY <2>3, <2>4, <3>1, WriterFacts
      <4>2. CASE j \in DOMAIN commands
        BY <2>3, <3>1, <4>1, <4>2, WriterFacts DEF QueueOrder
      <4>3. CASE commands'[j] = new
        BY <2>2, <4>1, <4>3, WriterFacts DEF QueueOrder
      <4> QED BY <2>4, <4>2, <4>3
    <3>2. \A i \in DOMAIN commands' : commands'[i].id <= accepted'
      BY <2>1, <2>2, <2>4, WriterFacts DEF QueueOrder
    <3>3. \A k \in DOMAIN committed, i \in DOMAIN commands' : committed[k] < commands'[i].id
      <4>1. \A k \in DOMAIN committed : committed[k] < new.id
        BY <2>2, WriterFacts DEF CommitOrder
      <4> QED BY <2>4, <4>1, WriterFacts DEF QueueOrder
    <3> QED BY <1>1, <3>1, <3>2, <3>3 DEF QueueOrder
  <2>11. BatchOrder'
    <3>1. \A i \in DOMAIN batch, j \in DOMAIN commands' : batch[i].id < commands'[j].id
      BY <2>2, <2>4, WriterFacts DEF BatchOrder
    <3>2. \A i \in DOMAIN batch : batch[i].id <= accepted'
      BY <2>1, WriterFacts DEF BatchOrder
    <3> QED BY <1>1, <3>1, <3>2, WriterFacts DEF BatchOrder
  <2>12. CommitOrder' /\ ResultIsTrue'
    BY <1>1, <2>1, WriterFacts DEF CommitOrder, CommitsFollowAcceptance, ResultIsTrue,
       CommittedIds
  <2>13. CommandsWait'
    <3>1. \A i \in DOMAIN commands : Waits(commands[i])
      BY <2>6, WriterFacts DEF CommandsWait
    <3>2. \A i \in DOMAIN commands' : Waits(commands'[i])
      BY <2>4, <2>7, <3>1
    <3> QED BY <3>2 DEF CommandsWait, Waiting
  <2>14. BatchWaits'
    <3>1. ASSUME NEW i \in DOMAIN batch, i > answered, wpc \in Working
          PROVE  Waits(batch[i])
      BY <2>6, <3>1, WriterFacts DEF BatchWaits
    <3> QED BY <1>1, <3>1 DEF BatchWaits, Waiting
  <2>15. NoneForgotten'
    <3>1. ASSUME NEW d \in Client, cpc'[d] # "idle", promise[d] = "none"
          PROVE  \/ \E i \in DOMAIN commands' : commands'[i] = call'[d]
                 \/ /\ wpc \in Working \cup {"terminated"}
                    /\ \E i \in DOMAIN batch : i > answered /\ batch[i] = call'[d]
      <4>1. CASE d = c
        <5>1. Len(commands) + 1 \in DOMAIN commands'
          BY <2>3, WriterFacts
        <5> QED BY <2>3, <2>5, <4>1, <5>1
      <4>2. CASE d # c
        <5>1. \A i \in DOMAIN commands : i \in DOMAIN commands' /\ commands'[i] = commands[i]
          BY <2>3, WriterFacts
        <5> QED BY <2>5, <3>1, <4>2, <5>1, WriterFacts DEF NoneForgotten
      <4> QED BY <4>1, <4>2
    <3> QED BY <1>1, <2>1, <3>1 DEF NoneForgotten
  <2>16. PromiseIsTrue'
    <3>1. ASSUME NEW d \in Client PROVE
            /\ cpc'[d] = "idle" => promise[d] = "none"
            /\ cpc'[d] # "idle" => call'[d] \in Command /\ call'[d].id <= accepted'
            /\ promise[d] = "ok" => call'[d].id \in CommittedIds
            /\ promise[d] = "error" => call'[d].id \notin CommittedIds \/ throws > 0
      <4>1. CASE d = c
        BY <2>1, <2>2, <2>5, <4>1, WriterFacts
      <4>2. CASE d # c
        BY <2>1, <2>5, <4>2, CommandFields, WriterFacts DEF PromiseIsTrue
      <4> QED BY <4>1, <4>2
    <3> QED BY <1>1, <2>1, <3>1 DEF PromiseIsTrue, CommittedIds
  <2>17. CallsApart'
    <3>1. \A d \in Client : d # c /\ cpc[d] # "idle" => call[d].id < new.id
      BY <2>2, CommandFields, WriterFacts DEF PromiseIsTrue
    <3>2. ASSUME NEW d \in Client, d # c, cpc'[d] # "idle" PROVE call'[d].id # call'[c].id
      <4>1. call[d].id < new.id /\ call[d].id \in Nat /\ new.id \in Nat
        BY <2>2, <2>5, <3>1, <3>2, CommandFields, WriterFacts DEF PromiseIsTrue
      <4>2. call[d].id # new.id
        BY <4>1
      <4> QED BY <2>5, <3>2, <4>2
    <3> QED BY <2>5, <3>2, WriterFacts DEF CallsApart
  <2> QED
    BY <2>8, <2>9, <2>10, <2>11, <2>12, <2>13, <2>14, <2>15, <2>16, <2>17 DEF WriterInv
<1> QED BY <1>2, <1>3

\* Every step preserves the invariant.
LEMMA WriterInvNext == WriterInv /\ [WriterNext]_writerVars => WriterInv'
<1> SUFFICES ASSUME WriterInv, [WriterNext]_writerVars PROVE WriterInv'
  OBVIOUS
<1> USE DEF queueVars, clientVars, batchVars, bounds
<1>1. ASSUME NEW c \in Client, EnqueueNotify(c) PROVE WriterInv'
  <2>1. WriterTypeOK' /\ CountersOK' /\ Phases'
    BY <1>1, WriterFacts DEF EnqueueNotify, Notify, WriterTypeOK, Answer, CountersOK,
       Phases
  <2>2. QueueOrder' /\ CommitOrder'
    BY <1>1, WriterFacts DEF EnqueueNotify, Notify, QueueOrder, CommitOrder,
       CommitsFollowAcceptance
  <2>3. BatchOrder' /\ ResultIsTrue'
    BY <1>1, WriterFacts DEF EnqueueNotify, Notify, BatchOrder, ResultIsTrue,
       CommittedIds, Phases
  <2>4. CommandsWait' /\ BatchWaits'
    BY <1>1, WriterFacts DEF EnqueueNotify, Notify, CommandsWait, BatchWaits, Waiting,
       Working, WriterTypeOK
  <2>5. NoneForgotten'
    BY <1>1, WriterFacts DEF EnqueueNotify, Notify, NoneForgotten, Working, Phases,
       WriterTypeOK
  <2>6. PromiseIsTrue' /\ CallsApart'
    BY <1>1, WriterFacts DEF EnqueueNotify, Notify, PromiseIsTrue, CommittedIds,
       CallsApart, WriterTypeOK, CountersOK
  <2> QED BY <2>1, <2>2, <2>3, <2>4, <2>5, <2>6 DEF WriterInv
<1>2. ASSUME NEW c \in Client, GetResult(c) PROVE WriterInv'
  <2>1. WriterTypeOK' /\ CountersOK' /\ Phases'
    BY <1>2, WriterFacts DEF GetResult, WriterTypeOK, Answer, CountersOK, Phases
  <2>2. QueueOrder' /\ CommitOrder'
    BY <1>2, WriterFacts DEF GetResult, QueueOrder, CommitOrder, CommitsFollowAcceptance
  <2>3. BatchOrder' /\ ResultIsTrue'
    BY <1>2, WriterFacts DEF GetResult, BatchOrder, ResultIsTrue, CommittedIds, Phases
  <2>4. CommandsWait' /\ BatchWaits'
    BY <1>2, WriterFacts DEF GetResult, CommandsWait, BatchWaits, Waiting, Working,
       WriterTypeOK
  <2>5. NoneForgotten'
    BY <1>2, WriterFacts DEF GetResult, NoneForgotten, Working, Phases, WriterTypeOK
  <2>6. PromiseIsTrue' /\ CallsApart'
    BY <1>2, WriterFacts DEF GetResult, PromiseIsTrue, CommittedIds, CallsApart,
       WriterTypeOK, CountersOK
  <2> QED BY <2>1, <2>2, <2>3, <2>4, <2>5, <2>6 DEF WriterInv
<1>3. CASE StopFlag
  <2>1. WriterTypeOK' /\ CountersOK' /\ Phases'
    BY <1>3, WriterFacts DEF StopFlag, WriterTypeOK, Answer, CountersOK, Phases
  <2>2. QueueOrder' /\ CommitOrder'
    BY <1>3, WriterFacts DEF StopFlag, QueueOrder, CommitOrder, CommitsFollowAcceptance
  <2>3. BatchOrder' /\ ResultIsTrue'
    BY <1>3, WriterFacts DEF StopFlag, BatchOrder, ResultIsTrue, CommittedIds, Phases
  <2>4. CommandsWait' /\ BatchWaits'
    BY <1>3, WriterFacts DEF StopFlag, CommandsWait, BatchWaits, Waiting, Working,
       WriterTypeOK
  <2>5. NoneForgotten'
    BY <1>3, WriterFacts DEF StopFlag, NoneForgotten, Working, Phases, WriterTypeOK
  <2>6. PromiseIsTrue' /\ CallsApart'
    BY <1>3, WriterFacts DEF StopFlag, PromiseIsTrue, CommittedIds, CallsApart,
       WriterTypeOK, CountersOK
  <2> QED BY <2>1, <2>2, <2>3, <2>4, <2>5, <2>6 DEF WriterInv
<1>4. CASE StopNotify
  <2>1. WriterTypeOK' /\ CountersOK' /\ Phases'
    BY <1>4, WriterFacts DEF StopNotify, Notify, WriterTypeOK, Answer, CountersOK,
       Phases
  <2>2. QueueOrder' /\ CommitOrder'
    BY <1>4, WriterFacts DEF StopNotify, Notify, QueueOrder, CommitOrder,
       CommitsFollowAcceptance
  <2>3. BatchOrder' /\ ResultIsTrue'
    BY <1>4, WriterFacts DEF StopNotify, Notify, BatchOrder, ResultIsTrue, CommittedIds,
       Phases
  <2>4. CommandsWait' /\ BatchWaits'
    BY <1>4, WriterFacts DEF StopNotify, Notify, CommandsWait, BatchWaits, Waiting,
       Working, WriterTypeOK
  <2>5. NoneForgotten'
    BY <1>4, WriterFacts DEF StopNotify, Notify, NoneForgotten, Working, Phases,
       WriterTypeOK
  <2>6. PromiseIsTrue' /\ CallsApart'
    BY <1>4, WriterFacts DEF StopNotify, Notify, PromiseIsTrue, CommittedIds,
       CallsApart, WriterTypeOK, CountersOK
  <2> QED BY <2>1, <2>2, <2>3, <2>4, <2>5, <2>6 DEF WriterInv
<1>5. CASE StopJoin
  <2>1. WriterTypeOK' /\ CountersOK' /\ Phases'
    BY <1>5, WriterFacts DEF StopJoin, WriterTypeOK, Answer, CountersOK, Phases
  <2>2. QueueOrder' /\ CommitOrder'
    BY <1>5, WriterFacts DEF StopJoin, QueueOrder, CommitOrder, CommitsFollowAcceptance
  <2>3. BatchOrder' /\ ResultIsTrue'
    BY <1>5, WriterFacts DEF StopJoin, BatchOrder, ResultIsTrue, CommittedIds, Phases
  <2>4. CommandsWait' /\ BatchWaits'
    BY <1>5, WriterFacts DEF StopJoin, CommandsWait, BatchWaits, Waiting, Working,
       WriterTypeOK
  <2>5. NoneForgotten'
    BY <1>5, WriterFacts DEF StopJoin, NoneForgotten, Working, Phases, WriterTypeOK
  <2>6. PromiseIsTrue' /\ CallsApart'
    BY <1>5, WriterFacts DEF StopJoin, PromiseIsTrue, CommittedIds, CallsApart,
       WriterTypeOK, CountersOK
  <2> QED BY <2>1, <2>2, <2>3, <2>4, <2>5, <2>6 DEF WriterInv
<1>6. CASE Wait
  <2>1. WriterTypeOK' /\ CountersOK' /\ Phases'
    BY <1>6, WriterFacts DEF Wait, WriterTypeOK, Answer, CountersOK, Phases
  <2>2. QueueOrder' /\ CommitOrder'
    BY <1>6, WriterFacts DEF Wait, QueueOrder, CommitOrder, CommitsFollowAcceptance
  <2>3. BatchOrder' /\ ResultIsTrue'
    BY <1>6, WriterFacts DEF Wait, BatchOrder, ResultIsTrue, CommittedIds, Phases
  <2>4. CommandsWait' /\ BatchWaits'
    BY <1>6, WriterFacts DEF Wait, CommandsWait, BatchWaits, Waiting, Working,
       WriterTypeOK
  <2>5. NoneForgotten'
    BY <1>6, WriterFacts DEF Wait, NoneForgotten, Working, Phases, WriterTypeOK
  <2>6. PromiseIsTrue' /\ CallsApart'
    BY <1>6, WriterFacts DEF Wait, PromiseIsTrue, CommittedIds, CallsApart,
       WriterTypeOK, CountersOK
  <2> QED BY <2>1, <2>2, <2>3, <2>4, <2>5, <2>6 DEF WriterInv
<1>7. CASE WriterReturn
  <2>1. WriterTypeOK' /\ CountersOK' /\ Phases'
    BY <1>7, WriterFacts DEF WriterReturn, WriterTypeOK, Answer, CountersOK, Phases
  <2>2. QueueOrder' /\ CommitOrder'
    BY <1>7, WriterFacts DEF WriterReturn, QueueOrder, CommitOrder,
       CommitsFollowAcceptance
  <2>3. BatchOrder' /\ ResultIsTrue'
    BY <1>7, WriterFacts DEF WriterReturn, BatchOrder, ResultIsTrue, CommittedIds,
       Phases
  <2>4. CommandsWait' /\ BatchWaits'
    BY <1>7, WriterFacts DEF WriterReturn, CommandsWait, BatchWaits, Waiting, Working,
       WriterTypeOK
  <2>5. NoneForgotten'
    BY <1>7, WriterFacts DEF WriterReturn, NoneForgotten, Working, Phases, WriterTypeOK
  <2>6. PromiseIsTrue' /\ CallsApart'
    BY <1>7, WriterFacts DEF WriterReturn, PromiseIsTrue, CommittedIds, CallsApart,
       WriterTypeOK, CountersOK
  <2> QED BY <2>1, <2>2, <2>3, <2>4, <2>5, <2>6 DEF WriterInv
<1>8. CASE Throw
  <2>1. WriterTypeOK' /\ CountersOK' /\ Phases'
    BY <1>8, WriterFacts DEF Throw, WriterTypeOK, Answer, CountersOK, Phases
  <2>2. QueueOrder' /\ CommitOrder'
    BY <1>8, WriterFacts DEF Throw, QueueOrder, CommitOrder, CommitsFollowAcceptance
  <2>3. BatchOrder' /\ ResultIsTrue'
    BY <1>8, WriterFacts DEF Throw, BatchOrder, ResultIsTrue, CommittedIds, Phases
  <2>4. CommandsWait' /\ BatchWaits'
    BY <1>8, WriterFacts DEF Throw, CommandsWait, BatchWaits, Waiting, Working,
       WriterTypeOK
  <2>5. NoneForgotten'
    BY <1>8, WriterFacts DEF Throw, NoneForgotten, Working, Phases, WriterTypeOK
  <2>6. PromiseIsTrue' /\ CallsApart'
    BY <1>8, WriterFacts DEF Throw, PromiseIsTrue, CommittedIds, CallsApart,
       WriterTypeOK, CountersOK
  <2> QED BY <2>1, <2>2, <2>3, <2>4, <2>5, <2>6 DEF WriterInv
<1>9. CASE BeginWriteBatch
  <2>1. CASE wpc' = "apply" /\ UNCHANGED <<result, bounds>>
    <3>1. WriterTypeOK' /\ CountersOK' /\ Phases'
      BY <1>9, <2>1, WriterFacts DEF BeginWriteBatch, WriterTypeOK, CountersOK, Phases
    <3>2. QueueOrder' /\ BatchOrder' /\ CommitOrder' /\ ResultIsTrue'
      BY <1>9, <2>1, WriterFacts DEF BeginWriteBatch, QueueOrder, BatchOrder, CommitOrder,
         CommitsFollowAcceptance, ResultIsTrue
    <3>3. CommandsWait' /\ BatchWaits' /\ NoneForgotten'
      BY <1>9, <2>1, WriterFacts DEF BeginWriteBatch, CommandsWait, BatchWaits, Waiting,
         Working, NoneForgotten
    <3>4. PromiseIsTrue' /\ CallsApart'
      BY <1>9, <2>1, WriterFacts DEF BeginWriteBatch, PromiseIsTrue, CommittedIds, CallsApart
    <3> QED BY <3>1, <3>2, <3>3, <3>4 DEF WriterInv
  <2>2. CASE Failing /\ Completing(AllError)
    BY <1>9, <2>2, RollingBackKeeps DEF BeginWriteBatch
  <2> QED BY <1>9, <2>1, <2>2 DEF BeginWriteBatch
<1>10. CASE ExecuteBatchedOperation
  <2>1. CASE applied' = applied + 1 /\ UNCHANGED <<wpc, result, bounds>>
    <3>1. WriterTypeOK' /\ CountersOK' /\ Phases'
      BY <1>10, <2>1, WriterFacts DEF ExecuteBatchedOperation, WriterTypeOK, CountersOK, Phases
    <3>2. QueueOrder' /\ BatchOrder' /\ CommitOrder' /\ ResultIsTrue'
      BY <1>10, <2>1, WriterFacts DEF ExecuteBatchedOperation, QueueOrder, BatchOrder,
         CommitOrder, CommitsFollowAcceptance, ResultIsTrue
    <3>3. CommandsWait' /\ BatchWaits' /\ NoneForgotten'
      BY <1>10, <2>1, WriterFacts DEF ExecuteBatchedOperation, CommandsWait, BatchWaits,
         Waiting, NoneForgotten
    <3>4. PromiseIsTrue' /\ CallsApart'
      BY <1>10, <2>1, WriterFacts DEF ExecuteBatchedOperation, PromiseIsTrue, CommittedIds,
         CallsApart
    <3> QED BY <3>1, <3>2, <3>3, <3>4 DEF WriterInv
  <2>2. CASE Failing /\ Completing(AllError) /\ UNCHANGED applied
    BY <1>10, <2>2, RollingBackKeeps DEF ExecuteBatchedOperation
  <2> QED BY <1>10, <2>1, <2>2 DEF ExecuteBatchedOperation
<1>11. CASE Execute
  BY <1>11, CommittingKeeps, RollingBackKeeps DEF Execute
<1>12. CASE CommitWriteBatch
  BY <1>12, CommittingKeeps, RollingBackKeeps DEF CommitWriteBatch
<1>13. CASE UNCHANGED writerVars
  <2>1. WriterTypeOK' /\ CountersOK' /\ Phases'
    BY <1>13, WriterFacts DEF writerVars, WriterTypeOK, CountersOK, Phases
  <2>2. QueueOrder' /\ BatchOrder' /\ CommitOrder' /\ ResultIsTrue'
    BY <1>13, WriterFacts DEF writerVars, QueueOrder, BatchOrder, CommitOrder,
       CommitsFollowAcceptance, ResultIsTrue, CommittedIds
  <2>3. CommandsWait' /\ BatchWaits' /\ NoneForgotten' /\ PromiseIsTrue' /\ CallsApart'
    BY <1>13, WriterFacts DEF writerVars, CommandsWait, BatchWaits, Waiting, NoneForgotten,
       PromiseIsTrue, CommittedIds, CallsApart
  <2> QED BY <2>1, <2>2, <2>3 DEF WriterInv
<1>14. CASE Take \/ Complete \/ FailBatch \/ SetFatal \/ FailPending
  BY <1>14, TakeKeeps, CompleteKeeps, FailBatchKeeps, SetFatalKeeps, FailPendingKeeps
<1>15. CASE \E c \in Client : \E s \in Sends[c] : Enqueue(c, s[1], s[2])
  BY <1>15, EnqueueKeeps
<1> QED
  BY <1>1, <1>2, <1>3, <1>4, <1>5, <1>6, <1>7, <1>8, <1>9, <1>10, <1>11, <1>12, <1>13,
     <1>14, <1>15
  DEF WriterNext, Writer, Caller

---------------------------------------------------------------------------
(* What follows from the invariant.                                        *)

\* The invariant holds in every reachable state.
THEOREM WriterInvariant == WriterSpec => []WriterInv
  BY WriterInvInit, WriterInvNext, PTL DEF WriterSpec

\* The queue, the batch, the promises and the counters keep their types, for any number
\* of calling threads.
THEOREM WriterTypeCorrect == WriterSpec => []WriterTypeOK
<1>1. WriterInv => WriterTypeOK
  BY DEF WriterInv
<1> QED BY <1>1, WriterInvariant, PTL

\* When the writer thread has returned, every caller has its answer.
LEMMA ReturnedLeavesNobody ==
    ASSUME WriterInv, wpc = "returned"
    PROVE  commands = <<>> /\ \A c \in Client : cpc[c] # "idle" => promise[c] # "none"
<1>1. commands = <<>> /\ DOMAIN commands = {}
  BY WriterFacts DEF Phases
<1> QED BY <1>1, WriterFacts DEF NoneForgotten, Working

\* Batches commit in the order in which Enqueue accepted their commands, and Stop leaves
\* no caller behind.
THEOREM QueueIsServedSafe == WriterSpec => []QueueIsServed
<1>1. WriterInv => CommitsFollowAcceptance
  BY WriterFacts DEF CommitOrder
<1>2. WriterInv => StopDrains
  <2> SUFFICES ASSUME WriterInv, stopper = "joined"
               PROVE  commands = <<>> /\ \A c \in Client : cpc[c] # "idle" => promise[c] # "none"
    BY DEF StopDrains
  <2>1. wpc = "returned"
    BY WriterFacts DEF Phases
  <2> QED BY <2>1, ReturnedLeavesNobody
<1>3. WriterInv => QueueIsServed
  BY <1>1, <1>2 DEF QueueIsServed
<1> QED BY <1>3, WriterInvariant, PTL

---------------------------------------------------------------------------
(* The writer implements RuntimeStore.                                     *)

\* The status of the store, as module RuntimeDbWriter maps it.
StoreStatus ==
    [c \in Client |->
        IF cpc[c] = "idle" THEN "idle"
        ELSE IF call[c].id \in CommittedIds THEN "applied" ELSE "pending"]

\* The initial state of the writer is the initial state of the store.
LEMMA StoreInitial == WriterInit => Store!StoreInit
  BY WriterAssumption DEF WriterInit, Store!StoreInit

\* A step that leaves calls, commits, results and exceptions alone is no step of the store.
LEMMA StoreStutters ==
    ASSUME \A c \in Client : cpc'[c] = "idle" <=> cpc[c] = "idle",
           UNCHANGED <<call, committed, last, throws>>
    PROVE  UNCHANGED Store!storeVars
<1>1. CommittedIds' = CommittedIds
  BY DEF CommittedIds
<1>2. StoreStatus' = StoreStatus
  BY <1>1 DEF StoreStatus
<1> QED BY <1>2 DEF Store!storeVars, StoreStatus

\* The COMMIT of a batch is one Commit of the calls that wait for it.
LEMMA CommittingIsCommit ==
    ASSUME WriterInv, wpc \in {"run", "apply"}, Completing(AllOk),
           committed' = committed \o Ids(batch),
           UNCHANGED <<queueVars, clientVars, batch, applied, answered, stopper, bounds>>
    PROVE  \E S \in SUBSET Client : Store!Commit(S)
<1> DEFINE S == {batch[i].client : i \in DOMAIN batch}
<1>1. CommittedIds' = CommittedIds \cup {batch[i].id : i \in DOMAIN batch}
  BY CommittingKeeps
<1>2. /\ UNCHANGED <<cpc, call, last, throws>> /\ batch # <<>>
      /\ \A i \in DOMAIN batch : Waiting(batch[i]) /\ batch[i].client \in Client
  BY WriterFacts DEF clientVars, bounds, Phases, BatchWaits, Working
<1>3. S \in SUBSET Client /\ S # {}
  <2>1. 1 \in DOMAIN batch
    BY <1>2, WriterFacts
  <2> QED BY <1>2, <2>1
<1>4. ASSUME NEW i \in DOMAIN batch PROVE batch[i].id \notin CommittedIds
  <2>1. \A k \in DOMAIN committed : committed[k] < batch[i].id
    BY WriterFacts DEF BatchOrder
  <2>2. \A k \in DOMAIN committed : committed[k] # batch[i].id
    BY <2>1, WriterFacts
  <2> QED BY <2>2 DEF CommittedIds
<1>5. \A c \in S : StoreStatus[c] = "pending"
  BY <1>2, <1>4 DEF StoreStatus, Waiting
<1>6. ASSUME NEW c \in Client
      PROVE  StoreStatus'[c] = IF c \in S THEN "applied" ELSE StoreStatus[c]
  <2>1. CASE c \in S
    BY <1>1, <1>2, <2>1 DEF StoreStatus, Waiting
  <2>2. CASE c \notin S
    <3>1. ASSUME cpc[c] # "idle", NEW i \in DOMAIN batch PROVE call[c].id # batch[i].id
      <4>1. batch[i].client # c
        BY <2>2
      <4>2. call[batch[i].client] = batch[i] /\ cpc[batch[i].client] # "idle"
        BY <1>2 DEF Waiting
      <4> QED BY <1>2, <3>1, <4>1, <4>2, WriterFacts DEF CallsApart
    <3>2. cpc[c] # "idle" => (call[c].id \in CommittedIds' <=> call[c].id \in CommittedIds)
      BY <1>1, <3>1
    <3> QED BY <1>2, <2>2, <3>2 DEF StoreStatus
  <2> QED BY <2>1, <2>2
<1>7. StoreStatus' = [c \in Client |-> IF c \in S THEN "applied" ELSE StoreStatus[c]]
  BY <1>6 DEF StoreStatus
<1>8. Store!Commit(S)
  BY <1>2, <1>3, <1>5, <1>7 DEF Store!Commit, StoreStatus
<1> HIDE DEF S
<1> QED BY <1>3, <1>8 DEF Store!Commit

\* Enqueue is a Call, or a Refuse when the writer has stopped.
LEMMA EnqueueIsCall ==
    ASSUME WriterInv, NEW c \in Client, NEW s \in Sends[c], Enqueue(c, s[1], s[2])
    PROVE  Store!Call(c) \/ Store!Refuse(c)
<1>1. cpc[c] = "idle" /\ UNCHANGED <<committed, throws>>
  BY DEF Enqueue, bounds
<1>2. StoreStatus[c] = "idle" /\ CommittedIds' = CommittedIds
  BY <1>1 DEF StoreStatus, CommittedIds
<1>3. CASE fatal \/ stopping
  <2>1. last' = [last EXCEPT ![c] = "error"] /\ UNCHANGED <<cpc, call>>
    BY <1>3 DEF Enqueue
  <2>2. StoreStatus' = StoreStatus
    BY <1>2, <2>1 DEF StoreStatus
  <2>3. Store!Refuse(c)
    BY <1>1, <1>2, <2>1, <2>2 DEF Store!Refuse, StoreStatus
  <2> QED BY <2>3
<1>4. CASE ~(fatal \/ stopping)
  <2> DEFINE new == [id |-> accepted + 1, client |-> c, kind |-> s[1], task |-> s[2]]
  <2>1. /\ call' = [call EXCEPT ![c] = new] /\ cpc' = [cpc EXCEPT ![c] = "notify"]
        /\ UNCHANGED last
    BY <1>4 DEF Enqueue
  <2>2. new.id = accepted + 1
    OBVIOUS
  <2> HIDE DEF new
  <2>3. new.id \notin CommittedIds
    BY <2>2, WriterFacts DEF CommittedIds, CommitOrder
  <2>4. /\ cpc'[c] = "notify" /\ call'[c] = new
        /\ \A d \in Client : d # c => cpc'[d] = cpc[d] /\ call'[d] = call[d]
    BY <2>1, WriterFacts DEF WriterTypeOK
  <2>5. StoreStatus' = [StoreStatus EXCEPT ![c] = "pending"]
    BY <1>2, <2>3, <2>4 DEF StoreStatus
  <2>6. Store!Call(c)
    BY <1>1, <1>2, <2>1, <2>5 DEF Store!Call, StoreStatus
  <2> QED BY <2>6
<1> QED BY <1>3, <1>4

\* A caller's future returns what the store returns.
LEMMA GetResultIsReturn ==
    ASSUME WriterInv, NEW c \in Client, GetResult(c)
    PROVE  Store!Return(c)
<1>1. /\ cpc[c] = "get" /\ promise[c] \in {"ok", "error"}
      /\ cpc' = [cpc EXCEPT ![c] = "idle"] /\ call' = [call EXCEPT ![c] = NoCall]
      /\ last' = [last EXCEPT ![c] = promise[c]] /\ UNCHANGED <<committed, throws>>
  BY WriterFacts DEF GetResult, bounds, WriterTypeOK, Answer
<1>2. /\ promise[c] = "ok" => call[c].id \in CommittedIds
      /\ promise[c] = "error" => call[c].id \notin CommittedIds \/ throws > 0
  BY WriterFacts DEF PromiseIsTrue
<1>3. /\ cpc'[c] = "idle"
      /\ \A d \in Client : d # c => cpc'[d] = cpc[d] /\ call'[d] = call[d]
  BY <1>1, WriterFacts DEF WriterTypeOK
<1>4. StoreStatus' = [StoreStatus EXCEPT ![c] = "idle"]
  <2>1. CommittedIds' = CommittedIds
    BY <1>1 DEF CommittedIds
  <2>2. \A d \in Client : StoreStatus'[d] = IF d = c THEN "idle" ELSE StoreStatus[d]
    BY <1>3, <2>1 DEF StoreStatus
  <2> QED BY <2>2 DEF StoreStatus
<1>5. StoreStatus[c] = IF call[c].id \in CommittedIds THEN "applied" ELSE "pending"
  BY <1>1 DEF StoreStatus
<1>6. CASE promise[c] = "ok"
  BY <1>1, <1>2, <1>4, <1>5, <1>6 DEF Store!Return, StoreStatus
<1>7. CASE promise[c] = "error"
  <2>1. \/ StoreStatus[c] = "pending"
        \/ StoreStatus[c] = "applied" /\ throws > 0
    BY <1>2, <1>5, <1>7
  <2>2. last' = [last EXCEPT ![c] = "error"]
    BY <1>1, <1>7
  <2> QED BY <1>1, <1>4, <2>1, <2>2 DEF Store!Return, StoreStatus
<1> QED BY <1>1, <1>6, <1>7

\* Every step of the writer and its callers is a step of the store, or none.
LEMMA StoreStep ==
    WriterInv /\ [WriterNext]_writerVars => [Store!StoreNext]_(Store!storeVars)
<1> SUFFICES ASSUME WriterInv, [WriterNext]_writerVars
             PROVE  Store!StoreNext \/ UNCHANGED Store!storeVars
  OBVIOUS
<1> USE DEF clientVars, bounds
<1>1. ASSUME NEW c \in Client, EnqueueNotify(c) PROVE UNCHANGED Store!storeVars
  <2>1. \A d \in Client : cpc'[d] = "idle" <=> cpc[d] = "idle"
    BY <1>1, WriterFacts DEF EnqueueNotify, WriterTypeOK
  <2> QED BY <1>1, <2>1, StoreStutters DEF EnqueueNotify
<1>2. ASSUME NEW c \in Client, GetResult(c) PROVE Store!StoreNext
  BY <1>2, GetResultIsReturn DEF Store!StoreNext
<1>3. ASSUME NEW c \in Client, NEW s \in Sends[c], Enqueue(c, s[1], s[2])
      PROVE  Store!StoreNext
  BY <1>3, EnqueueIsCall DEF Store!StoreNext
<1>4. CASE StopFlag \/ StopNotify \/ StopJoin \/ Take \/ Wait \/ WriterReturn
  BY <1>4, StoreStutters DEF StopFlag, StopNotify, StopJoin, Take, Wait, WriterReturn
<1>5. CASE BeginWriteBatch \/ ExecuteBatchedOperation
  BY <1>5, StoreStutters DEF BeginWriteBatch, ExecuteBatchedOperation, Failing
<1>6. CASE Complete \/ FailBatch \/ SetFatal \/ FailPending
  BY <1>6, StoreStutters DEF Complete, FailBatch, SetFatal, FailPending
<1>7. CASE Execute
  <2>1. CASE Failing /\ Completing(AllError) /\ UNCHANGED committed
    BY <1>7, <2>1, StoreStutters DEF Execute, Failing
  <2> QED BY <1>7, <2>1, CommittingIsCommit DEF Execute, Store!StoreNext
<1>8. CASE CommitWriteBatch
  <2>1. CASE Failing /\ Completing(AllError) /\ UNCHANGED committed
    BY <1>8, <2>1, StoreStutters DEF CommitWriteBatch, Failing
  <2> QED BY <1>8, <2>1, CommittingIsCommit DEF CommitWriteBatch, Store!StoreNext
<1>9. CASE Throw
  <2>1. UNCHANGED <<cpc, call, committed, last>> /\ (throws' > 0)
    BY <1>9, WriterFacts DEF Throw, CountersOK
  <2>2. StoreStatus' = StoreStatus
    BY <2>1 DEF StoreStatus, CommittedIds
  <2> QED BY <2>1, <2>2 DEF Store!StoreNext, Store!Break, StoreStatus
<1>10. CASE UNCHANGED writerVars
  BY <1>10, StoreStutters DEF writerVars
<1> QED
  BY <1>1, <1>2, <1>3, <1>4, <1>5, <1>6, <1>7, <1>8, <1>9, <1>10
  DEF WriterNext, Writer, Caller

\* RuntimeDbWriter implements MigrationRuntimeStore: with batching, rollbacks, Stop and
\* exceptions, a call returns OK exactly when its transaction has been committed.
THEOREM WriterImplementsStore == WriterSpec => ImplementsStore
  BY WriterInvariant, StoreInitial, StoreStep, PTL
  DEF WriterSpec, ImplementsStore, Store!StoreSpec
===========================================================================
