----------------------- MODULE MigrationPool_proofs -----------------------
(***************************************************************************)
(* TLAPS proofs about module MigrationPool, for every set of tasks, every  *)
(* non-empty set of workers and every capacity of the queue.               *)
(***************************************************************************)
EXTENDS MigrationPool, FiniteSetTheorems, TLAPS

\* The ranges PoolTypeOK leaves open.
FlagsOK ==
    /\ producerDone \in BOOLEAN /\ firstError \in BOOLEAN /\ producerError \in BOOLEAN
    /\ failedItem \in [Worker -> BOOLEAN]
    /\ unmarked \subseteq Task /\ late \in Nat

\* There is room for the task the main thread is about to push: it tested the length
\* before the claim and nobody else pushes.
RoomForClaim == ppc \in {"claim", "push"} => Len(queue) < Capacity

\* Where the threads are says what they hold.
ThreadsHold ==
    /\ claim # NoItem <=> ppc = "push"
    /\ \A w \in Worker : item[w] # NoItem <=> wpc[w] \in {"execute", "report"}
    /\ \A w \in Worker : failedItem[w] => wpc[w] = "report"
    /\ producerDone <=> ppc \in {"notifyDone", "join", "ok", "failed"}
    /\ \A w \in Worker : wpc[w] = "returned" => producerDone /\ queue = <<>>
    /\ Ended => \A w \in Worker : wpc[w] = "returned"

\* No task is in two places, and none that is in a place is still READY.
Apart ==
    /\ \A i, j \in DOMAIN queue : queue[i] = queue[j] => i = j
    /\ \A i \in DOMAIN queue : queue[i] # claim /\ row[queue[i]] # "Ready"
    /\ \A w \in Worker : item[w] # NoItem =>
          /\ item[w] # claim /\ row[item[w]] # "Ready"
          /\ \A i \in DOMAIN queue : queue[i] # item[w]
          /\ \A v \in Worker : item[v] = item[w] => v = w
    /\ claim # NoItem => row[claim] # "Ready"

InPlace(t) ==
    \/ claim = t
    \/ \E i \in DOMAIN queue : queue[i] = t
    \/ \E w \in Worker : item[w] = t

\* A claimed task that is neither finished nor given up is in a place.
Kept == \A t \in Task : row[t] = "Running" /\ t \notin unmarked => InPlace(t)

\* A worker that reports has executed its task.
Reported ==
    \A w \in Worker : wpc[w] = "report" => row[item[w]] # "Running" \/ item[w] \in unmarked

\* An execution that failed is remembered: by its worker until it reports, then in
\* first_error.
ErrorsKnown ==
    \A t \in Task : row[t] = "Retryable" \/ t \in unmarked =>
        firstError \/ \E w \in Worker : item[w] = t /\ failedItem[w]

\* The main thread stops claiming only after an error or when nothing is READY.
WhyFinished ==
    ppc \in {"finish", "notifyDone", "join", "ok", "failed"} =>
        producerError \/ firstError \/ \A t \in Task : row[t] # "Ready"

LateClaims ==
    /\ late <= 1
    /\ ~firstError => late = 0
    /\ ppc = "claim" => late = 0

\* "ok" is returned only without an error.
OkIsClean == ppc = "ok" => ~producerError /\ ~firstError

\* The inductive invariant.
PoolInv ==
    /\ PoolTypeOK /\ FlagsOK
    /\ RoomForClaim /\ ThreadsHold
    /\ Apart /\ Kept /\ Reported
    /\ ErrorsKnown /\ WhyFinished /\ LateClaims /\ OkIsClean

---------------------------------------------------------------------------
(* Proofs.                                                                 *)

\* What Append does to the queue, position by position.
LEMMA AppendFacts ==
    ASSUME NEW s \in Seq(Task), NEW t \in Task
    PROVE  /\ Append(s, t) \in Seq(Task)
           /\ Len(Append(s, t)) = Len(s) + 1
           /\ DOMAIN Append(s, t) = 1 .. (Len(s) + 1)
           /\ \A i \in 1 .. Len(s) : Append(s, t)[i] = s[i]
           /\ Append(s, t)[Len(s) + 1] = t
           /\ DOMAIN s = 1 .. Len(s) /\ Len(s) \in Nat
  OBVIOUS

\* What Head and Tail do to it.
LEMMA TailFacts ==
    ASSUME NEW s \in Seq(Task), s # <<>>
    PROVE  /\ Tail(s) \in Seq(Task) /\ Head(s) \in Task /\ Head(s) = s[1]
           /\ Len(s) \in Nat /\ Len(s) >= 1 /\ Len(Tail(s)) = Len(s) - 1
           /\ DOMAIN s = 1 .. Len(s) /\ DOMAIN Tail(s) = 1 .. (Len(s) - 1)
           /\ \A i \in 1 .. (Len(s) - 1) : Tail(s)[i] = s[i + 1]
  OBVIOUS

\* The initial state satisfies the invariant.
LEMMA PoolInvInit == PoolInit => PoolInv
<1> SUFFICES ASSUME PoolInit PROVE PoolInv
  OBVIOUS
<1> USE PoolAssumption DEF PoolInit, NoItem
<1>1. PoolTypeOK
  <2>1. queue \in Seq(Task) /\ Len(queue) = 0
    OBVIOUS
  <2> QED BY <2>1 DEF PoolTypeOK
<1>f. FlagsOK /\ RoomForClaim
  BY DEF FlagsOK, RoomForClaim
<1>2. ThreadsHold /\ Apart /\ Kept /\ Reported
  BY DEF ThreadsHold, Apart, Kept, Reported, InPlace, Ended
<1>3. ErrorsKnown /\ WhyFinished /\ LateClaims /\ OkIsClean
  BY DEF ErrorsKnown, WhyFinished, LateClaims, OkIsClean
<1> QED BY <1>1, <1>f, <1>2, <1>3 DEF PoolInv

\* Every step preserves it.
LEMMA PoolInvNext == PoolInv /\ [PoolNext]_poolVars => PoolInv'
<1> SUFFICES ASSUME PoolInv, [PoolNext]_poolVars PROVE PoolInv'
  OBVIOUS
<1> USE PoolAssumption DEF NoItem, shared, claims, items, results
<1>i. /\ PoolTypeOK /\ FlagsOK /\ RoomForClaim /\ ThreadsHold /\ Apart /\ Kept /\ Reported
      /\ ErrorsKnown /\ WhyFinished /\ LateClaims /\ OkIsClean
  BY DEF PoolInv
<1>1. CASE ProducerWait
  <2>1. PoolTypeOK'
    BY <1>i, <1>1 DEF ProducerWait, MayClaim, PoolTypeOK, FlagsOK
  <2>2. FlagsOK'
    BY <1>i, <1>1 DEF ProducerWait, MayClaim, PoolTypeOK, FlagsOK
  <2>3. RoomForClaim'
    BY <1>i, <1>1 DEF ProducerWait, MayClaim, PoolTypeOK, FlagsOK, RoomForClaim
  <2>4. ThreadsHold'
    BY <1>i, <1>1 DEF ProducerWait, MayClaim, PoolTypeOK, FlagsOK, ThreadsHold, Ended
  <2>5. Apart'
    BY <1>i, <1>1 DEF ProducerWait, MayClaim, PoolTypeOK, Apart, ThreadsHold
  <2>6. Kept'
    BY <1>i, <1>1 DEF ProducerWait, MayClaim, PoolTypeOK, Kept, InPlace, ThreadsHold
  <2>7. ErrorsKnown'
    BY <1>i, <1>1 DEF ProducerWait, MayClaim, PoolTypeOK, FlagsOK, ErrorsKnown, ThreadsHold
  <2>8. WhyFinished'
    BY <1>i, <1>1 DEF ProducerWait, MayClaim, PoolTypeOK, FlagsOK, WhyFinished, ThreadsHold,
       Ended
  <2>9. LateClaims'
    BY <1>i, <1>1 DEF ProducerWait, MayClaim, FlagsOK, LateClaims, PoolTypeOK
  <2>10. OkIsClean'
    BY <1>i, <1>1 DEF ProducerWait, MayClaim, FlagsOK, OkIsClean, ThreadsHold, Ended, PoolTypeOK
  <2>11. Reported'
    BY <1>i, <1>1 DEF ProducerWait, PoolTypeOK, ThreadsHold, Apart, Reported
  <2> QED
    BY <2>1, <2>2, <2>3, <2>4, <2>5, <2>6, <2>7, <2>8, <2>9, <2>10, <2>11 DEF PoolInv
<1>2. ASSUME NEW t \in Task, ProducerClaims(t) PROVE PoolInv'
  <2>1. PoolTypeOK'
    BY <1>i, <1>2 DEF ProducerClaims, PoolTypeOK, FlagsOK
  <2>2. FlagsOK'
    BY <1>i, <1>2 DEF ProducerClaims, PoolTypeOK, FlagsOK
  <2>3. RoomForClaim'
    BY <1>i, <1>2 DEF ProducerClaims, PoolTypeOK, FlagsOK, RoomForClaim
  <2>4. ThreadsHold'
    BY <1>i, <1>2 DEF ProducerClaims, PoolTypeOK, FlagsOK, ThreadsHold, Ended
  <2>5. Apart'
    BY <1>i, <1>2 DEF ProducerClaims, PoolTypeOK, Apart, ThreadsHold
  <2>6. Kept'
    BY <1>i, <1>2 DEF ProducerClaims, PoolTypeOK, Kept, InPlace, ThreadsHold
  <2>7. ErrorsKnown'
    BY <1>i, <1>2 DEF ProducerClaims, PoolTypeOK, FlagsOK, ErrorsKnown, ThreadsHold
  <2>8. WhyFinished'
    BY <1>i, <1>2 DEF ProducerClaims, PoolTypeOK, FlagsOK, WhyFinished, ThreadsHold, Ended
  <2>9. LateClaims'
    BY <1>i, <1>2 DEF ProducerClaims, FlagsOK, LateClaims, PoolTypeOK
  <2>10. OkIsClean'
    BY <1>i, <1>2 DEF ProducerClaims, FlagsOK, OkIsClean, ThreadsHold, Ended, PoolTypeOK
  <2>11. Reported'
    BY <1>i, <1>2 DEF ProducerClaims, PoolTypeOK, ThreadsHold, Apart, Reported
  <2> QED
    BY <2>1, <2>2, <2>3, <2>4, <2>5, <2>6, <2>7, <2>8, <2>9, <2>10, <2>11 DEF PoolInv
<1>3. CASE ProducerFindsNone
  <2>1. PoolTypeOK'
    BY <1>i, <1>3 DEF ProducerFindsNone, PoolTypeOK, FlagsOK
  <2>2. FlagsOK'
    BY <1>i, <1>3 DEF ProducerFindsNone, PoolTypeOK, FlagsOK
  <2>3. RoomForClaim'
    BY <1>i, <1>3 DEF ProducerFindsNone, PoolTypeOK, FlagsOK, RoomForClaim
  <2>4. ThreadsHold'
    BY <1>i, <1>3 DEF ProducerFindsNone, PoolTypeOK, FlagsOK, ThreadsHold, Ended
  <2>5. Apart'
    BY <1>i, <1>3 DEF ProducerFindsNone, PoolTypeOK, Apart, ThreadsHold
  <2>6. Kept'
    BY <1>i, <1>3 DEF ProducerFindsNone, PoolTypeOK, Kept, InPlace, ThreadsHold
  <2>7. ErrorsKnown'
    BY <1>i, <1>3 DEF ProducerFindsNone, PoolTypeOK, FlagsOK, ErrorsKnown, ThreadsHold
  <2>8. WhyFinished'
    BY <1>i, <1>3 DEF ProducerFindsNone, PoolTypeOK, FlagsOK, WhyFinished, ThreadsHold, Ended
  <2>9. LateClaims'
    BY <1>i, <1>3 DEF ProducerFindsNone, FlagsOK, LateClaims, PoolTypeOK
  <2>10. OkIsClean'
    BY <1>i, <1>3 DEF ProducerFindsNone, FlagsOK, OkIsClean, ThreadsHold, Ended, PoolTypeOK
  <2>11. Reported'
    BY <1>i, <1>3 DEF ProducerFindsNone, PoolTypeOK, ThreadsHold, Apart, Reported
  <2> QED
    BY <2>1, <2>2, <2>3, <2>4, <2>5, <2>6, <2>7, <2>8, <2>9, <2>10, <2>11 DEF PoolInv
<1>4. CASE ProducerClaimFails
  <2>1. PoolTypeOK'
    BY <1>i, <1>4 DEF ProducerClaimFails, PoolTypeOK, FlagsOK
  <2>2. FlagsOK'
    BY <1>i, <1>4 DEF ProducerClaimFails, PoolTypeOK, FlagsOK
  <2>3. RoomForClaim'
    BY <1>i, <1>4 DEF ProducerClaimFails, PoolTypeOK, FlagsOK, RoomForClaim
  <2>4. ThreadsHold'
    BY <1>i, <1>4 DEF ProducerClaimFails, PoolTypeOK, FlagsOK, ThreadsHold, Ended
  <2>5. Apart'
    BY <1>i, <1>4 DEF ProducerClaimFails, PoolTypeOK, Apart, ThreadsHold
  <2>6. Kept'
    BY <1>i, <1>4 DEF ProducerClaimFails, PoolTypeOK, Kept, InPlace, ThreadsHold
  <2>7. ErrorsKnown'
    BY <1>i, <1>4 DEF ProducerClaimFails, PoolTypeOK, FlagsOK, ErrorsKnown, ThreadsHold
  <2>8. WhyFinished'
    BY <1>i, <1>4 DEF ProducerClaimFails, PoolTypeOK, FlagsOK, WhyFinished, ThreadsHold, Ended
  <2>9. LateClaims'
    BY <1>i, <1>4 DEF ProducerClaimFails, FlagsOK, LateClaims, PoolTypeOK
  <2>10. OkIsClean'
    BY <1>i, <1>4 DEF ProducerClaimFails, FlagsOK, OkIsClean, ThreadsHold, Ended, PoolTypeOK
  <2>11. Reported'
    BY <1>i, <1>4 DEF ProducerClaimFails, PoolTypeOK, ThreadsHold, Apart, Reported
  <2> QED
    BY <2>1, <2>2, <2>3, <2>4, <2>5, <2>6, <2>7, <2>8, <2>9, <2>10, <2>11 DEF PoolInv
<1>5. CASE ProducerPush
  <2>a. claim \in Task /\ queue \in Seq(Task)
    BY <1>i, <1>5 DEF ProducerPush, ThreadsHold, PoolTypeOK
  <2>b. /\ queue' \in Seq(Task) /\ Len(queue') = Len(queue) + 1 /\ Len(queue) \in Nat
        /\ DOMAIN queue = 1 .. Len(queue) /\ DOMAIN queue' = 1 .. (Len(queue) + 1)
        /\ \A i \in 1 .. Len(queue) : queue'[i] = queue[i]
        /\ queue'[Len(queue) + 1] = claim
    BY <1>5, <2>a, AppendFacts DEF ProducerPush
  <2>1. PoolTypeOK'
    <3>1. Len(queue') <= Capacity
      BY <1>i, <1>5, <2>b DEF ProducerPush, RoomForClaim
    <3> QED BY <1>i, <1>5, <2>a, <2>b, <3>1 DEF ProducerPush, PoolTypeOK
  <2>2. FlagsOK'
    BY <1>i, <1>5, <2>a, <2>b DEF ProducerPush, PoolTypeOK, FlagsOK
  <2>3. RoomForClaim'
    BY <1>i, <1>5, <2>a, <2>b DEF ProducerPush, PoolTypeOK, FlagsOK, RoomForClaim
  <2>4. ThreadsHold'
    BY <1>i, <1>5, <2>a, <2>b DEF ProducerPush, PoolTypeOK, FlagsOK, ThreadsHold, Ended
  <2>5. Apart'
    BY <1>i, <1>5, <2>a, <2>b DEF ProducerPush, PoolTypeOK, Apart, ThreadsHold
  <2>6. Kept'
    <3> SUFFICES ASSUME NEW t \in Task, InPlace(t) PROVE InPlace(t)'
      BY <1>i, <1>5 DEF ProducerPush, Kept
    <3>1. CASE claim = t
      <4>1. Len(queue) + 1 \in DOMAIN queue' /\ queue'[Len(queue) + 1] = t
        BY <2>b, <3>1
      <4> QED BY <4>1 DEF InPlace
    <3>2. ASSUME NEW i \in DOMAIN queue, queue[i] = t PROVE InPlace(t)'
      <4>1. i \in DOMAIN queue' /\ queue'[i] = t
        BY <2>b, <3>2
      <4> QED BY <4>1 DEF InPlace
    <3>3. ASSUME NEW w \in Worker, item[w] = t PROVE InPlace(t)'
      BY <1>5, <3>3 DEF ProducerPush, InPlace
    <3> QED BY <3>1, <3>2, <3>3 DEF InPlace
  <2>7. ErrorsKnown'
    BY <1>i, <1>5, <2>a, <2>b DEF ProducerPush, PoolTypeOK, FlagsOK, ErrorsKnown, ThreadsHold
  <2>8. WhyFinished'
    BY <1>i, <1>5, <2>a, <2>b DEF ProducerPush, PoolTypeOK, FlagsOK, WhyFinished,
       ThreadsHold, Ended
  <2>9. LateClaims'
    BY <1>i, <1>5, <2>a, <2>b DEF ProducerPush, FlagsOK, LateClaims, PoolTypeOK
  <2>10. OkIsClean'
    BY <1>i, <1>5, <2>a, <2>b DEF ProducerPush, FlagsOK, OkIsClean, ThreadsHold, Ended,
       PoolTypeOK
  <2>11. Reported'
    BY <1>i, <1>5 DEF ProducerPush, PoolTypeOK, ThreadsHold, Apart, Reported
  <2> QED
    BY <2>1, <2>2, <2>3, <2>4, <2>5, <2>6, <2>7, <2>8, <2>9, <2>10, <2>11 DEF PoolInv
<1>6. CASE ProducerNotify
  <2>1. PoolTypeOK'
    BY <1>i, <1>6 DEF ProducerNotify, AllWoken, Woken, PoolTypeOK, FlagsOK
  <2>2. FlagsOK'
    BY <1>i, <1>6 DEF ProducerNotify, AllWoken, Woken, PoolTypeOK, FlagsOK
  <2>3. RoomForClaim'
    BY <1>i, <1>6 DEF ProducerNotify, AllWoken, Woken, PoolTypeOK, FlagsOK, RoomForClaim
  <2>4. ThreadsHold'
    BY <1>i, <1>6 DEF ProducerNotify, AllWoken, Woken, PoolTypeOK, FlagsOK, ThreadsHold, Ended
  <2>5. Apart'
    BY <1>i, <1>6 DEF ProducerNotify, AllWoken, Woken, PoolTypeOK, Apart, ThreadsHold
  <2>6. Kept'
    BY <1>i, <1>6 DEF ProducerNotify, AllWoken, Woken, PoolTypeOK, Kept, InPlace, ThreadsHold
  <2>7. ErrorsKnown'
    BY <1>i, <1>6 DEF ProducerNotify, AllWoken, Woken, PoolTypeOK, FlagsOK, ErrorsKnown,
       ThreadsHold
  <2>8. WhyFinished'
    BY <1>i, <1>6 DEF ProducerNotify, AllWoken, Woken, PoolTypeOK, FlagsOK, WhyFinished,
       ThreadsHold, Ended
  <2>9. LateClaims'
    BY <1>i, <1>6 DEF ProducerNotify, AllWoken, Woken, FlagsOK, LateClaims, PoolTypeOK
  <2>10. OkIsClean'
    BY <1>i, <1>6 DEF ProducerNotify, AllWoken, Woken, FlagsOK, OkIsClean, ThreadsHold,
       Ended, PoolTypeOK
  <2>11. Reported'
    BY <1>i, <1>6 DEF ProducerNotify, AllWoken, Woken, PoolTypeOK, ThreadsHold, Apart, Reported
  <2> QED
    BY <2>1, <2>2, <2>3, <2>4, <2>5, <2>6, <2>7, <2>8, <2>9, <2>10, <2>11 DEF PoolInv
<1>7. CASE ProducerFinish
  <2>1. PoolTypeOK'
    BY <1>i, <1>7 DEF ProducerFinish, PoolTypeOK, FlagsOK
  <2>2. FlagsOK'
    BY <1>i, <1>7 DEF ProducerFinish, PoolTypeOK, FlagsOK
  <2>3. RoomForClaim'
    BY <1>i, <1>7 DEF ProducerFinish, PoolTypeOK, FlagsOK, RoomForClaim
  <2>4. ThreadsHold'
    BY <1>i, <1>7 DEF ProducerFinish, PoolTypeOK, FlagsOK, ThreadsHold, Ended
  <2>5. Apart'
    BY <1>i, <1>7 DEF ProducerFinish, PoolTypeOK, Apart, ThreadsHold
  <2>6. Kept'
    BY <1>i, <1>7 DEF ProducerFinish, PoolTypeOK, Kept, InPlace, ThreadsHold
  <2>7. ErrorsKnown'
    BY <1>i, <1>7 DEF ProducerFinish, PoolTypeOK, FlagsOK, ErrorsKnown, ThreadsHold
  <2>8. WhyFinished'
    BY <1>i, <1>7 DEF ProducerFinish, PoolTypeOK, FlagsOK, WhyFinished, ThreadsHold, Ended
  <2>9. LateClaims'
    BY <1>i, <1>7 DEF ProducerFinish, FlagsOK, LateClaims, PoolTypeOK
  <2>10. OkIsClean'
    BY <1>i, <1>7 DEF ProducerFinish, FlagsOK, OkIsClean, ThreadsHold, Ended, PoolTypeOK
  <2>11. Reported'
    BY <1>i, <1>7 DEF ProducerFinish, PoolTypeOK, ThreadsHold, Apart, Reported
  <2> QED
    BY <2>1, <2>2, <2>3, <2>4, <2>5, <2>6, <2>7, <2>8, <2>9, <2>10, <2>11 DEF PoolInv
<1>8. CASE ProducerNotifyDone
  <2>1. PoolTypeOK'
    BY <1>i, <1>8 DEF ProducerNotifyDone, AllWoken, Woken, PoolTypeOK, FlagsOK
  <2>2. FlagsOK'
    BY <1>i, <1>8 DEF ProducerNotifyDone, AllWoken, Woken, PoolTypeOK, FlagsOK
  <2>3. RoomForClaim'
    BY <1>i, <1>8 DEF ProducerNotifyDone, AllWoken, Woken, PoolTypeOK, FlagsOK, RoomForClaim
  <2>4. ThreadsHold'
    BY <1>i, <1>8 DEF ProducerNotifyDone, AllWoken, Woken, PoolTypeOK, FlagsOK, ThreadsHold,
       Ended
  <2>5. Apart'
    BY <1>i, <1>8 DEF ProducerNotifyDone, AllWoken, Woken, PoolTypeOK, Apart, ThreadsHold
  <2>6. Kept'
    BY <1>i, <1>8 DEF ProducerNotifyDone, AllWoken, Woken, PoolTypeOK, Kept, InPlace,
       ThreadsHold
  <2>7. ErrorsKnown'
    BY <1>i, <1>8 DEF ProducerNotifyDone, AllWoken, Woken, PoolTypeOK, FlagsOK, ErrorsKnown,
       ThreadsHold
  <2>8. WhyFinished'
    BY <1>i, <1>8 DEF ProducerNotifyDone, AllWoken, Woken, PoolTypeOK, FlagsOK, WhyFinished,
       ThreadsHold, Ended
  <2>9. LateClaims'
    BY <1>i, <1>8 DEF ProducerNotifyDone, AllWoken, Woken, FlagsOK, LateClaims, PoolTypeOK
  <2>10. OkIsClean'
    BY <1>i, <1>8 DEF ProducerNotifyDone, AllWoken, Woken, FlagsOK, OkIsClean, ThreadsHold,
       Ended, PoolTypeOK
  <2>11. Reported'
    BY <1>i, <1>8 DEF ProducerNotifyDone, AllWoken, Woken, PoolTypeOK, ThreadsHold, Apart,
       Reported
  <2> QED
    BY <2>1, <2>2, <2>3, <2>4, <2>5, <2>6, <2>7, <2>8, <2>9, <2>10, <2>11 DEF PoolInv
<1>9. CASE ProducerJoin
  <2>1. PoolTypeOK'
    BY <1>i, <1>9 DEF ProducerJoin, PoolTypeOK, FlagsOK
  <2>2. FlagsOK'
    BY <1>i, <1>9 DEF ProducerJoin, PoolTypeOK, FlagsOK
  <2>3. RoomForClaim'
    BY <1>i, <1>9 DEF ProducerJoin, PoolTypeOK, FlagsOK, RoomForClaim
  <2>4. ThreadsHold'
    BY <1>i, <1>9 DEF ProducerJoin, PoolTypeOK, FlagsOK, ThreadsHold, Ended
  <2>5. Apart'
    BY <1>i, <1>9 DEF ProducerJoin, PoolTypeOK, Apart, ThreadsHold
  <2>6. Kept'
    BY <1>i, <1>9 DEF ProducerJoin, PoolTypeOK, Kept, InPlace, ThreadsHold
  <2>7. ErrorsKnown'
    BY <1>i, <1>9 DEF ProducerJoin, PoolTypeOK, FlagsOK, ErrorsKnown, ThreadsHold
  <2>8. WhyFinished'
    BY <1>i, <1>9 DEF ProducerJoin, PoolTypeOK, FlagsOK, WhyFinished, ThreadsHold, Ended
  <2>9. LateClaims'
    BY <1>i, <1>9 DEF ProducerJoin, FlagsOK, LateClaims, PoolTypeOK
  <2>10. OkIsClean'
    BY <1>i, <1>9 DEF ProducerJoin, FlagsOK, OkIsClean, ThreadsHold, Ended, PoolTypeOK
  <2>11. Reported'
    BY <1>i, <1>9 DEF ProducerJoin, PoolTypeOK, ThreadsHold, Apart, Reported
  <2> QED
    BY <2>1, <2>2, <2>3, <2>4, <2>5, <2>6, <2>7, <2>8, <2>9, <2>10, <2>11 DEF PoolInv
<1>10. ASSUME NEW w \in Worker, WorkerSleeps(w) PROVE PoolInv'
  <2>1. PoolTypeOK'
    BY <1>i, <1>10 DEF WorkerSleeps, PoolTypeOK, FlagsOK
  <2>2. FlagsOK'
    BY <1>i, <1>10 DEF WorkerSleeps, PoolTypeOK, FlagsOK
  <2>3. RoomForClaim'
    BY <1>i, <1>10 DEF WorkerSleeps, PoolTypeOK, FlagsOK, RoomForClaim
  <2>4. ThreadsHold'
    BY <1>i, <1>10 DEF WorkerSleeps, PoolTypeOK, FlagsOK, ThreadsHold, Ended
  <2>5. Apart'
    BY <1>i, <1>10 DEF WorkerSleeps, PoolTypeOK, Apart, ThreadsHold
  <2>6. Kept'
    BY <1>i, <1>10 DEF WorkerSleeps, PoolTypeOK, Kept, InPlace, ThreadsHold
  <2>7. ErrorsKnown'
    BY <1>i, <1>10 DEF WorkerSleeps, PoolTypeOK, FlagsOK, ErrorsKnown, ThreadsHold
  <2>8. WhyFinished'
    BY <1>i, <1>10 DEF WorkerSleeps, PoolTypeOK, FlagsOK, WhyFinished, ThreadsHold, Ended
  <2>9. LateClaims'
    BY <1>i, <1>10 DEF WorkerSleeps, FlagsOK, LateClaims, PoolTypeOK
  <2>10. OkIsClean'
    BY <1>i, <1>10 DEF WorkerSleeps, FlagsOK, OkIsClean, ThreadsHold, Ended, PoolTypeOK
  <2>11. Reported'
    BY <1>i, <1>10 DEF WorkerSleeps, PoolTypeOK, ThreadsHold, Apart, Reported
  <2> QED
    BY <2>1, <2>2, <2>3, <2>4, <2>5, <2>6, <2>7, <2>8, <2>9, <2>10, <2>11 DEF PoolInv
<1>11. ASSUME NEW w \in Worker, WorkerReturns(w) PROVE PoolInv'
  <2>1. PoolTypeOK'
    BY <1>i, <1>11 DEF WorkerReturns, PoolTypeOK, FlagsOK
  <2>2. FlagsOK'
    BY <1>i, <1>11 DEF WorkerReturns, PoolTypeOK, FlagsOK
  <2>3. RoomForClaim'
    BY <1>i, <1>11 DEF WorkerReturns, PoolTypeOK, FlagsOK, RoomForClaim
  <2>4. ThreadsHold'
    BY <1>i, <1>11 DEF WorkerReturns, PoolTypeOK, FlagsOK, ThreadsHold, Ended
  <2>5. Apart'
    BY <1>i, <1>11 DEF WorkerReturns, PoolTypeOK, Apart, ThreadsHold
  <2>6. Kept'
    BY <1>i, <1>11 DEF WorkerReturns, PoolTypeOK, Kept, InPlace, ThreadsHold
  <2>7. ErrorsKnown'
    BY <1>i, <1>11 DEF WorkerReturns, PoolTypeOK, FlagsOK, ErrorsKnown, ThreadsHold
  <2>8. WhyFinished'
    BY <1>i, <1>11 DEF WorkerReturns, PoolTypeOK, FlagsOK, WhyFinished, ThreadsHold, Ended
  <2>9. LateClaims'
    BY <1>i, <1>11 DEF WorkerReturns, FlagsOK, LateClaims, PoolTypeOK
  <2>10. OkIsClean'
    BY <1>i, <1>11 DEF WorkerReturns, FlagsOK, OkIsClean, ThreadsHold, Ended, PoolTypeOK
  <2>11. Reported'
    BY <1>i, <1>11 DEF WorkerReturns, PoolTypeOK, ThreadsHold, Apart, Reported
  <2> QED
    BY <2>1, <2>2, <2>3, <2>4, <2>5, <2>6, <2>7, <2>8, <2>9, <2>10, <2>11 DEF PoolInv
<1>12. ASSUME NEW w \in Worker, WorkerPops(w) PROVE PoolInv'
  <2>a. queue \in Seq(Task) /\ queue # <<>>
    BY <1>i, <1>12 DEF WorkerPops, PoolTypeOK
  <2>b. /\ queue' \in Seq(Task) /\ Head(queue) \in Task /\ Head(queue) = queue[1]
        /\ Len(queue) \in Nat /\ Len(queue) >= 1 /\ Len(queue') = Len(queue) - 1
        /\ DOMAIN queue = 1 .. Len(queue) /\ DOMAIN queue' = 1 .. (Len(queue) - 1)
        /\ \A i \in 1 .. (Len(queue) - 1) : queue'[i] = queue[i + 1]
    BY <1>12, <2>a, TailFacts DEF WorkerPops
  <2>1. PoolTypeOK'
    BY <1>i, <1>12, <2>a, <2>b DEF WorkerPops, AllWoken, Woken, PoolTypeOK, FlagsOK
  <2>2. FlagsOK'
    BY <1>i, <1>12, <2>a, <2>b DEF WorkerPops, AllWoken, Woken, PoolTypeOK, FlagsOK
  <2>3. RoomForClaim'
    BY <1>i, <1>12, <2>a, <2>b DEF WorkerPops, AllWoken, Woken, PoolTypeOK, FlagsOK,
       RoomForClaim
  <2>4. ThreadsHold'
    BY <1>i, <1>12, <2>a, <2>b DEF WorkerPops, AllWoken, Woken, PoolTypeOK, FlagsOK,
       ThreadsHold, Ended
  <2>5. Apart'
    BY <1>i, <1>12, <2>a, <2>b DEF WorkerPops, AllWoken, Woken, PoolTypeOK, Apart, ThreadsHold
  <2>6. Kept'
    <3> SUFFICES ASSUME NEW t \in Task, row[t] = "Running", t \notin unmarked
                 PROVE  InPlace(t)'
      BY <1>12 DEF WorkerPops, Kept
    <3>1. InPlace(t)
      BY <1>i DEF Kept
    <3>2. CASE claim = t
      BY <3>2, <1>12 DEF WorkerPops, InPlace
    <3>3. ASSUME NEW i \in DOMAIN queue, queue[i] = t PROVE InPlace(t)'
      <4>1. CASE i = 1
        BY <1>i, <1>12, <2>b, <3>3, <4>1 DEF WorkerPops, InPlace, PoolTypeOK
      <4>2. CASE i # 1
        <5>1. i - 1 \in DOMAIN queue' /\ queue'[i - 1] = t
          BY <2>b, <3>3, <4>2
        <5> QED BY <5>1 DEF InPlace
      <4> QED BY <4>1, <4>2
    <3>4. ASSUME NEW v \in Worker, item[v] = t PROVE InPlace(t)'
      <4>1. v # w
        BY <1>i, <1>12, <3>4 DEF WorkerPops, ThreadsHold
      <4>2. item'[v] = t
        BY <1>i, <1>12, <3>4, <4>1 DEF WorkerPops, PoolTypeOK
      <4> QED BY <4>2 DEF InPlace
    <3> QED BY <3>1, <3>2, <3>3, <3>4 DEF InPlace
  <2>7. ErrorsKnown'
    BY <1>i, <1>12, <2>a, <2>b DEF WorkerPops, AllWoken, Woken, PoolTypeOK, FlagsOK,
       ErrorsKnown, ThreadsHold
  <2>8. WhyFinished'
    BY <1>i, <1>12, <2>a, <2>b DEF WorkerPops, AllWoken, Woken, PoolTypeOK, FlagsOK,
       WhyFinished, ThreadsHold, Ended
  <2>9. LateClaims'
    BY <1>i, <1>12, <2>a, <2>b DEF WorkerPops, AllWoken, Woken, FlagsOK, LateClaims, PoolTypeOK
  <2>10. OkIsClean'
    BY <1>i, <1>12, <2>a, <2>b DEF WorkerPops, AllWoken, Woken, FlagsOK, OkIsClean,
       ThreadsHold, Ended, PoolTypeOK
  <2>11. Reported'
    BY <1>i, <1>12 DEF WorkerPops, AllWoken, Woken, PoolTypeOK, ThreadsHold, Apart, Reported
  <2> QED
    BY <2>1, <2>2, <2>3, <2>4, <2>5, <2>6, <2>7, <2>8, <2>9, <2>10, <2>11 DEF PoolInv
<1>13. ASSUME NEW w \in Worker, WorkerExecutes(w) PROVE PoolInv'
  <2>1. PoolTypeOK'
    BY <1>i, <1>13 DEF WorkerExecutes, PoolTypeOK, FlagsOK
  <2>2. FlagsOK'
    <3>1. item[w] \in Task
      BY <1>i, <1>13 DEF WorkerExecutes, PoolTypeOK, ThreadsHold
    <3>2. unmarked' \subseteq Task /\ failedItem' \in [Worker -> BOOLEAN]
      BY <1>i, <1>13, <3>1 DEF WorkerExecutes, FlagsOK
    <3> QED BY <1>i, <1>13, <3>2 DEF WorkerExecutes, FlagsOK
  <2>3. RoomForClaim'
    BY <1>i, <1>13 DEF WorkerExecutes, PoolTypeOK, FlagsOK, RoomForClaim
  <2>4. ThreadsHold'
    BY <1>i, <1>13 DEF WorkerExecutes, PoolTypeOK, FlagsOK, ThreadsHold, Ended
  <2>5. Apart'
    <3>1. \A t \in Task : row[t] # "Ready" => row'[t] # "Ready"
      BY <1>i, <1>13 DEF WorkerExecutes, PoolTypeOK
    <3>2. /\ \A i \in DOMAIN queue : queue[i] \in Task
          /\ \A v \in Worker : item[v] # NoItem => item[v] \in Task
          /\ claim # NoItem => claim \in Task
      BY <1>i DEF PoolTypeOK
    <3>3. UNCHANGED <<queue, item, claim>>
      BY <1>13 DEF WorkerExecutes
    <3> QED BY <1>i, <3>1, <3>2, <3>3 DEF Apart
  <2>6. Kept'
    BY <1>i, <1>13 DEF WorkerExecutes, PoolTypeOK, Kept, InPlace, ThreadsHold
  <2>7. ErrorsKnown'
    BY <1>i, <1>13 DEF WorkerExecutes, PoolTypeOK, FlagsOK, ErrorsKnown, ThreadsHold
  <2>8. WhyFinished'
    BY <1>i, <1>13 DEF WorkerExecutes, PoolTypeOK, FlagsOK, WhyFinished, ThreadsHold, Ended
  <2>9. LateClaims'
    BY <1>i, <1>13 DEF WorkerExecutes, FlagsOK, LateClaims, PoolTypeOK
  <2>10. OkIsClean'
    BY <1>i, <1>13 DEF WorkerExecutes, FlagsOK, OkIsClean, ThreadsHold, Ended, PoolTypeOK
  <2>11. Reported'
    BY <1>i, <1>13 DEF WorkerExecutes, PoolTypeOK, ThreadsHold, Apart, Reported
  <2> QED
    BY <2>1, <2>2, <2>3, <2>4, <2>5, <2>6, <2>7, <2>8, <2>9, <2>10, <2>11 DEF PoolInv
<1>14. ASSUME NEW w \in Worker, WorkerReports(w) PROVE PoolInv'
  <2>1. PoolTypeOK'
    BY <1>i, <1>14 DEF WorkerReports, AllWoken, Woken, PoolTypeOK, FlagsOK
  <2>2. FlagsOK'
    BY <1>i, <1>14 DEF WorkerReports, AllWoken, Woken, PoolTypeOK, FlagsOK
  <2>3. RoomForClaim'
    BY <1>i, <1>14 DEF WorkerReports, AllWoken, Woken, PoolTypeOK, FlagsOK, RoomForClaim
  <2>4. ThreadsHold'
    BY <1>i, <1>14 DEF WorkerReports, AllWoken, Woken, PoolTypeOK, FlagsOK, ThreadsHold, Ended
  <2>5. Apart'
    BY <1>i, <1>14 DEF WorkerReports, AllWoken, Woken, PoolTypeOK, Apart, ThreadsHold
  <2>6. Kept'
    <3>1. item[w] \in Task /\ (row[item[w]] # "Running" \/ item[w] \in unmarked)
      BY <1>i, <1>14 DEF WorkerReports, ThreadsHold, PoolTypeOK, Reported
    <3> SUFFICES ASSUME NEW t \in Task, row[t] = "Running", t \notin unmarked
                 PROVE  InPlace(t)'
      BY <1>14 DEF WorkerReports, Kept
    <3>2. InPlace(t) /\ t # item[w]
      BY <1>i, <3>1 DEF Kept
    <3>3. \A v \in Worker : item[v] = t => item'[v] = t
      BY <1>i, <1>14, <3>2 DEF WorkerReports, PoolTypeOK
    <3> QED BY <1>14, <3>2, <3>3 DEF WorkerReports, InPlace
  <2>7. ErrorsKnown'
    BY <1>i, <1>14 DEF WorkerReports, AllWoken, Woken, PoolTypeOK, FlagsOK, ErrorsKnown,
       ThreadsHold
  <2>8. WhyFinished'
    BY <1>i, <1>14 DEF WorkerReports, AllWoken, Woken, PoolTypeOK, FlagsOK, WhyFinished,
       ThreadsHold, Ended
  <2>9. LateClaims'
    BY <1>i, <1>14 DEF WorkerReports, AllWoken, Woken, FlagsOK, LateClaims, PoolTypeOK
  <2>10. OkIsClean'
    BY <1>i, <1>14 DEF WorkerReports, AllWoken, Woken, FlagsOK, OkIsClean, ThreadsHold,
       Ended, PoolTypeOK
  <2>11. Reported'
    BY <1>i, <1>14 DEF WorkerReports, AllWoken, Woken, PoolTypeOK, ThreadsHold, Apart, Reported
  <2> QED
    BY <2>1, <2>2, <2>3, <2>4, <2>5, <2>6, <2>7, <2>8, <2>9, <2>10, <2>11 DEF PoolInv
<1>15. CASE UNCHANGED poolVars
  <2>1. PoolTypeOK' /\ FlagsOK' /\ RoomForClaim' /\ ThreadsHold'
    BY <1>i, <1>15 DEF poolVars, PoolTypeOK, FlagsOK, RoomForClaim, ThreadsHold, Ended
  <2>2. Apart' /\ Kept' /\ Reported' /\ ErrorsKnown' /\ WhyFinished' /\ LateClaims' /\ OkIsClean'
    BY <1>i, <1>15 DEF poolVars, Apart, Kept, Reported, InPlace, ErrorsKnown, WhyFinished,
       LateClaims,
       OkIsClean
  <2> QED BY <2>1, <2>2 DEF PoolInv
<1> QED
  BY <1>1, <1>2, <1>3, <1>4, <1>5, <1>6, <1>7, <1>8, <1>9, <1>10, <1>11, <1>12, <1>13, <1>14,
     <1>15 DEF PoolNext, Producer, WorkerThread

\* The inductive invariant holds in every reachable state of the pool.
THEOREM PoolInvariant == PoolSpec => []PoolInv
BY PoolInvInit, PoolInvNext, PTL DEF PoolSpec

----------------------------------------------------------------------------
(* What the runs check.                                                    *)

\* Type correctness; the queue never exceeds its capacity although its length is
\* tested under one lock and used under the next (RoomForClaim).
THEOREM PoolTypeCorrect == PoolSpec => []PoolTypeOK
<1>1. PoolInv => PoolTypeOK
  BY DEF PoolInv
<1> QED BY <1>1, PoolInvariant, PTL

\* The places of a task, as OneExecutor counts them.
Places(t) ==
    {<<"queue", i>> : i \in {j \in DOMAIN queue : queue[j] = t}}
    \cup {<<"worker", w>> : w \in {v \in Worker : item[v] = t}}
    \cup {<<"claim", n>> : n \in {claim} \cap {t}}

\* Any two places of a task are the same one.
LEMMA PlacesUnique ==
    ASSUME PoolInv, NEW t \in Task, NEW p \in Places(t), NEW q \in Places(t)
    PROVE  p = q
<1> USE PoolAssumption DEF NoItem
<1>1. t # NoItem /\ Apart
  BY DEF PoolInv
<1>2. \/ \E i \in DOMAIN queue : queue[i] = t /\ p = <<"queue", i>>
      \/ \E w \in Worker : item[w] = t /\ p = <<"worker", w>>
      \/ claim = t /\ p = <<"claim", t>>
  BY DEF Places
<1>3. \/ \E i \in DOMAIN queue : queue[i] = t /\ q = <<"queue", i>>
      \/ \E w \in Worker : item[w] = t /\ q = <<"worker", w>>
      \/ claim = t /\ q = <<"claim", t>>
  BY DEF Places
<1> QED BY <1>1, <1>2, <1>3 DEF Apart

\* Counting: one place for a claimed task in work, at most one for any.
LEMMA OneExecutorHolds == PoolInv => OneExecutor
<1> SUFFICES ASSUME PoolInv, NEW t \in Task
             PROVE  /\ Cardinality(Places(t)) <= 1
                    /\ row[t] = "Running" /\ t \notin unmarked =>
                           Cardinality(Places(t)) = 1
  BY DEF OneExecutor, Places
<1>1. CASE Places(t) = {}
  <2>1. Cardinality(Places(t)) = 0
    BY <1>1, FS_EmptySet
  <2>2. ~InPlace(t)
    BY <1>1 DEF InPlace, Places
  <2> QED BY <2>1, <2>2 DEF PoolInv, Kept
<1>2. ASSUME NEW p \in Places(t) PROVE Cardinality(Places(t)) = 1
  <2>1. Places(t) = {p}
    BY <1>2, PlacesUnique
  <2> QED BY <2>1, FS_Singleton
<1> QED BY <1>1, <1>2

\* In a run that has ended nobody holds a task any more.
LEMMA EndedIsEmpty == ASSUME PoolInv, Ended, NEW t \in Task PROVE ~InPlace(t)
<1> USE PoolAssumption DEF NoItem
<1>1. PICK w \in Worker : TRUE
  OBVIOUS
<1>2. queue = <<>> /\ claim = NoItem /\ \A v \in Worker : item[v] = NoItem
  BY <1>1 DEF PoolInv, ThreadsHold, Ended, PoolTypeOK
<1> QED BY <1>2 DEF InPlace

\* Every claimed task is handed to exactly one worker, and a run that ends leaves no
\* task RUNNING but those whose MarkRetryable failed.
THEOREM TasksHandedOverSafe == PoolSpec => []TasksHandedOver
<1>1. PoolInv => NothingAbandoned
  BY EndedIsEmpty DEF NothingAbandoned, PoolInv, Kept
<1>2. PoolInv => TasksHandedOver
  BY <1>1, OneExecutorHolds DEF TasksHandedOver
<1> QED BY <1>2, PoolInvariant, PTL

\* Success is reported only when every task is verified: no error of a worker or of a
\* claim gets lost between the threads.
THEOREM SuccessSafe == PoolSpec => []SuccessMeansAllVerified
<1>1. PoolInv => SuccessMeansAllVerified
  <2> SUFFICES ASSUME PoolInv, ppc = "ok", NEW t \in Task PROVE row[t] = "Verified"
    BY DEF SuccessMeansAllVerified
  <2>1. ~firstError /\ ~producerError
    BY DEF PoolInv, OkIsClean
  <2>2. row[t] # "Ready"
    BY <2>1 DEF PoolInv, WhyFinished
  <2>3. ~InPlace(t)
    BY EndedIsEmpty DEF Ended
  <2>4. row[t] # "Retryable" /\ t \notin unmarked
    BY <2>1, <2>3 DEF PoolInv, ErrorsKnown, InPlace
  <2>5. row[t] # "Running"
    BY <2>3, <2>4 DEF PoolInv, Kept
  <2> QED BY <2>2, <2>4, <2>5 DEF PoolInv, PoolTypeOK
<1> QED BY <1>1, PoolInvariant, PTL

\* After the first error at most the claim already under way is made.
THEOREM ErrorStopsClaimsSafe == PoolSpec => []ErrorStopsClaims
<1>1. PoolInv => ErrorStopsClaims
  BY DEF PoolInv, LateClaims, ErrorStopsClaims
<1> QED BY <1>1, PoolInvariant, PTL
===========================================================================
