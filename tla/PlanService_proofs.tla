------------------------ MODULE PlanService_proofs ------------------------
(***************************************************************************)
(* TLAPS proofs about the pipeline of module PlanService and the scan of   *)
(* module ManifestBuilder it begins with, for every folder, every sequence *)
(* of changes in it, any number of scans and runs of plan, and every       *)
(* interleaving of their steps with crashes: frozen manifests and what     *)
(* was printed stand, plan files are whole and durable, temporary files    *)
(* have an owner, and tasks are the rows of a frozen manifest.             *)
(***************************************************************************)
EXTENDS PlanService, FiniteSetTheorems, SequenceTheorems, TLAPS

---------------------------------------------------------------------------
(* The scan: what a frozen manifest lists and what a scan has printed.     *)

\* The variables of the scan in their sets.
ScanTypes ==
    /\ tree \in [Path -> Nat] /\ edits \in 0 .. MaxEdits /\ faults \in 0 .. MaxFaults
    /\ manifest \in [Manifest -> [state : {"None", "Building", "Frozen"},
                                  rows : SUBSET Row, digest : SUBSET Row]]
    /\ \A m \in Manifest : IsFiniteSet(manifest[m].rows)
    /\ spc \in {"idle", "walk", "freeze"} /\ mid \in 0 .. MaxScans
    /\ todo \in Seq([path : Path \cup {Root}, act : {"stat", "open"}])
    /\ pending \in Seq(Row) /\ Len(pending) < BatchSize /\ asset_count \in Nat
    /\ untouched \subseteq Path /\ stable \in [Manifest -> SUBSET Row]
    /\ reported \subseteq [manifest : Manifest, count : Nat, digest : SUBSET Row]

\* A directory with something in it exists.
TreeOK == \A p \in Path : Exists(p) => Exists(Parent[p])

\* Manifests get their ids in order, and only the scan that runs has one BUILDING that
\* still changes.
ManifestsOK ==
    /\ \A m \in Manifest : m > mid => manifest[m].state = "None"
    /\ spc # "idle" => mid \in Manifest /\ manifest[mid].state = "Building"
    /\ spc = "freeze" => todo = <<>> /\ pending = <<>>

Waiting(p, act) == \E k \in DOMAIN todo : todo[k] = [path |-> p, act |-> act]
Found == manifest[mid].rows \cup Range(pending)

\* Nothing is missed.  Opened is the set of directories that have been listed and Kept a
\* set of entries that have existed since the scan began, with their directories: an entry
\* of an opened directory waits, or is itself opened, or has its row.
NothingMissed(Kept, Opened) ==
    /\ \A p \in untouched : IsAsset(p) /\ Exists(p) => p \in Kept
    /\ \A p \in Kept : tree[p] # 0 /\ Parent[p] \in Kept \cup {Root}
    /\ \A p \in Kept : Parent[p] \in Opened =>
           \/ Waiting(p, "stat")
           \/ p \in Dir /\ (p \in Opened \/ Waiting(p, "open"))
           \/ p \notin Dir /\ (IsAsset(p) /\ p \in untouched => <<p, tree[p]>> \in Found)
    /\ Root \in Opened \/ Waiting(Root, "open")

\* Nothing is met twice: what waits or has a row is in an opened directory, what waits has
\* neither been opened nor got a row, and waits once.
NothingTwice(Opened) ==
    /\ \A p \in Opened : p = Root \/ Parent[p] \in Opened
    /\ \A k \in DOMAIN todo :
           /\ todo[k].path \notin Opened
           /\ todo[k].path # Root => Parent[todo[k].path] \in Opened
           /\ todo[k].path = Root => todo[k].act = "open"
           /\ \A r \in Found : r[1] # todo[k].path
           /\ \A j \in DOMAIN todo : todo[j].path = todo[k].path => j = k
    /\ \A r \in Found : IsAsset(r[1]) /\ Parent[r[1]] \in Opened
    /\ \A r, s \in Found : r[1] = s[1] => r = s
    /\ \A k \in DOMAIN pending : /\ pending[k] \notin manifest[mid].rows
                                 /\ \A j \in DOMAIN pending : pending[j] = pending[k] => j = k

\* The walk is in order.
WalkOK ==
    spc # "idle" =>
        /\ asset_count = Cardinality(manifest[mid].rows)
        /\ \E Kept \in SUBSET Path, Opened \in SUBSET (Path \cup {Root}) :
               NothingMissed(Kept, Opened) /\ NothingTwice(Opened)

\* The digest of a frozen manifest is that of its rows.
DigestsOK == \A m \in Manifest : Frozen(m) => manifest[m].digest = manifest[m].rows

\* The inductive invariant of the scan.
ScanInv ==
    /\ ScanTypes /\ TreeOK /\ ManifestsOK /\ WalkOK /\ DigestsOK
    /\ FrozenIsComplete /\ ReportedScanStands

---------------------------------------------------------------------------
(* Sorting and sequences.                                                  *)

\* SortedBy lists every element of a finite set exactly once.
LEMMA SortedByFacts ==
    ASSUME NEW S, IsFiniteSet(S), NEW key, \A x \in S : key[x] \in Nat,
           \A x, y \in S : key[x] = key[y] => x = y
    PROVE  /\ Cardinality(S) \in Nat
           /\ SortedBy(S, key) \in [1 .. Cardinality(S) -> S]
           /\ \A x \in S : \E k \in 1 .. Cardinality(S) : SortedBy(S, key)[k] = x
           /\ \A j, k \in 1 .. Cardinality(S) :
                  SortedBy(S, key)[j] = SortedBy(S, key)[k] => j = k
<1> DEFINE n == Cardinality(S)
           Below(x) == {y \in S : key[y] < key[x]}
           rank == [x \in S |-> Cardinality(Below(x)) + 1]
<1>1. n \in Nat
  BY FS_CardinalityType
<1>2. ASSUME NEW x \in S PROVE Cardinality(Below(x)) \in 0 .. (n - 1)
  <2>1. Below(x) \in SUBSET S /\ x \notin Below(x)
    BY <1>2
  <2>2. IsFiniteSet(Below(x)) /\ Cardinality(Below(x)) <= n /\ Cardinality(Below(x)) # n
    BY <2>1, <1>2, FS_Subset
  <2>3. Cardinality(Below(x)) \in Nat
    BY <2>2, FS_CardinalityType
  <2> QED BY <1>1, <2>2, <2>3
<1>3. ASSUME NEW x \in S, NEW y \in S, Cardinality(Below(x)) = Cardinality(Below(y)), x # y
      PROVE  FALSE
  <2>1. ASSUME NEW a \in S, NEW b \in S, key[a] < key[b],
               Cardinality(Below(a)) = Cardinality(Below(b))
        PROVE  FALSE
    <3>1. Below(a) \in SUBSET Below(b) /\ a \in Below(b) /\ a \notin Below(a)
      BY <2>1
    <3>2. IsFiniteSet(Below(b))
      <4>1. Below(b) \in SUBSET S
        OBVIOUS
      <4> QED BY <4>1, FS_Subset
    <3>3. Below(a) = Below(b)
      BY <2>1, <3>1, <3>2, FS_Subset
    <3> QED BY <3>1, <3>3
  <2>2. key[x] < key[y] \/ key[y] < key[x]
    BY <1>3
  <2> QED BY <1>3, <2>1, <2>2
<1> HIDE DEF Below
<1>4. rank \in [S -> 1 .. n] /\ \A x, y \in S : rank[x] = rank[y] => x = y
  <2>1. \A x \in S : rank[x] \in 1 .. n
    BY <1>1, <1>2
  <2>2. \A x, y \in S : rank[x] = rank[y] => Cardinality(Below(x)) = Cardinality(Below(y))
    BY <1>1, <1>2
  <2> QED BY <1>3, <2>1, <2>2
<1>5. rank \in Surjection(S, 1 .. n)
  <2>1. rank \in Injection(S, 1 .. n)
    BY <1>4 DEF Injection, IsInjective
  <2>2. IsFiniteSet(1 .. n) /\ Cardinality(1 .. n) = n
    BY <1>1, FS_Interval
  <2> QED BY <2>1, <2>2, FS_Injection
<1>6. PICK sorted : sorted = SortedBy(S, key)
  OBVIOUS
<1>7. sorted = [k \in 1 .. n |-> CHOOSE x \in S : Cardinality(Below(x)) = k - 1]
  BY <1>6 DEF SortedBy, Below
<1>8. ASSUME NEW k \in 1 .. n
      PROVE  sorted[k] \in S /\ rank[sorted[k]] = k
  <2>1. \E x \in S : rank[x] = k
    BY <1>5 DEF Surjection
  <2>2. \E x \in S : Cardinality(Below(x)) = k - 1
    BY <1>1, <1>2, <1>8, <2>1
  <2>3. sorted[k] \in S /\ Cardinality(Below(sorted[k])) = k - 1
    BY <1>7, <2>2
  <2> QED BY <1>1, <1>2, <1>8, <2>3
<1> HIDE DEF rank, n
<1>9. sorted \in [1 .. n -> S]
  BY <1>7, <1>8
<1>10. ASSUME NEW x \in S PROVE \E k \in 1 .. n : sorted[k] = x
  BY <1>4, <1>8
<1>11. \A j, k \in 1 .. n : sorted[j] = sorted[k] => j = k
  BY <1>8
<1> QED BY <1>1, <1>6, <1>9, <1>10, <1>11 DEF n

\* The elements of a concatenation.
LEMMA ConcatRange ==
    ASSUME NEW X, NEW s \in Seq(X), NEW t \in Seq(X)
    PROVE  /\ s \o t \in Seq(X)
           /\ \A k \in DOMAIN s : (s \o t)[k] = s[k] /\ k \in DOMAIN (s \o t)
           /\ \A k \in DOMAIN t : (s \o t)[Len(s) + k] = t[k] /\ Len(s) + k \in DOMAIN (s \o t)
           /\ \A k \in DOMAIN (s \o t) :
                  \/ k \in DOMAIN s
                  \/ k > Len(s) /\ k - Len(s) \in DOMAIN t /\ (s \o t)[k] = t[k - Len(s)]
  OBVIOUS

\* The rest of a sequence.
LEMMA TailFacts ==
    ASSUME NEW X, NEW s \in Seq(X), s # <<>>
    PROVE  /\ Tail(s) \in Seq(X) /\ Head(s) \in X /\ Head(s) = s[1] /\ 1 \in DOMAIN s
           /\ \A k \in DOMAIN Tail(s) : k + 1 \in DOMAIN s /\ Tail(s)[k] = s[k + 1]
           /\ \A k \in DOMAIN s : k # 1 => k - 1 \in DOMAIN Tail(s) /\ Tail(s)[k - 1] = s[k]
  OBVIOUS

Item == [path : Path \cup {Root}, act : {"stat", "open"}]

\* No path twice.
Distinct(s) == \A j, k \in DOMAIN s : s[j].path = s[k].path => j = k

\* The head of old has been replaced by the items of front.
HeadReplaced(old, front, new) ==
    /\ new \in Seq(Item) /\ Distinct(new)
    /\ \A k \in DOMAIN new : \/ \E i \in DOMAIN front : new[k] = front[i]
                             \/ \E j \in DOMAIN old : j # 1 /\ new[k] = old[j]
    /\ \A i \in DOMAIN front : \E k \in DOMAIN new : new[k] = front[i]
    /\ \A j \in DOMAIN old : j # 1 => \E k \in DOMAIN new : new[k] = old[j]

\* The head of the walk's list is replaced by new items for other paths.
LEMMA ReplaceHead ==
    ASSUME NEW old, old \in Seq(Item), old # <<>>, NEW front, front \in Seq(Item),
           Distinct(old), Distinct(front),
           \A j \in DOMAIN old : \A k \in DOMAIN front : j # 1 => old[j].path # front[k].path
    PROVE  HeadReplaced(old, front, front \o Tail(old))
<1> PICK new : new = front \o Tail(old)
  OBVIOUS
<1>1. /\ Tail(old) \in Seq(Item)
      /\ \A k \in DOMAIN Tail(old) : k + 1 \in DOMAIN old /\ Tail(old)[k] = old[k + 1]
      /\ \A k \in DOMAIN old : k # 1 => k - 1 \in DOMAIN Tail(old) /\ Tail(old)[k - 1] = old[k]
  BY TailFacts
<1>2. PICK rest \in Seq(Item) : rest = Tail(old)
  BY <1>1
<1>3. /\ new \in Seq(Item)
      /\ \A k \in DOMAIN front : new[k] = front[k] /\ k \in DOMAIN new
      /\ \A k \in DOMAIN rest : new[Len(front) + k] = rest[k] /\ Len(front) + k \in DOMAIN new
      /\ \A k \in DOMAIN new :
             \/ k \in DOMAIN front
             \/ k > Len(front) /\ k - Len(front) \in DOMAIN rest /\ new[k] = rest[k - Len(front)]
  BY <1>2, ConcatRange
<1>4. /\ \A k \in DOMAIN front : k \in Nat \ {0}
      /\ \A k \in DOMAIN rest : k \in Nat \ {0}
      /\ \A k \in DOMAIN new : k \in Nat \ {0}
      /\ Len(front) \in Nat
  BY <1>2, <1>3
<1>5. ASSUME NEW k \in DOMAIN new
      PROVE  \/ k \in DOMAIN front /\ new[k] = front[k]
             \/ \E j \in DOMAIN old : j # 1 /\ new[k] = old[j] /\ j = k - Len(front) + 1
  BY <1>1, <1>2, <1>3, <1>4
<1>6. ASSUME NEW j \in DOMAIN old, j # 1 PROVE \E k \in DOMAIN new : new[k] = old[j]
  <2>1. j - 1 \in DOMAIN rest /\ rest[j - 1] = old[j]
    BY <1>1, <1>2, <1>6
  <2>2. new[Len(front) + (j - 1)] = old[j] /\ Len(front) + (j - 1) \in DOMAIN new
    BY <1>3, <2>1
  <2> QED BY <2>2
<1>7. ASSUME NEW j \in DOMAIN new, NEW k \in DOMAIN new, new[j].path = new[k].path
      PROVE  j = k
  <2>1. CASE j \in DOMAIN front /\ new[j] = front[j]
    BY <1>5, <1>7, <2>1 DEF Distinct
  <2>2. CASE \E i \in DOMAIN old : i # 1 /\ new[j] = old[i] /\ i = j - Len(front) + 1
    <3>1. PICK i \in DOMAIN old : i # 1 /\ new[j] = old[i] /\ i = j - Len(front) + 1
      BY <2>2
    <3>2. ~(k \in DOMAIN front /\ new[k] = front[k])
      BY <1>7, <3>1
    <3>3. PICK h \in DOMAIN old : h # 1 /\ new[k] = old[h] /\ h = k - Len(front) + 1
      BY <1>5, <3>2
    <3>4. h = i
      BY <1>7, <3>1, <3>3 DEF Distinct
    <3> QED BY <1>4, <3>1, <3>3, <3>4
  <2> QED BY <1>5, <2>1, <2>2
<1>8. \A k \in DOMAIN new : \/ \E i \in DOMAIN front : new[k] = front[i]
                            \/ \E j \in DOMAIN old : j # 1 /\ new[k] = old[j]
  BY <1>5
<1>9. \A i \in DOMAIN front : \E k \in DOMAIN new : new[k] = front[i]
  BY <1>3
<1>10. \A j \in DOMAIN old : j # 1 => \E k \in DOMAIN new : new[k] = old[j]
  BY <1>6
<1>11. \A j, k \in DOMAIN new : new[j].path = new[k].path => j = k
  BY <1>7
<1>12. new \in Seq(Item) /\ Distinct(new)
  BY <1>3, <1>11 DEF Distinct
<1>13. HeadReplaced(old, front, new)
  BY <1>8, <1>9, <1>10, <1>12, Zenon DEF HeadReplaced
<1> QED BY <1>13

\* The elements of a sequence without repetition are as many as its length.
LEMMA RangeCardinality ==
    ASSUME NEW X, NEW s \in Seq(X), \A j, k \in DOMAIN s : s[j] = s[k] => j = k
    PROVE  IsFiniteSet(Range(s)) /\ Cardinality(Range(s)) = Len(s) /\ Range(s) \subseteq X
<1>1. Len(s) \in Nat /\ DOMAIN s = 1 .. Len(s)
  OBVIOUS
<1>2. IsFiniteSet(1 .. Len(s)) /\ Cardinality(1 .. Len(s)) = Len(s)
  BY <1>1, FS_Interval
<1>3. s \in Bijection(1 .. Len(s), Range(s))
  BY <1>1 DEF Bijection, Injection, Surjection, IsInjective, Range
<1>4. ExistsBijection(1 .. Len(s), Range(s))
  BY <1>3 DEF ExistsBijection
<1>5. Range(s) \subseteq X
  BY DEF Range
<1> QED BY <1>2, <1>4, <1>5, FS_Bijection

---------------------------------------------------------------------------
(* The invariant of the scan.                                              *)

\* The invariant taken apart, with what the constants say.
LEMMA ScanFacts ==
    ASSUME ScanInv
    PROVE  /\ ScanTypes /\ TreeOK /\ ManifestsOK /\ WalkOK /\ DigestsOK
           /\ FrozenIsComplete /\ ReportedScanStands
           /\ Root \notin Path /\ Path \subseteq Nat /\ Dir \subseteq Path
           /\ IsFiniteSet(Path) /\ Parent \in [Path -> Dir \cup {Root}]
           /\ \A p \in Path : Exists(p) <=> tree[p] # 0
  BY ManifestAssumption DEF ScanInv, Exists

\* Before the first scan.
LEMMA ScanInvInit == ScanInit => ScanInv
<1> SUFFICES ASSUME ScanInit PROVE ScanInv
  OBVIOUS
<1>1. PICK none : none = NoManifest
  OBVIOUS
<1>2. /\ none \in [state : {"None", "Building", "Frozen"}, rows : SUBSET Row, digest : SUBSET Row]
      /\ none.state = "None" /\ none.rows = {} /\ none.digest = {}
  BY <1>1 DEF NoManifest
<1>3. /\ manifest = [m \in Manifest |-> none] /\ spc = "idle" /\ mid = 0 /\ reported = {}
      /\ todo = <<>> /\ pending = <<>> /\ asset_count = 0
  BY <1>1 DEF ScanInit
<1>4. ScanTypes
  <2>1. /\ manifest \in [Manifest -> [state : {"None", "Building", "Frozen"},
                                      rows : SUBSET Row, digest : SUBSET Row]]
        /\ \A m \in Manifest : IsFiniteSet(manifest[m].rows)
    BY <1>2, <1>3, FS_EmptySet
  <2>2. /\ todo \in Seq(Item) /\ pending \in Seq(Row) /\ Len(pending) = 0
    BY <1>3
  <2>3. /\ tree \in [Path -> Nat] /\ edits \in 0 .. MaxEdits /\ faults \in 0 .. MaxFaults
        /\ mid \in 0 .. MaxScans /\ 0 < BatchSize /\ untouched \subseteq Path
        /\ stable \in [Manifest -> SUBSET Row]
    BY <1>3, ManifestAssumption DEF ScanInit
  <2> QED BY <1>3, <2>1, <2>2, <2>3 DEF ScanTypes, Item
<1>5. TreeOK
  <2>1. \A p \in Path : tree[p] # 0 <=> p \in Present
    BY DEF ScanInit
  <2> QED BY <2>1, ManifestAssumption DEF TreeOK, Exists
<1>6. ManifestsOK /\ WalkOK /\ DigestsOK /\ FrozenIsComplete /\ ReportedScanStands
  BY <1>2, <1>3 DEF ManifestsOK, WalkOK, DigestsOK, FrozenIsComplete, ReportedScanStands, Frozen
<1> QED BY <1>4, <1>5, <1>6 DEF ScanInv

\* A step that leaves every frozen manifest alone, and freezes none, keeps what is said
\* about frozen manifests.
LEMMA FrozenKeeps ==
    ASSUME ScanInv, UNCHANGED <<stable, reported>>,
           \A m \in Manifest : \/ manifest'[m] = manifest[m]
                               \/ ~Frozen(m) /\ manifest'[m].state # "Frozen"
    PROVE  DigestsOK' /\ FrozenIsComplete' /\ ReportedScanStands'
<1>1. \A m \in Manifest : manifest'[m].state = "Frozen" => manifest'[m] = manifest[m]
  OBVIOUS
<1>2. DigestsOK'
  BY <1>1, ScanFacts DEF DigestsOK, Frozen
<1>3. FrozenIsComplete'
  BY <1>1, ScanFacts DEF FrozenIsComplete, Frozen, IsAsset
<1>4. ReportedScanStands'
  <2>1. ASSUME NEW r \in reported PROVE manifest'[r.manifest] = manifest[r.manifest]
    <3>1. r.manifest \in Manifest /\ manifest[r.manifest].state = "Frozen"
      BY <2>1, ScanFacts DEF ScanTypes, ReportedScanStands
    <3> QED BY <3>1 DEF Frozen
  <2> QED BY <2>1, ScanFacts DEF ReportedScanStands
<1> QED BY <1>2, <1>3, <1>4

\* The scan ends in the middle, by itself or with its process.
LEMMA ScanStops ==
    ASSUME ScanInv, ScanEnds, faults' \in 0 .. MaxFaults,
           UNCHANGED <<tree, edits, manifest, reported, untouched, stable>>
    PROVE  ScanInv'
<1>1. /\ spc' = "idle" /\ todo' = <<>> /\ pending' = <<>> /\ asset_count' = 0 /\ mid' = mid
      /\ tree' = tree /\ edits' = edits /\ manifest' = manifest /\ reported' = reported
      /\ untouched' = untouched /\ stable' = stable
  BY DEF ScanEnds
<1>2. ScanTypes'
  <2>1. /\ todo' \in Seq([path : Path \cup {Root}, act : {"stat", "open"}])
        /\ pending' \in Seq(Row) /\ Len(pending') = 0 /\ 0 < BatchSize
    BY <1>1, ManifestAssumption
  <2> QED BY <1>1, <2>1, ScanFacts DEF ScanTypes
<1>3. TreeOK' /\ ManifestsOK' /\ WalkOK'
  BY <1>1, ScanFacts DEF TreeOK, ManifestsOK, WalkOK, Exists
<1>4. DigestsOK' /\ FrozenIsComplete' /\ ReportedScanStands'
  BY <1>1, FrozenKeeps
<1> QED BY <1>2, <1>3, <1>4 DEF ScanInv

\* A new scan: the entries that exist are kept, nothing is opened.
LEMMA ScanBeginKeeps == ASSUME ScanInv, ScanBegin PROVE ScanInv'
<1>1. PICK fresh, first : fresh = [NoManifest EXCEPT !.state = "Building"]
                          /\ first = [path |-> Root, act |-> "open"]
  OBVIOUS
<1>2. /\ fresh \in [state : {"None", "Building", "Frozen"}, rows : SUBSET Row, digest : SUBSET Row]
      /\ fresh.state = "Building" /\ fresh.rows = {} /\ first.path = Root /\ first.act = "open"
      /\ first \in [path : Path \cup {Root}, act : {"stat", "open"}]
  BY <1>1 DEF NoManifest
<1>3. /\ spc = "idle" /\ mid' = mid + 1 /\ manifest' = [manifest EXCEPT ![mid'] = fresh]
      /\ asset_count' = 0 /\ pending' = <<>> /\ todo' = <<first>> /\ spc' = "walk"
      /\ untouched' = Path /\ tree' = tree /\ edits' = edits /\ reported' = reported
      /\ stable' = stable /\ faults' = faults
  BY <1>1 DEF ScanBegin
<1>4. mid' \in Manifest /\ mid' > mid /\ mid' \in 0 .. MaxScans /\ manifest[mid'].state = "None"
  <2>1. mid \in Nat /\ mid < MaxScans /\ MaxScans \in Nat
    BY ScanFacts, ManifestAssumption DEF ScanTypes, ScanBegin
  <2>2. mid' \in Manifest /\ mid' > mid /\ mid' \in 0 .. MaxScans
    BY <1>3, <2>1 DEF Manifest
  <2> QED BY <2>2, ScanFacts DEF ManifestsOK
<1>5. /\ manifest'[mid'] = fresh
      /\ \A m \in Manifest : m # mid' => manifest'[m] = manifest[m]
      /\ manifest' \in [Manifest -> [state : {"None", "Building", "Frozen"},
                                     rows : SUBSET Row, digest : SUBSET Row]]
  BY <1>2, <1>3, <1>4, ScanFacts DEF ScanTypes
<1>6. ScanTypes'
  <2>1. /\ todo' \in Seq([path : Path \cup {Root}, act : {"stat", "open"}])
        /\ pending' \in Seq(Row) /\ Len(pending') = 0 /\ 0 < BatchSize
    BY <1>2, <1>3, ManifestAssumption
  <2>2. \A m \in Manifest : IsFiniteSet(manifest'[m].rows)
    BY <1>2, <1>5, FS_EmptySet, ScanFacts DEF ScanTypes
  <2> QED BY <1>3, <1>4, <1>5, <2>1, <2>2, ScanFacts DEF ScanTypes
<1>7. TreeOK' /\ ManifestsOK'
  <2>1. TreeOK'
    BY <1>3, ScanFacts DEF TreeOK, Exists
  <2>2. \A m \in Manifest : m > mid' => m > mid /\ m # mid'
    BY <1>3, <1>4, ScanFacts DEF Manifest, ScanTypes
  <2> QED BY <1>2, <1>3, <1>4, <1>5, <2>1, <2>2, ScanFacts DEF ManifestsOK
<1>8. WalkOK'
  <2>1. PICK Kept, Opened : Kept = {p \in Path : tree[p] # 0} /\ Opened = {}
    OBVIOUS
  <2>2. /\ DOMAIN todo' = {1} /\ todo'[1] = first /\ Found' = {} /\ DOMAIN pending' = {}
    BY <1>2, <1>3, <1>5 DEF Found, Range
  <2>3. NothingMissed(Kept, Opened)'
    <3>1. /\ \A p \in untouched' : IsAsset(p)' /\ Exists(p)' => p \in Kept
          /\ \A p \in Kept : tree'[p] # 0 /\ Parent[p] \in Kept \cup {Root}
      BY <1>3, <2>1, ScanFacts DEF TreeOK, Exists
    <3>2. Waiting(Root, "open")'
      BY <1>1, <2>2 DEF Waiting
    <3> QED BY <2>1, <3>1, <3>2 DEF NothingMissed
  <2>4. NothingTwice(Opened)'
    BY <1>2, <2>1, <2>2 DEF NothingTwice
  <2>5. asset_count' = Cardinality(manifest'[mid'].rows)
    BY <1>2, <1>3, <1>5, FS_EmptySet
  <2> QED BY <2>1, <2>3, <2>4, <2>5 DEF WalkOK
<1>9. DigestsOK' /\ FrozenIsComplete' /\ ReportedScanStands'
  <2>1. \A m \in Manifest : \/ manifest'[m] = manifest[m]
                            \/ ~Frozen(m) /\ manifest'[m].state # "Frozen"
    BY <1>2, <1>4, <1>5 DEF Frozen
  <2> QED BY <1>3, <2>1, FrozenKeeps
<1> QED BY <1>6, <1>7, <1>8, <1>9 DEF ScanInv

\* Another program changes the source: an entry that is removed is not kept any longer.
LEMMA EditSourceKeeps ==
    ASSUME ScanInv, NEW p \in Path, EditSource(p) PROVE ScanInv'
<1>1. /\ spc # "idle" /\ edits' = edits + 1 /\ edits < MaxEdits /\ untouched' = untouched \ {p}
      /\ Exists(Parent[p]) /\ manifest' = manifest /\ reported' = reported /\ stable' = stable
      /\ faults' = faults /\ spc' = spc /\ mid' = mid /\ todo' = todo /\ pending' = pending
      /\ asset_count' = asset_count
  BY DEF EditSource, scanLocals
<1>2. edits \in Nat /\ edits + 2 \in Nat /\ edits + 2 # 0 /\ edits' \in 0 .. MaxEdits
  <2>1. edits \in 0 .. MaxEdits /\ MaxEdits \in Nat
    BY ScanFacts, ManifestAssumption DEF ScanTypes
  <2> QED BY <1>1, <2>1
<1>3. \/ tree' = [tree EXCEPT ![p] = edits + 2]
      \/ /\ \A q \in Path : Parent[q] = p => ~Exists(q)
         /\ tree' = [tree EXCEPT ![p] = 0]
  BY DEF EditSource
<1>4. /\ tree' \in [Path -> Nat] /\ \A q \in Path : q # p => tree'[q] = tree[q]
      /\ tree'[p] = 0 => \A q \in Path : Parent[q] = p => tree[q] = 0
  <2>1. tree \in [Path -> Nat] /\ \A q \in Path : Exists(q) <=> tree[q] # 0
    BY ScanFacts DEF ScanTypes
  <2>2. CASE tree' = [tree EXCEPT ![p] = edits + 2]
    BY <1>2, <2>1, <2>2
  <2>3. CASE /\ \A q \in Path : Parent[q] = p => ~Exists(q)
             /\ tree' = [tree EXCEPT ![p] = 0]
    <3>1. tree' \in [Path -> Nat] /\ \A q \in Path : q # p => tree'[q] = tree[q]
      BY <2>1, <2>3
    <3> QED BY <2>1, <2>3, <3>1
  <2> QED BY <1>3, <2>2, <2>3
<1>5. ScanTypes'
  BY <1>1, <1>2, <1>4, ScanFacts DEF ScanTypes
<1>6. TreeOK'
  <2> SUFFICES ASSUME NEW q \in Path, tree'[q] # 0, Parent[q] \in Path
               PROVE  tree'[Parent[q]] # 0
    BY DEF TreeOK, Exists
  <2>1. CASE Parent[q] = p
    <3>1. q # p => tree[q] # 0
      BY <1>4
    <3> QED BY <1>4, <2>1, <3>1
  <2>2. CASE Parent[q] # p
    <3>1. tree'[Parent[q]] = tree[Parent[q]]
      BY <1>4, <2>2
    <3>2. tree[Parent[q]] # 0
      BY <1>1, <1>4, ScanFacts DEF TreeOK, Exists
    <3> QED BY <3>1, <3>2
  <2> QED BY <2>1, <2>2
<1>7. ManifestsOK'
  BY <1>1, ScanFacts DEF ManifestsOK
<1>8. WalkOK'
  <2>1. PICK Kept \in SUBSET Path, Opened \in SUBSET (Path \cup {Root}) :
            NothingMissed(Kept, Opened) /\ NothingTwice(Opened)
    BY <1>1, ScanFacts DEF WalkOK
  <2>2. PICK Now : Now = IF tree'[p] = 0 THEN Kept \ {p} ELSE Kept
    OBVIOUS
  <2>3. Found' = Found /\ \A q : \A act : Waiting(q, act)' <=> Waiting(q, act)
    BY <1>1 DEF Found, Waiting
  <2>4. /\ Now \in SUBSET Kept /\ Now \in SUBSET Path
        /\ \A q \in Kept : q # p => q \in Now
        /\ tree'[p] # 0 => Now = Kept
        /\ tree'[p] = 0 => p \notin Now
    BY <2>2
  <2>5. NothingMissed(Now, Opened)'
    <3>1. \A q \in untouched' : IsAsset(q)' /\ Exists(q)' => q \in Now
      BY <1>1, <1>4, <2>1, <2>4, ScanFacts DEF NothingMissed, Exists, IsAsset, ScanTypes
    <3>2. ASSUME NEW q \in Now PROVE tree'[q] # 0 /\ Parent[q] \in Now \cup {Root}
      <4>1. tree[q] # 0 /\ Parent[q] \in Kept \cup {Root}
        BY <2>1, <2>4 DEF NothingMissed
      <4>2. tree'[q] # 0
        BY <1>4, <2>4, <4>1
      <4>3. Parent[q] = p => tree'[p] # 0
        BY <1>4, <2>4, <4>1
      <4> QED BY <2>4, <4>1, <4>2, <4>3
    <3>3. ASSUME NEW q \in Now, Parent[q] \in Opened
          PROVE  \/ Waiting(q, "stat")'
                 \/ q \in Dir /\ (q \in Opened \/ Waiting(q, "open")')
                 \/ q \notin Dir /\ (IsAsset(q)' /\ q \in untouched' => <<q, tree'[q]>> \in Found')
      <4>1. \/ Waiting(q, "stat")
            \/ q \in Dir /\ (q \in Opened \/ Waiting(q, "open"))
            \/ q \notin Dir /\ (IsAsset(q) /\ q \in untouched => <<q, tree[q]>> \in Found)
        BY <2>1, <2>4, <3>3 DEF NothingMissed
      <4>2. q \in untouched' => q \in untouched /\ tree'[q] = tree[q]
        BY <1>1, <1>4, <2>4
      <4> QED BY <2>3, <4>1, <4>2 DEF IsAsset
    <3>4. Root \in Opened \/ Waiting(Root, "open")'
      BY <2>1, <2>3 DEF NothingMissed
    <3> QED BY <3>1, <3>2, <3>3, <3>4 DEF NothingMissed
  <2>6. NothingTwice(Opened)'
    BY <1>1, <2>1, <2>3 DEF NothingTwice, IsAsset
  <2>7. asset_count' = Cardinality(manifest'[mid'].rows)
    BY <1>1, ScanFacts DEF WalkOK
  <2> QED BY <2>1, <2>4, <2>5, <2>6, <2>7 DEF WalkOK
<1>9. DigestsOK' /\ FrozenIsComplete' /\ ReportedScanStands'
  BY <1>1, FrozenKeeps
<1> QED BY <1>5, <1>6, <1>7, <1>8, <1>9 DEF ScanInv

\* A flush puts the rows of the batch into the manifest of the scan and nothing else.
LEMMA FlushFacts ==
    ASSUME ScanInv, spc # "idle", NEW batch \in Seq(Row),
           \A j, k \in DOMAIN batch : batch[j] = batch[k] => j = k,
           \A k \in DOMAIN batch : batch[k] \notin manifest[mid].rows,
           NEW new, new = Flushed(batch)
    PROVE  /\ mid \in Manifest /\ manifest[mid].state = "Building"
           /\ new \in [Manifest -> [state : {"None", "Building", "Frozen"},
                                    rows : SUBSET Row, digest : SUBSET Row]]
           /\ \A m \in Manifest : IsFiniteSet(new[m].rows)
           /\ \A m \in Manifest : m # mid => new[m] = manifest[m]
           /\ new[mid].state = "Building"
           /\ new[mid].rows = manifest[mid].rows \cup Range(batch)
           /\ Cardinality(new[mid].rows) = asset_count + Len(batch)
<1>1. /\ mid \in Manifest /\ manifest[mid].state = "Building"
      /\ manifest \in [Manifest -> [state : {"None", "Building", "Frozen"},
                                    rows : SUBSET Row, digest : SUBSET Row]]
      /\ \A m \in Manifest : IsFiniteSet(manifest[m].rows)
      /\ asset_count = Cardinality(manifest[mid].rows)
  BY ScanFacts DEF ScanTypes, ManifestsOK, WalkOK
<1>2. /\ IsFiniteSet(Range(batch)) /\ Cardinality(Range(batch)) = Len(batch)
      /\ Range(batch) \subseteq Row
  BY RangeCardinality
<1>3. PICK row : row = [manifest[mid] EXCEPT !.rows = manifest[mid].rows \cup Range(batch)]
  OBVIOUS
<1>4. /\ row \in [state : {"None", "Building", "Frozen"}, rows : SUBSET Row, digest : SUBSET Row]
      /\ row.state = "Building" /\ row.rows = manifest[mid].rows \cup Range(batch)
  BY <1>1, <1>2, <1>3
<1>5. new = [manifest EXCEPT ![mid] = row]
  BY <1>1, <1>3 DEF Flushed
<1>6. /\ new \in [Manifest -> [state : {"None", "Building", "Frozen"},
                               rows : SUBSET Row, digest : SUBSET Row]]
      /\ \A m \in Manifest : m # mid => new[m] = manifest[m]
      /\ new[mid] = row
  BY <1>1, <1>4, <1>5
<1>7. IsFiniteSet(row.rows) /\ Cardinality(row.rows) = asset_count + Len(batch)
  <2>1. manifest[mid].rows \cap Range(batch) = {}
    BY DEF Range
  <2>2. IsFiniteSet(manifest[mid].rows)
    BY <1>1
  <2>3. /\ IsFiniteSet(row.rows)
        /\ Cardinality(row.rows) = Cardinality(manifest[mid].rows) + Cardinality(Range(batch))
                                   - Cardinality(manifest[mid].rows \cap Range(batch))
    BY <1>2, <1>4, <2>2, FS_Union
  <2>4. Cardinality(manifest[mid].rows \cap Range(batch)) = 0
    BY <2>1, FS_EmptySet, Zenon
  <2>5. /\ Cardinality(manifest[mid].rows) \in Nat /\ Cardinality(Range(batch)) \in Nat
    BY <1>2, <2>2, FS_CardinalityType
  <2> QED BY <1>1, <1>2, <2>3, <2>4, <2>5
<1> QED BY <1>1, <1>4, <1>6, <1>7

\* The walk has reached its end; the last batch is flushed.
LEMMA FreezeFlushKeeps == ASSUME ScanInv, FreezeFlush PROVE ScanInv'
<1>1. /\ spc = "walk" /\ todo = <<>> /\ spc' = "freeze" /\ manifest' = Flushed(pending)
      /\ pending' = <<>> /\ asset_count' = asset_count + Len(pending) /\ tree' = tree
      /\ edits' = edits /\ mid' = mid /\ todo' = todo /\ reported' = reported
      /\ untouched' = untouched /\ stable' = stable /\ faults' = faults
  BY DEF FreezeFlush
<1>2. PICK Kept \in SUBSET Path, Opened \in SUBSET (Path \cup {Root}) :
          NothingMissed(Kept, Opened) /\ NothingTwice(Opened)
  BY <1>1, ScanFacts DEF WalkOK
<1>3. /\ pending \in Seq(Row) /\ Len(pending) \in Nat /\ asset_count \in Nat
      /\ \A j, k \in DOMAIN pending : pending[j] = pending[k] => j = k
      /\ \A k \in DOMAIN pending : pending[k] \notin manifest[mid].rows
  BY <1>2, ScanFacts DEF NothingTwice, ScanTypes
<1>4. /\ mid \in Manifest /\ manifest[mid].state = "Building"
      /\ manifest' \in [Manifest -> [state : {"None", "Building", "Frozen"},
                                     rows : SUBSET Row, digest : SUBSET Row]]
      /\ \A m \in Manifest : IsFiniteSet(manifest'[m].rows)
      /\ \A m \in Manifest : m # mid => manifest'[m] = manifest[m]
      /\ manifest'[mid].state = "Building"
      /\ manifest'[mid].rows = manifest[mid].rows \cup Range(pending)
      /\ Cardinality(manifest'[mid].rows) = asset_count'
  BY <1>1, <1>3, FlushFacts
<1>5. ScanTypes'
  <2>1. pending' \in Seq(Row) /\ Len(pending') = 0 /\ 0 < BatchSize /\ asset_count' \in Nat
    BY <1>1, <1>3, ManifestAssumption
  <2> QED BY <1>1, <1>4, <2>1, ScanFacts DEF ScanTypes
<1>6. TreeOK' /\ ManifestsOK'
  <2>1. mid \in Nat /\ \A m \in Manifest : m \in Nat
    BY ScanFacts DEF ScanTypes, Manifest
  <2>2. \A m \in Manifest : m > mid => m # mid
    BY <2>1
  <2> QED BY <1>1, <1>4, <2>2, ScanFacts DEF TreeOK, Exists, ManifestsOK
<1>7. WalkOK'
  <2>1. Found' = Found /\ DOMAIN pending' = {}
    BY <1>1, <1>4 DEF Found, Range
  <2>2. \A q : \A act : Waiting(q, act)' <=> Waiting(q, act)
    BY <1>1 DEF Waiting
  <2>3. NothingMissed(Kept, Opened)'
    BY <1>1, <1>2, <2>1, <2>2 DEF NothingMissed, IsAsset, Exists
  <2>4. NothingTwice(Opened)'
    BY <1>1, <1>2, <2>1 DEF NothingTwice, IsAsset
  <2> QED BY <1>1, <1>4, <2>3, <2>4 DEF WalkOK
<1>8. DigestsOK' /\ FrozenIsComplete' /\ ReportedScanStands'
  <2>1. \A m \in Manifest : \/ manifest'[m] = manifest[m]
                            \/ ~Frozen(m) /\ manifest'[m].state # "Frozen"
    BY <1>4 DEF Frozen
  <2> QED BY <1>1, <2>1, FrozenKeeps
<1> QED BY <1>5, <1>6, <1>7, <1>8 DEF ScanInv

\* At the end of the walk no kept entry is in a directory that was not opened: those that
\* are would be closed under Parent.
LEMMA WalkIsComplete ==
    ASSUME ScanInv, todo = <<>>, pending = <<>>, NEW Kept \in SUBSET Path, NEW Opened,
           NothingMissed(Kept, Opened)
    PROVE  \A p \in untouched : IsAsset(p) /\ Exists(p) => <<p, Identity(p)>> \in manifest[mid].rows
<1>1. \A q : \A act : ~Waiting(q, act)
  BY DEF Waiting
<1>2. /\ \A p \in Kept : Parent[p] \in Kept \cup {Root}
      /\ \A p \in Kept : Parent[p] \in Opened =>
             \/ p \in Dir /\ p \in Opened
             \/ p \notin Dir /\ (IsAsset(p) /\ p \in untouched => <<p, tree[p]>> \in Found)
      /\ Root \in Opened
  BY <1>1 DEF NothingMissed
<1>3. PICK S : S = {p \in Kept : Parent[p] \notin Opened}
  OBVIOUS
<1>4. ASSUME NEW p \in S PROVE Parent[p] \in S
  <2>1. Parent[p] \in Kept /\ Parent[p] \in Dir /\ Parent[p] \notin Opened
    BY <1>2, <1>3, <1>4, ScanFacts
  <2> QED BY <1>2, <1>3, <2>1
<1>5. S = {}
  <2>1. S \in SUBSET Path
    BY <1>3
  <2> QED BY <1>4, <2>1, ManifestAssumption
<1>6. Found = manifest[mid].rows
  BY DEF Found, Range
<1>7. \A p \in untouched : IsAsset(p) /\ Exists(p) => p \in Kept
  BY DEF NothingMissed
<1> QED BY <1>2, <1>3, <1>5, <1>6, <1>7 DEF IsAsset, Identity

\* The manifest is frozen: it lists what stood still, and what it says was printed.
LEMMA FreezeKeeps == ASSUME ScanInv, Freeze PROVE ScanInv'
<1>1. PICK row, line :
          /\ row = [manifest[mid] EXCEPT !.state = "Frozen", !.digest = manifest[mid].rows]
          /\ line = [manifest |-> mid, count |-> asset_count, digest |-> manifest[mid].rows]
  OBVIOUS
<1>2. PICK still : still = {<<p, Identity(p)>> : p \in {q \in untouched : IsAsset(q) /\ Exists(q)}}
  OBVIOUS
<1>3. /\ mid \in Manifest /\ manifest[mid].state = "Building" /\ todo = <<>> /\ pending = <<>>
      /\ asset_count = Cardinality(manifest[mid].rows) /\ asset_count \in Nat
      /\ manifest \in [Manifest -> [state : {"None", "Building", "Frozen"},
                                    rows : SUBSET Row, digest : SUBSET Row]]
      /\ \A m \in Manifest : IsFiniteSet(manifest[m].rows)
  BY ScanFacts DEF ScanTypes, ManifestsOK, WalkOK, Freeze
<1>4. /\ spc = "freeze" /\ spc' = "idle" /\ manifest' = [manifest EXCEPT ![mid] = row]
      /\ reported' = reported \cup {line} /\ stable' = [stable EXCEPT ![mid] = still]
      /\ tree' = tree /\ edits' = edits /\ mid' = mid /\ todo' = todo /\ pending' = pending
      /\ asset_count' = asset_count /\ untouched' = untouched /\ faults' = faults
  <2>1. manifest' = [manifest EXCEPT ![mid] = row]
    BY <1>1, <1>3 DEF Freeze, ComputeManifestDigest
  <2> QED BY <1>1, <1>2, <2>1 DEF Freeze, ComputeManifestDigest
<1>5. /\ row \in [state : {"None", "Building", "Frozen"}, rows : SUBSET Row, digest : SUBSET Row]
      /\ row.state = "Frozen" /\ row.rows = manifest[mid].rows /\ row.digest = manifest[mid].rows
      /\ line \in [manifest : Manifest, count : Nat, digest : SUBSET Row]
      /\ line.manifest = mid /\ line.count = asset_count /\ line.digest = manifest[mid].rows
  BY <1>1, <1>3
<1>6. /\ manifest' \in [Manifest -> [state : {"None", "Building", "Frozen"},
                                     rows : SUBSET Row, digest : SUBSET Row]]
      /\ \A m \in Manifest : m # mid => manifest'[m] = manifest[m]
      /\ manifest'[mid] = row
  BY <1>3, <1>4, <1>5
<1>7. /\ still \in SUBSET manifest[mid].rows
      /\ \A r, s \in manifest[mid].rows : r[1] = s[1] => r = s
      /\ \A r \in manifest[mid].rows : IsAsset(r[1])
  <2>1. PICK Kept \in SUBSET Path, Opened \in SUBSET (Path \cup {Root}) :
            NothingMissed(Kept, Opened) /\ NothingTwice(Opened)
    BY <1>4, ScanFacts DEF WalkOK
  <2>2. still \in SUBSET manifest[mid].rows
    BY <1>2, <1>3, <2>1, WalkIsComplete
  <2>3. manifest[mid].rows \subseteq Found
    BY DEF Found
  <2> QED BY <2>1, <2>2, <2>3 DEF NothingTwice
<1>8. /\ stable' \in [Manifest -> SUBSET Row] /\ stable'[mid] = still
      /\ \A m \in Manifest : m # mid => stable'[m] = stable[m]
  <2>1. stable \in [Manifest -> SUBSET Row]
    BY ScanFacts DEF ScanTypes
  <2>2. still \in SUBSET Row
    BY <1>3, <1>7
  <2> QED BY <1>3, <1>4, <2>1, <2>2
<1>9. ScanTypes'
  <2>1. \A m \in Manifest : IsFiniteSet(manifest'[m].rows)
    BY <1>3, <1>5, <1>6
  <2>2. reported' \subseteq [manifest : Manifest, count : Nat, digest : SUBSET Row]
    BY <1>4, <1>5, ScanFacts DEF ScanTypes
  <2> QED BY <1>4, <1>6, <1>8, <2>1, <2>2, ScanFacts DEF ScanTypes
<1>10. TreeOK' /\ ManifestsOK' /\ WalkOK'
  <2>1. mid \in Nat /\ \A m \in Manifest : m \in Nat
    BY ScanFacts DEF ScanTypes, Manifest
  <2>2. \A m \in Manifest : m > mid => m # mid
    BY <2>1
  <2> QED BY <1>3, <1>4, <1>6, <2>2, ScanFacts DEF TreeOK, Exists, ManifestsOK, WalkOK
<1>11. DigestsOK'
  BY <1>5, <1>6, ScanFacts DEF DigestsOK, Frozen
<1>12. FrozenIsComplete'
  <2> SUFFICES ASSUME NEW m \in Manifest, manifest'[m].state = "Frozen"
               PROVE  /\ stable'[m] \subseteq manifest'[m].rows
                      /\ \A r, s \in manifest'[m].rows : r[1] = s[1] => r = s
                      /\ \A r \in manifest'[m].rows : IsAsset(r[1])
    BY DEF FrozenIsComplete, Frozen, IsAsset
  <2>1. CASE m = mid
    BY <1>5, <1>6, <1>7, <1>8, <2>1
  <2>2. CASE m # mid
    BY <1>6, <1>8, <2>2, ScanFacts DEF FrozenIsComplete, Frozen
  <2> QED BY <2>1, <2>2
<1>13. ReportedScanStands'
  <2> SUFFICES ASSUME NEW r \in reported'
               PROVE  /\ manifest'[r.manifest].state = "Frozen"
                      /\ manifest'[r.manifest].digest = r.digest
                      /\ manifest'[r.manifest].rows = r.digest
                      /\ Cardinality(manifest'[r.manifest].rows) = r.count
    BY DEF ReportedScanStands
  <2>1. CASE r = line
    BY <1>3, <1>5, <1>6, <2>1
  <2>2. CASE r \in reported
    <3>1. r.manifest \in Manifest /\ manifest[r.manifest].state = "Frozen"
      BY <2>2, ScanFacts DEF ScanTypes, ReportedScanStands
    <3>2. manifest'[r.manifest] = manifest[r.manifest]
      BY <1>3, <1>6, <3>1
    <3> QED BY <2>2, <3>2, ScanFacts DEF ReportedScanStands
  <2> QED BY <1>4, <2>1, <2>2
<1> QED BY <1>9, <1>10, <1>11, <1>12, <1>13 DEF ScanInv

\* A directory is opened, and what it lists waits from now on.
LEMMA OpenDirectoryKeeps == ASSUME ScanInv, OpenDirectory PROVE ScanInv'
<1>1. PICK d, listing : d = Head(todo).path /\ listing = Listing(d)
  OBVIOUS
<1>2. /\ spc = "walk" /\ todo # <<>> /\ Head(todo).act = "open" /\ todo' = listing \o Tail(todo)
      /\ tree' = tree /\ edits' = edits /\ manifest' = manifest /\ spc' = spc /\ mid' = mid
      /\ pending' = pending /\ asset_count' = asset_count /\ reported' = reported
      /\ untouched' = untouched /\ stable' = stable /\ faults' = faults
  BY <1>1 DEF OpenDirectory
<1>3. PICK Kept \in SUBSET Path, Opened \in SUBSET (Path \cup {Root}) :
          NothingMissed(Kept, Opened) /\ NothingTwice(Opened)
  BY <1>2, ScanFacts DEF WalkOK
<1>4. /\ todo \in Seq(Item) /\ 1 \in DOMAIN todo /\ todo[1] = Head(todo)
      /\ todo[1].path = d /\ todo[1].act = "open" /\ d \in Path \cup {Root}
  <2>1. todo \in Seq(Item)
    BY ScanFacts DEF ScanTypes, Item
  <2>2. Head(todo) \in Item /\ Head(todo) = todo[1] /\ 1 \in DOMAIN todo
    BY <1>2, <2>1, TailFacts
  <2> QED BY <1>1, <1>2, <2>1, <2>2 DEF Item
\* what is waiting before the step
<1>5. /\ \A p \in Opened : p = Root \/ Parent[p] \in Opened
      /\ \A k \in DOMAIN todo :
             /\ todo[k].path \notin Opened
             /\ todo[k].path # Root => Parent[todo[k].path] \in Opened
             /\ todo[k].path = Root => todo[k].act = "open"
             /\ \A r \in Found : r[1] # todo[k].path
             /\ \A j \in DOMAIN todo : todo[j].path = todo[k].path => j = k
      /\ \A r \in Found : IsAsset(r[1]) /\ Parent[r[1]] \in Opened
      /\ \A r, s \in Found : r[1] = s[1] => r = s
      /\ \A k \in DOMAIN pending : /\ pending[k] \notin manifest[mid].rows
                                   /\ \A j \in DOMAIN pending : pending[j] = pending[k] => j = k
  BY <1>3 DEF NothingTwice
<1>6. d \notin Opened /\ (d # Root => Parent[d] \in Opened /\ Parent[d] # d)
  <2>1. d \notin Opened /\ (d # Root => Parent[d] \in Opened)
    BY <1>4, <1>5
  <2> QED BY <2>1
\* the listing
<1>7. /\ listing \in Seq(Item)
      /\ \A k \in DOMAIN listing :
             /\ listing[k].act = "stat" /\ listing[k].path \in Path
             /\ Parent[listing[k].path] = d
      /\ \A p \in Path : Parent[p] = d /\ tree[p] # 0 =>
             \E k \in DOMAIN listing : listing[k] = [path |-> p, act |-> "stat"]
      /\ \A j, k \in DOMAIN listing : listing[j].path = listing[k].path => j = k
  <2>1. PICK S, key, names : /\ S = {p \in Path : Parent[p] = d /\ Exists(p)}
                             /\ key = [p \in Path |-> p] /\ names = SortedBy(S, key)
    OBVIOUS
  <2>2. IsFiniteSet(S)
    <3>1. S \in SUBSET Path
      BY <2>1
    <3> QED BY <3>1, ScanFacts, FS_Subset
  <2>3. /\ \A x \in S : key[x] \in Nat
        /\ \A x, y \in S : key[x] = key[y] => x = y
    BY <2>1, ScanFacts
  <2>4. PICK n : n = Cardinality(S)
    OBVIOUS
  <2>5. /\ n \in Nat /\ names \in [1 .. n -> S]
        /\ \A x \in S : \E k \in 1 .. n : names[k] = x
        /\ \A j, k \in 1 .. n : names[j] = names[k] => j = k
    <3>1. /\ Cardinality(S) \in Nat
          /\ SortedBy(S, key) \in [1 .. Cardinality(S) -> S]
          /\ \A x \in S : \E k \in 1 .. Cardinality(S) : SortedBy(S, key)[k] = x
          /\ \A j, k \in 1 .. Cardinality(S) :
                 SortedBy(S, key)[j] = SortedBy(S, key)[k] => j = k
      BY <2>2, <2>3, SortedByFacts, Zenon
    <3> QED BY <2>1, <2>4, <3>1
  <2>6. listing = [k \in 1 .. n |-> [path |-> names[k], act |-> "stat"]]
    <3>1. DOMAIN names = 1 .. n
      BY <2>5
    <3> QED BY <1>1, <2>1, <3>1 DEF Listing
  <2>7. \A k \in 1 .. n : names[k] \in Path /\ Parent[names[k]] = d
    BY <2>1, <2>5
  <2>8. listing \in Seq(Item) /\ DOMAIN listing = 1 .. n
    BY <2>5, <2>6, <2>7 DEF Item
  <2>9. \A k \in 1 .. n : listing[k].act = "stat" /\ listing[k].path = names[k]
    BY <2>6
  <2>10. ASSUME NEW p \in Path, Parent[p] = d, tree[p] # 0
         PROVE  \E k \in 1 .. n : listing[k] = [path |-> p, act |-> "stat"]
    <3>1. p \in S
      BY <2>1, <2>10, ScanFacts
    <3>2. PICK k \in 1 .. n : names[k] = p
      BY <2>5, <3>1
    <3> QED BY <2>6, <3>2
  <2> QED BY <2>5, <2>7, <2>8, <2>9, <2>10
<1>8. \A j \in DOMAIN todo : \A k \in DOMAIN listing : j # 1 => todo[j].path # listing[k].path
  BY <1>5, <1>6, <1>7, ScanFacts
<1>9. /\ todo' \in Seq(Item)
      /\ \A k \in DOMAIN todo' : \/ \E i \in DOMAIN listing : todo'[k] = listing[i]
                                 \/ \E j \in DOMAIN todo : j # 1 /\ todo'[k] = todo[j]
      /\ \A i \in DOMAIN listing : \E k \in DOMAIN todo' : todo'[k] = listing[i]
      /\ \A j \in DOMAIN todo : j # 1 => \E k \in DOMAIN todo' : todo'[k] = todo[j]
      /\ \A j, k \in DOMAIN todo' : todo'[j].path = todo'[k].path => j = k
  <2>1. Distinct(todo) /\ Distinct(listing)
    BY <1>5, <1>7 DEF Distinct
  <2>2. HeadReplaced(todo, listing, listing \o Tail(todo))
    BY <1>2, <1>4, <1>7, <1>8, <2>1, ReplaceHead
  <2> QED BY <1>2, <2>2 DEF HeadReplaced, Distinct
<1>10. ScanTypes'
  BY <1>2, <1>9, ScanFacts DEF ScanTypes, Item
<1>11. TreeOK' /\ ManifestsOK'
  BY <1>2, ScanFacts DEF TreeOK, Exists, ManifestsOK
<1>12. WalkOK'
  <2>1. PICK Now : Now = Opened \cup {d}
    OBVIOUS
  <2>2. Found' = Found
    BY <1>2 DEF Found
  <2>3. \A q : \A act : Waiting(q, act) => Waiting(q, act)' \/ (q = d /\ act = "open")
    <3> SUFFICES ASSUME NEW q, NEW act, NEW k \in DOMAIN todo,
                        todo[k] = [path |-> q, act |-> act], ~(q = d /\ act = "open")
                 PROVE  \E i \in DOMAIN todo' : todo'[i] = [path |-> q, act |-> act]
      BY DEF Waiting
    <3>1. k # 1
      BY <1>4
    <3> QED BY <1>9, <3>1
  <2>4. NothingMissed(Kept, Now)'
    <3>1. /\ \A p \in untouched' : IsAsset(p)' /\ Exists(p)' => p \in Kept
          /\ \A p \in Kept : tree'[p] # 0 /\ Parent[p] \in Kept \cup {Root}
      BY <1>2, <1>3 DEF NothingMissed, IsAsset, Exists
    <3>2. ASSUME NEW p \in Kept, Parent[p] \in Now
          PROVE  \/ Waiting(p, "stat")'
                 \/ p \in Dir /\ (p \in Now \/ Waiting(p, "open")')
                 \/ p \notin Dir /\ (IsAsset(p)' /\ p \in untouched' => <<p, tree'[p]>> \in Found')
      <4>1. CASE Parent[p] = d
        <5>1. tree[p] # 0 /\ p \in Path
          BY <1>3 DEF NothingMissed
        <5>2. PICK i \in DOMAIN listing : listing[i] = [path |-> p, act |-> "stat"]
          BY <1>7, <4>1, <5>1
        <5> QED BY <1>9, <5>2 DEF Waiting
      <4>2. CASE Parent[p] \in Opened
        <5>1. \/ Waiting(p, "stat")
              \/ p \in Dir /\ (p \in Opened \/ Waiting(p, "open"))
              \/ p \notin Dir /\ (IsAsset(p) /\ p \in untouched => <<p, tree[p]>> \in Found)
          BY <1>3, <4>2 DEF NothingMissed
        <5> QED BY <1>2, <2>1, <2>2, <2>3, <5>1 DEF IsAsset
      <4> QED BY <2>1, <3>2, <4>1, <4>2
    <3>3. Root \in Now \/ Waiting(Root, "open")'
      BY <1>3, <2>1, <2>3 DEF NothingMissed
    <3> QED BY <3>1, <3>2, <3>3 DEF NothingMissed
  <2>5. NothingTwice(Now)'
    <3>1. \A p \in Now : p = Root \/ Parent[p] \in Now
      BY <1>5, <1>6, <2>1
    <3>2. ASSUME NEW k \in DOMAIN todo'
          PROVE  /\ todo'[k].path \notin Now
                 /\ todo'[k].path # Root => Parent[todo'[k].path] \in Now
                 /\ todo'[k].path = Root => todo'[k].act = "open"
                 /\ \A r \in Found' : r[1] # todo'[k].path
      <4>1. CASE \E i \in DOMAIN listing : todo'[k] = listing[i]
        <5>1. PICK q : q = todo'[k].path /\ q \in Path /\ Parent[q] = d
          BY <1>7, <4>1
        <5>2. q # Root /\ q \notin Opened /\ q # d
          BY <1>5, <1>6, <5>1, ScanFacts
        <5>3. \A r \in Found : r[1] # q
          BY <1>5, <1>6, <5>1
        <5> QED BY <2>1, <2>2, <5>1, <5>2, <5>3
      <4>2. CASE \E j \in DOMAIN todo : j # 1 /\ todo'[k] = todo[j]
        <5>1. PICK j \in DOMAIN todo : j # 1 /\ todo'[k] = todo[j]
          BY <4>2
        <5>2. todo[j].path # d
          BY <1>4, <1>5, <5>1
        <5> QED BY <1>5, <2>1, <2>2, <5>1, <5>2
      <4> QED BY <1>9, <4>1, <4>2
    <3>3. \A r \in Found' : IsAsset(r[1])' /\ Parent[r[1]] \in Now
      BY <1>5, <2>1, <2>2 DEF IsAsset
    <3> QED BY <1>2, <1>5, <1>9, <2>2, <3>1, <3>2, <3>3 DEF NothingTwice
  <2>6. Now \in SUBSET (Path \cup {Root})
    BY <1>4, <2>1
  <2>7. asset_count' = Cardinality(manifest'[mid'].rows)
    BY <1>2, ScanFacts DEF WalkOK
  <2> QED BY <2>4, <2>5, <2>6, <2>7 DEF WalkOK
<1>13. DigestsOK' /\ FrozenIsComplete' /\ ReportedScanStands'
  BY <1>2, FrozenKeeps
<1> QED BY <1>10, <1>11, <1>12, <1>13 DEF ScanInv

\* An entry is looked at: a directory waits to be opened, an asset gets its row.
LEMMA VisitEntryKeeps == ASSUME ScanInv, VisitEntry PROVE ScanInv'
<1>1. PICK p, row, front, batch :
          /\ p = Head(todo).path /\ row = <<p, Identity(p)>>
          /\ front = (IF p \in Dir THEN <<[path |-> p, act |-> "open"]>> ELSE <<>>)
          /\ batch = IF IsAsset(p) THEN Append(pending, row) ELSE pending
  OBVIOUS
<1>2. /\ spc = "walk" /\ todo # <<>> /\ Head(todo).act = "stat" /\ Exists(p)
      /\ todo' = front \o Tail(todo) /\ tree' = tree /\ edits' = edits /\ spc' = spc
      /\ mid' = mid /\ reported' = reported /\ untouched' = untouched /\ stable' = stable
      /\ faults' = faults
  BY <1>1 DEF VisitEntry
<1>3. \/ /\ manifest' = Flushed(batch) /\ pending' = <<>>
         /\ asset_count' = asset_count + Len(batch)
      \/ /\ ~(Len(batch) >= BatchSize /\ IsAsset(p))
         /\ pending' = batch /\ manifest' = manifest /\ asset_count' = asset_count
  BY <1>1 DEF VisitEntry
<1>4. PICK Kept \in SUBSET Path, Opened \in SUBSET (Path \cup {Root}) :
          NothingMissed(Kept, Opened) /\ NothingTwice(Opened)
  BY <1>2, ScanFacts DEF WalkOK
\* the entry at the head
<1>5. /\ todo \in Seq(Item) /\ 1 \in DOMAIN todo /\ todo[1] = Head(todo)
      /\ todo[1].path = p /\ todo[1].act = "stat" /\ p \in Path \cup {Root}
  <2>1. todo \in Seq(Item)
    BY ScanFacts DEF ScanTypes, Item
  <2>2. Head(todo) \in Item /\ Head(todo) = todo[1] /\ 1 \in DOMAIN todo
    BY <1>2, <2>1, TailFacts
  <2> QED BY <1>1, <1>2, <2>1, <2>2 DEF Item
<1>6. /\ \A q \in Opened : q = Root \/ Parent[q] \in Opened
      /\ \A k \in DOMAIN todo :
             /\ todo[k].path \notin Opened
             /\ todo[k].path # Root => Parent[todo[k].path] \in Opened
             /\ todo[k].path = Root => todo[k].act = "open"
             /\ \A r \in Found : r[1] # todo[k].path
             /\ \A j \in DOMAIN todo : todo[j].path = todo[k].path => j = k
      /\ \A r \in Found : IsAsset(r[1]) /\ Parent[r[1]] \in Opened
      /\ \A r, s \in Found : r[1] = s[1] => r = s
      /\ \A k \in DOMAIN pending : /\ pending[k] \notin manifest[mid].rows
                                   /\ \A j \in DOMAIN pending : pending[j] = pending[k] => j = k
  BY <1>4 DEF NothingTwice
<1>7. /\ p \in Path /\ p # Root /\ p \notin Opened /\ Parent[p] \in Opened
      /\ \A r \in Found : r[1] # p
      /\ \A k \in DOMAIN todo : k # 1 => todo[k].path # p
  <2>1. p # Root
    BY <1>5, <1>6
  <2> QED BY <1>5, <1>6, <2>1
<1>8. row \in Row /\ row[1] = p /\ row[2] = tree[p] /\ row = <<p, tree[p]>>
  BY <1>1, <1>7, ScanFacts DEF Identity, Row, ScanTypes
\* the items in front
<1>9. /\ front \in Seq(Item) /\ Distinct(front)
      /\ \A k \in DOMAIN front : front[k].path = p /\ front[k].act = "open" /\ p \in Dir
      /\ p \in Dir => \E k \in DOMAIN front : front[k] = [path |-> p, act |-> "open"]
  <2>1. PICK item : item = [path |-> p, act |-> "open"]
    OBVIOUS
  <2>2. item \in Item /\ item.path = p /\ item.act = "open"
    BY <1>7, <2>1 DEF Item
  <2>3. CASE p \in Dir
    <3>1. front = <<item>>
      BY <1>1, <2>1, <2>3
    <3>2. front \in Seq(Item) /\ DOMAIN front = {1} /\ front[1] = item
      BY <2>2, <3>1
    <3> QED BY <2>1, <2>2, <2>3, <3>2 DEF Distinct
  <2>4. CASE p \notin Dir
    <3>1. front = <<>>
      BY <1>1, <2>4
    <3>2. front \in Seq(Item) /\ DOMAIN front = {}
      BY <3>1
    <3> QED BY <2>4, <3>2 DEF Distinct
  <2> QED BY <2>3, <2>4
<1>10. /\ todo' \in Seq(Item)
       /\ \A k \in DOMAIN todo' : \/ \E i \in DOMAIN front : todo'[k] = front[i]
                                  \/ \E j \in DOMAIN todo : j # 1 /\ todo'[k] = todo[j]
       /\ \A i \in DOMAIN front : \E k \in DOMAIN todo' : todo'[k] = front[i]
       /\ \A j \in DOMAIN todo : j # 1 => \E k \in DOMAIN todo' : todo'[k] = todo[j]
       /\ \A j, k \in DOMAIN todo' : todo'[j].path = todo'[k].path => j = k
  <2>1. Distinct(todo)
    BY <1>6 DEF Distinct
  <2>2. \A j \in DOMAIN todo : \A k \in DOMAIN front : j # 1 => todo[j].path # front[k].path
    BY <1>7, <1>9
  <2>3. HeadReplaced(todo, front, front \o Tail(todo))
    BY <1>2, <1>5, <1>9, <2>1, <2>2, ReplaceHead
  <2> QED BY <1>2, <2>3 DEF HeadReplaced, Distinct
\* the batch
<1>11. /\ pending \in Seq(Row) /\ Len(pending) \in Nat /\ Len(pending) < BatchSize
       /\ BatchSize \in Nat \ {0} /\ asset_count \in Nat
       /\ \A k \in DOMAIN pending : pending[k] \in Found /\ pending[k] # row
  <2>1. \A k \in DOMAIN pending : pending[k] \in Found
    BY DEF Found, Range
  <2>2. row \notin Found
    BY <1>7, <1>8
  <2> QED BY <2>1, <2>2, ScanFacts, ManifestAssumption DEF ScanTypes
<1>12. /\ batch \in Seq(Row) /\ Len(batch) \in Nat
       /\ \A j, k \in DOMAIN batch : batch[j] = batch[k] => j = k
       /\ \A k \in DOMAIN batch : batch[k] \notin manifest[mid].rows
       /\ Range(batch) = Range(pending) \cup (IF IsAsset(p) THEN {row} ELSE {})
       /\ IsAsset(p) \/ Len(batch) < BatchSize
  <2>1. CASE IsAsset(p)
    <3>1. batch = Append(pending, row)
      BY <1>1, <2>1
    <3>2. /\ batch \in Seq(Row) /\ Len(batch) = Len(pending) + 1 /\ DOMAIN batch = 1 .. Len(batch)
          /\ DOMAIN pending = 1 .. Len(pending)
          /\ \A k \in DOMAIN pending : batch[k] = pending[k]
          /\ batch[Len(pending) + 1] = row
      BY <1>8, <1>11, <3>1
    <3>3. \A k \in DOMAIN batch : k \in DOMAIN pending \/ k = Len(pending) + 1
      BY <1>11, <3>2
    <3>4. row \notin manifest[mid].rows
      BY <1>7, <1>8 DEF Found
    <3>5. \A j, k \in DOMAIN batch : batch[j] = batch[k] => j = k
      BY <1>6, <1>11, <3>2, <3>3
    <3>6. \A k \in DOMAIN batch : batch[k] \notin manifest[mid].rows
      BY <1>6, <3>2, <3>3, <3>4
    <3>7. Range(batch) = Range(pending) \cup {row}
      <4>1. ASSUME NEW x \in Range(batch) PROVE x \in Range(pending) \cup {row}
        BY <3>2, <3>3 DEF Range
      <4>2. ASSUME NEW x \in Range(pending) PROVE x \in Range(batch)
        <5>1. PICK k \in DOMAIN pending : pending[k] = x
          BY <4>2 DEF Range
        <5>2. k \in DOMAIN batch
          BY <1>11, <3>2
        <5> QED BY <3>2, <5>1, <5>2 DEF Range
      <4>3. row \in Range(batch)
        <5>1. Len(pending) + 1 \in DOMAIN batch
          BY <1>11, <3>2
        <5> QED BY <3>2, <5>1 DEF Range
      <4> QED BY <4>1, <4>2, <4>3
    <3> QED BY <1>11, <2>1, <3>2, <3>5, <3>6, <3>7
  <2>2. CASE ~IsAsset(p)
    BY <1>1, <1>6, <1>11, <2>2
  <2> QED BY <2>1, <2>2
<1>13. /\ mid \in Manifest /\ manifest[mid].state = "Building"
       /\ manifest' \in [Manifest -> [state : {"None", "Building", "Frozen"},
                                      rows : SUBSET Row, digest : SUBSET Row]]
       /\ \A m \in Manifest : IsFiniteSet(manifest'[m].rows)
       /\ \A m \in Manifest : m # mid => manifest'[m] = manifest[m]
       /\ manifest'[mid].state = "Building"
       /\ Cardinality(manifest'[mid].rows) = asset_count' /\ asset_count' \in Nat
       /\ Found' = Found \cup (IF IsAsset(p) THEN {row} ELSE {})
       /\ pending' \in Seq(Row) /\ Len(pending') < BatchSize
       /\ \A k \in DOMAIN pending' :
              /\ pending'[k] \notin manifest'[mid].rows
              /\ \A j \in DOMAIN pending' : pending'[j] = pending'[k] => j = k
  <2>1. CASE /\ manifest' = Flushed(batch) /\ pending' = <<>>
             /\ asset_count' = asset_count + Len(batch)
    <3>1. /\ mid \in Manifest /\ manifest[mid].state = "Building"
          /\ manifest' \in [Manifest -> [state : {"None", "Building", "Frozen"},
                                         rows : SUBSET Row, digest : SUBSET Row]]
          /\ \A m \in Manifest : IsFiniteSet(manifest'[m].rows)
          /\ \A m \in Manifest : m # mid => manifest'[m] = manifest[m]
          /\ manifest'[mid].state = "Building"
          /\ manifest'[mid].rows = manifest[mid].rows \cup Range(batch)
          /\ Cardinality(manifest'[mid].rows) = asset_count'
      BY <1>2, <1>12, <2>1, FlushFacts
    <3>2. /\ pending' \in Seq(Row) /\ DOMAIN pending' = {} /\ Len(pending') < BatchSize
          /\ Range(pending') = {} /\ asset_count' \in Nat
      BY <1>11, <1>12, <2>1 DEF Range
    <3>3. Found' = Found \cup (IF IsAsset(p) THEN {row} ELSE {})
      BY <1>2, <1>12, <3>1, <3>2 DEF Found
    <3> QED BY <3>1, <3>2, <3>3
  <2>2. CASE /\ ~(Len(batch) >= BatchSize /\ IsAsset(p))
             /\ pending' = batch /\ manifest' = manifest /\ asset_count' = asset_count
    <3>1. /\ mid \in Manifest /\ manifest[mid].state = "Building"
          /\ manifest \in [Manifest -> [state : {"None", "Building", "Frozen"},
                                        rows : SUBSET Row, digest : SUBSET Row]]
          /\ \A m \in Manifest : IsFiniteSet(manifest[m].rows)
          /\ Cardinality(manifest[mid].rows) = asset_count
      BY <1>2, ScanFacts DEF ScanTypes, ManifestsOK, WalkOK
    <3>2. Len(pending') < BatchSize
      BY <1>11, <1>12, <2>2
    <3>3. Found' = Found \cup (IF IsAsset(p) THEN {row} ELSE {})
      BY <1>2, <1>12, <2>2 DEF Found
    <3> QED BY <1>11, <1>12, <2>2, <3>1, <3>2, <3>3
  <2> QED BY <1>3, <2>1, <2>2
<1>14. ScanTypes'
  BY <1>2, <1>10, <1>13, ScanFacts DEF ScanTypes, Item
<1>15. TreeOK' /\ ManifestsOK'
  <2>1. mid \in Nat /\ \A m \in Manifest : m \in Nat
    BY ScanFacts DEF ScanTypes, Manifest
  <2>2. \A m \in Manifest : m > mid => m # mid
    BY <2>1
  <2> QED BY <1>2, <1>13, <2>2, ScanFacts DEF TreeOK, Exists, ManifestsOK
<1>16. WalkOK'
  <2>1. \A q : \A act : Waiting(q, act) => Waiting(q, act)' \/ (q = p /\ act = "stat")
    <3> SUFFICES ASSUME NEW q, NEW act, NEW k \in DOMAIN todo,
                        todo[k] = [path |-> q, act |-> act], ~(q = p /\ act = "stat")
                 PROVE  \E i \in DOMAIN todo' : todo'[i] = [path |-> q, act |-> act]
      BY DEF Waiting
    <3>1. k # 1
      BY <1>5
    <3> QED BY <1>10, <3>1
  <2>2. p \in Dir => Waiting(p, "open")'
    BY <1>9, <1>10 DEF Waiting
  <2>3. IsAsset(p) => row \in Found'
    BY <1>13
  <2>4. NothingMissed(Kept, Opened)'
    <3>1. /\ \A q \in untouched' : IsAsset(q)' /\ Exists(q)' => q \in Kept
          /\ \A q \in Kept : tree'[q] # 0 /\ Parent[q] \in Kept \cup {Root}
      BY <1>2, <1>4 DEF NothingMissed, IsAsset, Exists
    <3>2. ASSUME NEW q \in Kept, Parent[q] \in Opened
          PROVE  \/ Waiting(q, "stat")'
                 \/ q \in Dir /\ (q \in Opened \/ Waiting(q, "open")')
                 \/ q \notin Dir /\ (IsAsset(q)' /\ q \in untouched' => <<q, tree'[q]>> \in Found')
      <4>1. CASE q = p
        <5>1. CASE p \in Dir
          BY <2>2, <4>1, <5>1
        <5>2. CASE p \notin Dir
          BY <1>2, <1>8, <2>3, <4>1, <5>2 DEF IsAsset
        <5> QED BY <5>1, <5>2
      <4>2. CASE q # p
        <5>1. \/ Waiting(q, "stat")
              \/ q \in Dir /\ (q \in Opened \/ Waiting(q, "open"))
              \/ q \notin Dir /\ (IsAsset(q) /\ q \in untouched => <<q, tree[q]>> \in Found)
          BY <1>4, <3>2 DEF NothingMissed
        <5> QED BY <1>2, <1>13, <2>1, <4>2, <5>1 DEF IsAsset
      <4> QED BY <4>1, <4>2
    <3>3. Root \in Opened \/ Waiting(Root, "open")'
      BY <1>4, <2>1 DEF NothingMissed
    <3> QED BY <3>1, <3>2, <3>3 DEF NothingMissed
  <2>5. NothingTwice(Opened)'
    <3>1. ASSUME NEW k \in DOMAIN todo'
          PROVE  /\ todo'[k].path \notin Opened
                 /\ todo'[k].path # Root => Parent[todo'[k].path] \in Opened
                 /\ todo'[k].path = Root => todo'[k].act = "open"
                 /\ \A r \in Found' : r[1] # todo'[k].path
      <4>1. CASE \E i \in DOMAIN front : todo'[k] = front[i]
        <5>1. todo'[k].path = p /\ p \in Dir
          BY <1>9, <4>1
        <5>2. Found' = Found
          BY <1>13, <5>1 DEF IsAsset
        <5> QED BY <1>7, <5>1, <5>2
      <4>2. CASE \E j \in DOMAIN todo : j # 1 /\ todo'[k] = todo[j]
        <5>1. PICK j \in DOMAIN todo : j # 1 /\ todo'[k] = todo[j]
          BY <4>2
        <5>2. \A r \in Found' : r[1] # todo[j].path
          BY <1>6, <1>7, <1>8, <1>13, <5>1
        <5> QED BY <1>6, <5>1, <5>2
      <4> QED BY <1>10, <4>1, <4>2
    <3>2. \A r \in Found' : IsAsset(r[1])' /\ Parent[r[1]] \in Opened
      BY <1>6, <1>7, <1>8, <1>13 DEF IsAsset
    <3>3. \A r, s \in Found' : r[1] = s[1] => r = s
      BY <1>6, <1>7, <1>8, <1>13
    <3> QED BY <1>2, <1>6, <1>10, <1>13, <3>1, <3>2, <3>3 DEF NothingTwice
  <2> QED BY <1>2, <1>13, <2>4, <2>5 DEF WalkOK
<1>17. DigestsOK' /\ FrozenIsComplete' /\ ReportedScanStands'
  <2>1. \A m \in Manifest : \/ manifest'[m] = manifest[m]
                            \/ ~Frozen(m) /\ manifest'[m].state # "Frozen"
    BY <1>13 DEF Frozen
  <2> QED BY <1>2, <2>1, FrozenKeeps
<1> QED BY <1>14, <1>15, <1>16, <1>17 DEF ScanInv

\* Every step of a scan, and every change of the source, keeps the invariant of the scan.
LEMMA ScanInvNext ==
    ASSUME ScanInv, Scan \/ \E p \in Path : EditSource(p)
    PROVE  ScanInv'
<1>1. CASE ScanBegin
  BY <1>1, ScanBeginKeeps
<1>2. CASE VisitEntry
  BY <1>2, VisitEntryKeeps
<1>3. CASE OpenDirectory
  BY <1>3, OpenDirectoryKeeps
<1>4. CASE FreezeFlush
  BY <1>4, FreezeFlushKeeps
<1>5. CASE Freeze
  BY <1>5, FreezeKeeps
<1>6. CASE EntryVanished
  <2>1. faults' = faults /\ faults \in 0 .. MaxFaults
    BY <1>6, ScanFacts DEF EntryVanished, ScanTypes
  <2> QED BY <1>6, <2>1, ScanStops DEF EntryVanished
<1>7. CASE ScanAborts
  <2>1. faults \in 0 .. MaxFaults /\ MaxFaults \in Nat
    BY ScanFacts, ManifestAssumption DEF ScanTypes
  <2>2. faults' \in 0 .. MaxFaults
    BY <1>7, <2>1 DEF ScanAborts
  <2> QED BY <1>7, <2>2, ScanStops DEF ScanAborts
<1>8. CASE \E p \in Path : EditSource(p)
  BY <1>8, EditSourceKeeps
<1> QED BY <1>1, <1>2, <1>3, <1>4, <1>5, <1>6, <1>7, <1>8 DEF Scan

---------------------------------------------------------------------------
(* The plan file: what Serialize writes and what Parse makes of it.        *)

\* A plan Serialize can order: finitely many assets, one per path.
Orderly(p) ==
    /\ IsFiniteSet(p.assets) /\ \A a \in p.assets : a[1] \in Nat
    /\ \A a, b \in p.assets : a[1] = b[1] => a = b

\* The trailer: the four sections, then the end line.
LEMMA TrailerFacts ==
    /\ Trailer \in Seq([record : {"section", "end"}, value : {0} \cup Range(Sections)])
    /\ Len(Trailer) = 5 /\ Trailer[5] = Line("end", 0)
    /\ \A k \in 1 .. 4 : Trailer[k].record = "section"
<1>1. PICK names : names = Sections
  OBVIOUS
<1>2. Len(names) = 4 /\ DOMAIN names = 1 .. 4 /\ Range(names) = Range(Sections)
  BY <1>1 DEF Sections
<1>3. PICK lines, last : /\ lines = [k \in 1 .. 4 |-> Line("section", names[k])]
                         /\ last = Line("end", 0)
  OBVIOUS
<1>4. PICK X : X = [record : {"section", "end"}, value : {0} \cup Range(Sections)]
  OBVIOUS
<1>5. \A k \in 1 .. 4 : names[k] \in Range(Sections)
  BY <1>2 DEF Range
<1>6. /\ lines \in Seq(X) /\ Len(lines) = 4 /\ \A k \in 1 .. 4 : lines[k].record = "section"
      /\ last \in X
  BY <1>3, <1>4, <1>5 DEF Line
<1>7. Trailer = lines \o <<last>>
  BY <1>1, <1>2, <1>3 DEF Trailer
<1> QED BY <1>3, <1>4, <1>6, <1>7

\* The parts of a concatenation.
LEMMA ConcatParts ==
    ASSUME NEW X, NEW s \in Seq(X), NEW t \in Seq(X)
    PROVE  /\ s \o t \in Seq(X) /\ Len(s \o t) = Len(s) + Len(t)
           /\ \A k \in 1 .. Len(s) : (s \o t)[k] = s[k]
           /\ \A k \in 1 .. Len(t) : (s \o t)[Len(s) + k] = t[k]
  OBVIOUS

\* A part of a sequence.
LEMMA SubSeqPart ==
    ASSUME NEW X, NEW s \in Seq(X), NEW i \in 1 .. Len(s), NEW j \in i .. Len(s)
    PROVE  /\ SubSeq(s, i, j) \in Seq(X) /\ Len(SubSeq(s, i, j)) = j - i + 1
           /\ \A k \in 1 .. (j - i + 1) : SubSeq(s, i, j)[k] = s[i + k - 1]
  OBVIOUS

\* What is written for a plan with n assets: header, assets, trailer.
IsFileOf(file, p, n) ==
    /\ n \in Nat /\ file \in Seq(Range(file)) /\ Len(file) = n + 6
    /\ file[1] = Line("header", [manifest |-> p.manifest, digest |-> p.digest])
    /\ \A k \in 1 .. n : file[k + 1].record = "asset" /\ file[k + 1].value \in p.assets
    /\ \A a \in p.assets : \E k \in 1 .. n : file[k + 1].value = a
    /\ \A k \in 1 .. 5 : file[n + 1 + k] = Trailer[k]

\* Serialize writes that file.
LEMMA SerializeFacts ==
    ASSUME NEW p, Orderly(p)
    PROVE  IsFileOf(Serialize(p), p, Cardinality(p.assets))
<1> PICK n : n = Cardinality(p.assets)
  OBVIOUS
<1>1. PICK key, sorted : key = [a \in p.assets |-> a[1]] /\ sorted = SortedBy(p.assets, key)
  OBVIOUS
<1>2. /\ n \in Nat /\ sorted \in [1 .. n -> p.assets]
      /\ \A a \in p.assets : \E k \in 1 .. n : sorted[k] = a
  <2>1. PICK S : S = p.assets
    OBVIOUS
  <2>2. /\ IsFiniteSet(S) /\ \A x \in S : key[x] \in Nat
        /\ \A x, y \in S : key[x] = key[y] => x = y
    BY <1>1, <2>1 DEF Orderly
  <2>3. /\ Cardinality(S) \in Nat
        /\ SortedBy(S, key) \in [1 .. Cardinality(S) -> S]
        /\ \A x \in S : \E k \in 1 .. Cardinality(S) : SortedBy(S, key)[k] = x
        /\ \A j, k \in 1 .. Cardinality(S) :
               SortedBy(S, key)[j] = SortedBy(S, key)[k] => j = k
    BY <2>2, SortedByFacts, Zenon
  <2> QED BY <1>1, <2>1, <2>3
<1>3. PICK header, lines :
          /\ header = Line("header", [manifest |-> p.manifest, digest |-> p.digest])
          /\ lines = [k \in 1 .. n |-> Line("asset", sorted[k])]
  OBVIOUS
<1>4. PICK tail : tail = Trailer
  OBVIOUS
<1>5. Serialize(p) = <<header>> \o lines \o tail
  <2>1. DOMAIN sorted = 1 .. n
    BY <1>2
  <2> QED BY <1>1, <1>3, <1>4, <2>1 DEF Serialize
<1>6. Len(lines) = n /\ Len(tail) = 5
  BY <1>2, <1>3, <1>4, TrailerFacts
<1>7. PICK X : header \in X /\ lines \in Seq(X) /\ tail \in Seq(X)
  <2>1. lines \in Seq({lines[k] : k \in 1 .. n})
    BY <1>2, <1>3
  <2>2. tail \in Seq(Range(tail))
    BY <1>4, TrailerFacts, SeqOfRange
  <2>3. PICK X : X = {header} \cup {lines[k] : k \in 1 .. n} \cup Range(tail)
    OBVIOUS
  <2>4. header \in X /\ lines \in Seq(X) /\ tail \in Seq(X)
    BY <2>1, <2>2, <2>3
  <2> QED BY <2>4
<1>8. PICK first : first = <<header>> \o lines
  OBVIOUS
<1>9. /\ first \in Seq(X) /\ Len(first) = n + 1 /\ first[1] = header
      /\ \A k \in 1 .. n : first[k + 1] = lines[k]
  BY <1>2, <1>6, <1>7, <1>8
<1>10. PICK file : file = first \o tail
  OBVIOUS
<1>11. file \in Seq(X) /\ Len(file) = n + 6
  <2>1. first \o tail \in Seq(X) /\ Len(first \o tail) = Len(first) + Len(tail)
    BY <1>7, <1>9, ConcatParts
  <2> QED BY <1>2, <1>6, <1>9, <1>10, <2>1
<1>12. /\ \A k \in 1 .. Len(first) : file[k] = first[k]
       /\ \A k \in 1 .. Len(tail) : file[Len(first) + k] = tail[k]
  BY <1>7, <1>9, <1>10, ConcatParts
<1>13. \A k \in 1 .. 5 : file[n + 1 + k] = tail[k]
  BY <1>6, <1>9, <1>12
<1>14. file \in Seq(Range(file))
  BY <1>11, SeqOfRange
<1>15. ASSUME NEW k \in 1 .. n
       PROVE  file[k + 1].record = "asset" /\ file[k + 1].value = sorted[k]
  <2>1. k + 1 \in 1 .. Len(first) /\ first[k + 1] = lines[k]
    BY <1>2, <1>9, <1>15
  <2>2. file[k + 1] = Line("asset", sorted[k])
    BY <1>3, <1>12, <1>15, <2>1
  <2> QED BY <2>2 DEF Line
<1>16. file[1] = header
  <2>1. 1 \in 1 .. Len(first)
    BY <1>2, <1>9
  <2> QED BY <1>9, <1>12, <2>1
<1>17. \A k \in 1 .. n : file[k + 1].record = "asset" /\ file[k + 1].value \in p.assets
  BY <1>2, <1>15
<1>18. \A a \in p.assets : \E k \in 1 .. n : file[k + 1].value = a
  BY <1>2, <1>15
<1>19. Serialize(p) = file
  BY <1>5, <1>8, <1>10
<1>20. IsFileOf(file, p, n)
  BY <1>2, <1>3, <1>4, <1>11, <1>13, <1>14, <1>16, <1>17, <1>18 DEF IsFileOf
<1> QED BY <1>19, <1>20

\* Only the last line of a file is an end line, and none is torn.
LEMMA EndIsLast ==
    ASSUME NEW p, Orderly(p), NEW k \in 1 .. Len(Serialize(p))
    PROVE  /\ Serialize(p)[k] = Line("end", 0) => k = Len(Serialize(p))
           /\ Serialize(p)[k] # Torn
<1>1. PICK n : n = Cardinality(p.assets)
  OBVIOUS
<1>2. PICK file : file = Serialize(p)
  OBVIOUS
<1>3. PICK head : head = [manifest |-> p.manifest, digest |-> p.digest]
  OBVIOUS
<1>4. /\ n \in Nat /\ Len(file) = n + 6 /\ file[1] = Line("header", head)
      /\ \A i \in 1 .. n : file[i + 1].record = "asset"
      /\ \A i \in 1 .. 5 : file[n + 1 + i] = Trailer[i]
  BY <1>1, <1>2, <1>3, SerializeFacts DEF IsFileOf
<1>5. k \in 1 .. (n + 6)
  BY <1>2, <1>4
<1>6. k = 1 \/ k - 1 \in 1 .. n \/ k - n - 1 \in 1 .. 4 \/ k = n + 6
  BY <1>4, <1>5
<1>7. file[k].record \in {"header", "asset", "section"} \/ k = n + 6
  <2>1. CASE k = 1
    BY <1>4, <2>1 DEF Line
  <2>2. CASE k - 1 \in 1 .. n
    <3>1. k = (k - 1) + 1
      BY <1>4, <1>5
    <3> QED BY <1>4, <2>2, <3>1
  <2>3. CASE k - n - 1 \in 1 .. 4
    <3>1. PICK j \in 1 .. 4 : j = k - n - 1
      BY <2>3
    <3>2. k = n + 1 + j /\ j \in 1 .. 5
      BY <1>4, <1>5, <3>1
    <3> QED BY <1>4, <3>1, <3>2, TrailerFacts
  <2> QED BY <1>6, <2>1, <2>2, <2>3
<1>8. k = n + 6 => file[k] = Line("end", 0)
  <2>1. 5 \in 1 .. 5 /\ n + 6 = n + 1 + 5
    BY <1>4
  <2>2. file[n + 1 + 5] = Trailer[5]
    BY <1>4, <2>1
  <2> QED BY <2>1, <2>2, TrailerFacts
<1>9. Line("end", 0).record = "end" /\ Torn.record = "torn"
  BY DEF Line, Torn
<1>10. file[k].record \in {"header", "asset", "section", "end"}
  BY <1>7, <1>8, <1>9
<1>11. file[k].record = "end" => k = n + 6
  BY <1>7
<1> QED BY <1>2, <1>4, <1>9, <1>10, <1>11

\* A file that was cut, at a line or within one, does not parse.
LEMMA CutDoesNotParse ==
    ASSUME NEW p, Orderly(p), NEW h \in Nat, h <= 2 * Len(Serialize(p)),
           NEW lines, Parses(lines),
           lines = SubSeq(Serialize(p), 1, h \div 2)
                   \o (IF h % 2 = 1 THEN <<Torn>> ELSE <<>>)
    PROVE  h = 2 * Len(Serialize(p)) /\ lines = Serialize(p)
<1>1. PICK file, n : file = Serialize(p) /\ n = Len(file)
  OBVIOUS
<1>2. file \in Seq(Range(file)) /\ n \in Nat
  <2>1. PICK a : a = Cardinality(p.assets)
    OBVIOUS
  <2>2. a \in Nat /\ file \in Seq(Range(file)) /\ n = a + 6
    BY <1>1, <2>1, SerializeFacts DEF IsFileOf
  <2> QED BY <2>2
<1>3. PICK c, X : c = h \div 2 /\ X = Range(file) \cup {Torn}
  OBVIOUS
<1>4. c \in Nat /\ c <= n /\ (h % 2 = 0 => h = 2 * c) /\ (h % 2 # 0 => h % 2 = 1)
  BY <1>1, <1>2, <1>3
<1>5. PICK cut : cut = SubSeq(file, 1, c)
  OBVIOUS
<1>6. cut \in Seq(X) /\ Len(cut) = c /\ \A k \in 1 .. c : cut[k] = file[k]
  <2>1. file \in Seq(X)
    BY <1>2, <1>3
  <2> QED BY <1>1, <1>2, <1>4, <1>5, <2>1
<1>7. h % 2 = 0
  <2> SUFFICES ASSUME h % 2 = 1 PROVE FALSE
    BY <1>4
  <2>1. lines = cut \o <<Torn>>
    BY <1>1, <1>3, <1>5
  <2>2. <<Torn>> \in Seq(X) /\ Len(<<Torn>>) = 1 /\ <<Torn>>[1] = Torn
    BY <1>3
  <2>3. /\ lines \in Seq(X) /\ Len(lines) = c + 1 /\ lines[c + 1] = Torn
    <3>1. /\ cut \o <<Torn>> \in Seq(X) /\ Len(cut \o <<Torn>>) = Len(cut) + Len(<<Torn>>)
          /\ \A k \in 1 .. Len(<<Torn>>) : (cut \o <<Torn>>)[Len(cut) + k] = <<Torn>>[k]
      BY <1>6, <2>2, ConcatParts
    <3> QED BY <1>4, <1>6, <2>1, <2>2, <3>1
  <2>4. Torn \in Range(lines)
    <3>1. c + 1 \in DOMAIN lines
      BY <1>4, <2>3
    <3> QED BY <2>3, <3>1 DEF Range
  <2> QED BY <2>4 DEF Parses
<1>8. lines = cut
  <2>1. lines = cut \o <<>>
    BY <1>1, <1>3, <1>5, <1>7
  <2> QED BY <1>6, <2>1, ConcatEmptySeq
<1>9. lines[c] = Line("end", 0) /\ c \in 1 .. n
  <2>1. Len(lines) = c /\ lines \in Seq(X)
    BY <1>6, <1>8
  <2>2. PICK t : t = Trailer
    OBVIOUS
  <2>3. Len(t) = 5 /\ t[5] = Line("end", 0)
    BY <2>2, TrailerFacts
  <2>4. c >= 6 /\ SubSeq(lines, c - 4, c) = t
    <3>1. c >= 1 + 5 /\ SubSeq(lines, c - 1 - 5 + 2, c) = t
      BY <2>1, <2>2, <2>3 DEF Parses, AssetLines
    <3>2. c - 1 - 5 + 2 = c - 4
      BY <1>4
    <3>3. SubSeq(lines, c - 4, c) = t
      BY <3>1, <3>2, Zenon
    <3>4. c >= 6
      BY <1>4, <3>1
    <3> QED BY <3>3, <3>4
  <2>5. SubSeq(lines, c - 4, c)[5] = lines[c]
    BY <1>4, <2>1, <2>4
  <2>6. t[5] = lines[c]
    BY <2>4, <2>5, Zenon
  <2>7. c \in 1 .. n
    BY <1>4, <2>4
  <2> QED BY <2>3, <2>6, <2>7
<1>10. file[c] = Line("end", 0)
  BY <1>4, <1>6, <1>8, <1>9
<1>11. c = n
  BY <1>1, <1>9, <1>10, EndIsLast
<1>12. cut = file
  BY <1>1, <1>2, <1>5, <1>11, SubSeqFull
<1> QED BY <1>1, <1>4, <1>7, <1>8, <1>11, <1>12

\* What Serialize has written Parse reads back.
LEMMA RoundTrip ==
    ASSUME NEW p, Orderly(p),
           p = [manifest |-> p.manifest, digest |-> p.digest, assets |-> p.assets]
    PROVE  Parses(Serialize(p)) /\ Parsed(Serialize(p)) = p
<1>1. PICK n : n = Cardinality(p.assets)
  OBVIOUS
<1>2. PICK file : file = Serialize(p)
  OBVIOUS
<1>3. PICK head : head = [manifest |-> p.manifest, digest |-> p.digest]
  OBVIOUS
<1>4. /\ n \in Nat /\ file \in Seq(Range(file)) /\ Len(file) = n + 6
      /\ file[1] = Line("header", head)
      /\ \A k \in 1 .. n : file[k + 1].record = "asset" /\ file[k + 1].value \in p.assets
      /\ \A a \in p.assets : \E k \in 1 .. n : file[k + 1].value = a
      /\ \A k \in 1 .. 5 : file[n + 1 + k] = Trailer[k]
  BY <1>1, <1>2, <1>3, SerializeFacts DEF IsFileOf
<1>5. AssetLines(file) = n /\ Len(Trailer) = 5
  BY <1>4, TrailerFacts DEF AssetLines
<1>6. \A k \in 2 .. (n + 1) : k - 1 \in 1 .. n /\ k = (k - 1) + 1
  BY <1>4
<1>7. \A k \in 2 .. (n + 1) : file[k].record = "asset" /\ file[k].value \in p.assets
  BY <1>4, <1>6
<1>8. {file[k].value : k \in 2 .. (n + 1)} = p.assets
  <2>1. ASSUME NEW a \in p.assets PROVE a \in {file[k].value : k \in 2 .. (n + 1)}
    <3>1. PICK k \in 1 .. n : file[k + 1].value = a
      BY <1>4, <2>1
    <3>2. k + 1 \in 2 .. (n + 1)
      BY <1>4
    <3> QED BY <3>1, <3>2
  <2> QED BY <1>7, <2>1
<1>9. file[1].record = "header" /\ file[1].value = head
  BY <1>4 DEF Line
<1>10. SubSeq(file, n + 2, n + 6) = Trailer
  <2>1. PICK t, X, rest : /\ t = Trailer /\ t \in Seq(X) /\ Len(t) = 5
                          /\ rest = SubSeq(file, n + 2, n + 6)
    BY TrailerFacts
  <2>2. rest \in Seq(Range(file)) /\ Len(rest) = 5 /\ \A k \in 1 .. 5 : rest[k] = file[n + 1 + k]
    <3>1. PICK R : R = Range(file)
      OBVIOUS
    <3>2. PICK i \in 1 .. Len(file) : i = n + 2
      BY <1>4
    <3> PICK j \in i .. Len(file) : j = n + 6
      BY <1>4, <3>2
    <3>3. /\ SubSeq(file, i, j) \in Seq(R) /\ Len(SubSeq(file, i, j)) = j - i + 1
          /\ \A k \in 1 .. (j - i + 1) : SubSeq(file, i, j)[k] = file[i + k - 1]
      <4>1. file \in Seq(R)
        BY <1>4, <3>1
      <4> QED BY <4>1, SubSeqPart
    <3>4. rest = SubSeq(file, i, j) /\ j - i + 1 = 5
      <4>1. j - i + 1 = 5
        BY <1>4, <3>2
      <4> QED BY <2>1, <3>2, <4>1
    <3>5. /\ rest \in Seq(R) /\ Len(rest) = 5
          /\ \A k \in 1 .. 5 : rest[k] = file[i + k - 1]
      BY <3>3, <3>4
    <3>6. \A k \in 1 .. 5 : i + k - 1 = n + 1 + k
      BY <1>4, <3>2
    <3> QED BY <3>1, <3>5, <3>6
  <2>3. \A k \in 1 .. 5 : rest[k] = t[k]
    BY <1>4, <2>1, <2>2
  <2>4. t \in Seq(X \cup Range(file)) /\ rest \in Seq(X \cup Range(file))
    BY <2>1, <2>2
  <2>5. rest = t
    BY <2>1, <2>2, <2>3, <2>4, SeqEqual
  <2> QED BY <2>1, <2>5
<1>11. Torn \notin Range(file)
  <2>1. \A k \in DOMAIN file : file[k] # Torn
    BY <1>2, <1>4, EndIsLast
  <2> QED BY <2>1 DEF Range
<1>12. Parses(file)
  <2>1. Len(file) >= 1 + Len(Trailer)
    BY <1>4, <1>5
  <2>2. Cardinality({file[k].value : k \in 2 .. (n + 1)}) = n
    BY <1>1, <1>8
  <2> QED BY <1>4, <1>5, <1>7, <1>9, <1>10, <1>11, <2>1, <2>2 DEF Parses
<1>13. Parsed(file) = [manifest |-> head.manifest, digest |-> head.digest, assets |-> p.assets]
  BY <1>5, <1>8, <1>9 DEF Parsed
<1>14. head.manifest = p.manifest /\ head.digest = p.digest
  BY <1>3
<1> QED BY <1>2, <1>12, <1>13, <1>14

---------------------------------------------------------------------------
(* The inductive invariant of the pipeline.                                *)

Early == {"new", "assets", "check", "create"}
Named == temp \cup final \cup diskTemp \cup diskFinal

\* The variables of the runs of plan in their sets.
PlanTypes ==
    /\ ppc \in [Run -> Early \cup {"write", "sync", "rename", "fsync"} \cup Ended]
    /\ plan \in [Run -> [manifest : Nat, digest : SUBSET Row, assets : SUBSET Row]]
    /\ half \in [Run -> Nat] /\ synced \subseteq Run /\ left \subseteq Run
    /\ temp \subseteq Run /\ final \subseteq Run
    /\ diskTemp \subseteq Run /\ diskFinal \subseteq Run

\* What Reopen has checked, and what Build has made of it: all rows of a frozen manifest.
FromFrozen(p) ==
    p.manifest \in Manifest /\ Frozen(p.manifest) /\ p.digest = manifest[p.manifest].rows
Complete(p) == FromFrozen(p) /\ p.assets = p.digest /\ MapAllSucceeds(p.assets)

\* A run that has read the assets has a complete plan, and so has every file.
PlansRight ==
    \A r \in Run :
        /\ ppc[r] = "assets" => FromFrozen(plan[r])
        /\ ppc[r] \in {"new", "assets"} => plan[r].assets = {}
        /\ plan[r].assets # {} => Complete(plan[r])
        /\ ppc[r] \in {"check", "create", "write", "sync", "rename", "fsync"} => Complete(plan[r])
        /\ r \in Named => Complete(plan[r])

\* What is in the files: nothing before they are created, everything and synced before
\* they get the final name.
FilesRight ==
    \A r \in Run :
        /\ half[r] <= 2 * Len(Serialize(plan[r]))
        /\ ppc[r] \in Early => half[r] = 0 /\ r \notin synced /\ r \notin Named
        /\ r \in synced \/ ppc[r] \in {"sync", "rename"} => Whole(r)
        /\ ppc[r] = "rename" \/ r \in final \cup diskFinal => r \in synced

\* One file per name, and the names are those of the runs that need them.
DirectoryRight ==
    /\ \A q, s \in temp : plan[q] = plan[s] => q = s
    /\ \A q, s \in final : plan[q] = plan[s] => q = s
    /\ \A r \in Run :
        /\ ppc[r] \in {"write", "sync", "rename"} => r \in temp
        /\ ppc[r] = "fsync" => r \in final /\ r \notin temp
        /\ ppc[r] = "ok" => r \in final /\ r \in diskFinal
        /\ r \in temp /\ ppc[r] \in Ended => r \in left

\* Tasks are the rows of a frozen manifest.
TasksRight ==
    \A t \in tasks : /\ t.id.manifest \in Manifest /\ Frozen(t.id.manifest)
                     /\ t.assets = manifest[t.id.manifest].rows /\ MapAllSucceeds(t.assets)

\* The inductive invariant of the pipeline.
PipelineInv ==
    ScanInv /\ PlanTypes /\ PlansRight /\ FilesRight /\ DirectoryRight /\ TasksRight

\* The invariant taken apart, and every plan of a run can be written.
LEMMA PipelineFacts ==
    ASSUME PipelineInv
    PROVE  /\ ScanInv /\ PlanTypes /\ PlansRight /\ FilesRight /\ DirectoryRight /\ TasksRight
           /\ \A r \in Run : Orderly(plan[r]) /\ Len(Serialize(plan[r])) \in Nat
<1>1. ScanInv /\ PlanTypes /\ PlansRight /\ FilesRight /\ DirectoryRight /\ TasksRight
  BY DEF PipelineInv
<1>2. ASSUME NEW r \in Run PROVE Orderly(plan[r])
  <2>1. plan[r].assets \in SUBSET Row
    BY <1>1 DEF PlanTypes
  <2>2. \A a \in plan[r].assets : a[1] \in Nat
    BY <2>1, ManifestAssumption DEF Row
  <2>3. CASE plan[r].assets = {}
    BY <2>2, <2>3, FS_EmptySet DEF Orderly
  <2>4. CASE plan[r].assets # {}
    <3>1. PICK m \in Manifest : Frozen(m) /\ plan[r].assets = manifest[m].rows
      BY <1>1, <2>4 DEF PlansRight, Complete, FromFrozen
    <3>2. /\ IsFiniteSet(manifest[m].rows)
          /\ \A a, b \in manifest[m].rows : a[1] = b[1] => a = b
      BY <1>1, <3>1, ScanFacts DEF ScanTypes, FrozenIsComplete
    <3> QED BY <2>2, <3>1, <3>2 DEF Orderly
  <2> QED BY <2>3, <2>4
<1>3. ASSUME NEW p, Orderly(p) PROVE Len(Serialize(p)) \in Nat
  <2>1. PICK n : n = Cardinality(p.assets)
    OBVIOUS
  <2>2. n \in Nat /\ Len(Serialize(p)) = n + 6
    BY <1>3, <2>1, SerializeFacts DEF IsFileOf
  <2> QED BY <2>2
<1> QED BY <1>1, <1>2, <1>3

\* Nothing has happened yet.
LEMMA PipelineInvInit == PipelineInit => PipelineInv
<1> SUFFICES ASSUME PipelineInit PROVE PipelineInv
  OBVIOUS
<1>1. ScanInv
  BY ScanInvInit DEF PipelineInit
<1>2. PICK none : none = NoPlan
  OBVIOUS
<1>3. /\ none \in [manifest : Nat, digest : SUBSET Row, assets : SUBSET Row]
      /\ none.assets = {}
  BY <1>2 DEF NoPlan
<1>4. /\ ppc = [r \in Run |-> "new"] /\ plan = [r \in Run |-> none]
      /\ half = [r \in Run |-> 0] /\ synced = {} /\ temp = {} /\ final = {}
      /\ diskTemp = {} /\ diskFinal = {} /\ left = {} /\ tasks = {}
  BY <1>2 DEF PipelineInit
<1>5. PlanTypes
  BY <1>3, <1>4 DEF PlanTypes, Early
<1>6. PlansRight /\ DirectoryRight /\ TasksRight
  BY <1>3, <1>4 DEF PlansRight, DirectoryRight, TasksRight, Named, Ended
<1>7. FilesRight
  <2>1. Orderly(none)
    BY <1>3, FS_EmptySet DEF Orderly
  <2>2. Cardinality(none.assets) \in Nat /\ Len(Serialize(none)) = Cardinality(none.assets) + 6
    BY <2>1, SerializeFacts DEF IsFileOf
  <2>3. 0 <= 2 * Len(Serialize(none))
    BY <2>2
  <2>4. \A r \in Run : half[r] <= 2 * Len(Serialize(plan[r]))
    BY <1>4, <2>3
  <2> QED BY <1>4, <2>4 DEF FilesRight, Named
<1> QED BY <1>1, <1>5, <1>6, <1>7 DEF PipelineInv

\* A step of plan leaves the scan alone; at most it uses up a fault.
LEMMA ScanStays ==
    ASSUME ScanInv, UNCHANGED scanRest, Fault \/ NoFault
    PROVE  ScanInv'
<1>1. /\ tree' = tree /\ edits' = edits /\ manifest' = manifest /\ spc' = spc /\ mid' = mid
      /\ todo' = todo /\ pending' = pending /\ asset_count' = asset_count
      /\ reported' = reported /\ untouched' = untouched /\ stable' = stable
  BY DEF scanRest, scanLocals
<1>2. faults' \in 0 .. MaxFaults
  <2>1. faults \in 0 .. MaxFaults /\ MaxFaults \in Nat
    BY ScanFacts, ManifestAssumption DEF ScanTypes
  <2> QED BY <2>1 DEF Fault, NoFault
<1>3. ScanTypes' /\ TreeOK' /\ ManifestsOK'
  BY <1>1, <1>2, ScanFacts DEF ScanTypes, TreeOK, ManifestsOK, Exists
<1>4. WalkOK'
  BY <1>1, ScanFacts DEF WalkOK, NothingMissed, NothingTwice, Found, Waiting, Exists, IsAsset
<1>5. DigestsOK' /\ FrozenIsComplete' /\ ReportedScanStands'
  BY <1>1, FrozenKeeps
<1> QED BY <1>3, <1>4, <1>5 DEF ScanInv

\* The runs and the tasks are as right as before when nothing of theirs changes and every
\* frozen manifest keeps its rows.
LEMMA PlansStay ==
    ASSUME PipelineInv, ScanInv', UNCHANGED planVars,
           \A m \in Manifest : Frozen(m) => manifest'[m] = manifest[m]
    PROVE  PipelineInv'
<1>1. /\ ppc' = ppc /\ plan' = plan /\ half' = half /\ synced' = synced /\ temp' = temp
      /\ final' = final /\ diskTemp' = diskTemp /\ diskFinal' = diskFinal /\ left' = left
      /\ tasks' = tasks
  BY DEF planVars, fileVars, directory
<1>2. \A p : FromFrozen(p) => FromFrozen(p)'
  BY DEF FromFrozen, Frozen
<1>3. \A p : Complete(p) => Complete(p)'
  BY <1>2 DEF Complete, MapAllSucceeds
<1>4. PlanTypes' /\ DirectoryRight'
  BY <1>1, PipelineFacts DEF PlanTypes, DirectoryRight
<1>5. FilesRight'
  BY <1>1, PipelineFacts DEF FilesRight, Named, Whole
<1>6. PlansRight'
  BY <1>1, <1>2, <1>3, PipelineFacts DEF PlansRight, Named
<1>7. TasksRight'
  BY <1>1, PipelineFacts DEF TasksRight, Frozen, MapAllSucceeds
<1> QED BY <1>4, <1>5, <1>6, <1>7 DEF PipelineInv

\* No step of a scan changes a frozen manifest.
LEMMA FrozenStays ==
    ASSUME ScanInv, Scan \/ \E p \in Path : EditSource(p), NEW m \in Manifest, Frozen(m)
    PROVE  manifest'[m] = manifest[m]
<1>1. /\ manifest \in [Manifest -> [state : {"None", "Building", "Frozen"},
                                    rows : SUBSET Row, digest : SUBSET Row]]
      /\ mid \in 0 .. MaxScans /\ \A k \in Manifest : k > mid => manifest[k].state = "None"
      /\ spc # "idle" => mid \in Manifest /\ manifest[mid].state = "Building"
  BY ScanFacts DEF ScanTypes, ManifestsOK
<1>2. m \in Nat /\ manifest[m].state = "Frozen"
  BY DEF Frozen, Manifest
<1>3. CASE ScanBegin
  <2>1. PICK fresh : manifest' = [manifest EXCEPT ![mid'] = fresh]
    BY <1>3 DEF ScanBegin
  <2>2. mid' = mid + 1 /\ mid \in Nat
    BY <1>1, <1>3 DEF ScanBegin
  <2>3. m # mid'
    BY <1>1, <1>2, <2>2
  <2> QED BY <1>1, <2>1, <2>3
<1>4. CASE VisitEntry \/ FreezeFlush
  <2>1. mid # m
    BY <1>1, <1>2, <1>4 DEF VisitEntry, FreezeFlush
  <2>2. manifest' = manifest \/ \E batch : manifest' = Flushed(batch)
    BY <1>4 DEF VisitEntry, FreezeFlush
  <2> QED BY <1>1, <2>1, <2>2 DEF Flushed
<1>5. CASE Freeze
  <2>1. mid # m
    BY <1>1, <1>2, <1>5 DEF Freeze
  <2> QED BY <1>1, <1>5, <2>1 DEF Freeze
<1>6. CASE OpenDirectory \/ EntryVanished \/ ScanAborts \/ \E p \in Path : EditSource(p)
  BY <1>6 DEF OpenDirectory, EntryVanished, ScanAborts, EditSource
<1> QED BY <1>3, <1>4, <1>5, <1>6 DEF Scan

---------------------------------------------------------------------------
(* The steps of a run of plan.                                             *)

\* The only temporary file with the name of a run that has one is its own.
LEMMA OwnTemp ==
    ASSUME PipelineInv, NEW r \in temp
    PROVE  SameName(r, temp) = {r}
  BY PipelineFacts DEF SameName, DirectoryRight

\* The manifests have not changed, so plans that were complete are.
LEMMA SamePlans ==
    ASSUME manifest' = manifest
    PROVE  \A p : (FromFrozen(p)' <=> FromFrozen(p)) /\ (Complete(p)' <=> Complete(p))
  BY DEF FromFrozen, Complete, Frozen, MapAllSucceeds

\* A run goes on to look for the temporary name, or stops with its files as they are.
LEMMA StopKeeps ==
    ASSUME PipelineInv, ScanInv', manifest' = manifest, NEW r \in Run, NEW label,
           \/ label \in {"found", "error"}
           \/ label = "create" /\ ppc[r] = "check",
           Goto(r, label), left \subseteq left', left' \subseteq Run,
           label # "create" /\ r \in temp => r \in left',
           UNCHANGED <<plan, half, synced, temp, final, diskTemp, diskFinal, tasks>>
    PROVE  PipelineInv'
<1>1. /\ plan' = plan /\ half' = half /\ synced' = synced /\ temp' = temp /\ final' = final
      /\ diskTemp' = diskTemp /\ diskFinal' = diskFinal /\ tasks' = tasks
  OBVIOUS
<1>2. PlanTypes
  BY PipelineFacts
<1>3. /\ ppc' \in [Run -> Early \cup {"write", "sync", "rename", "fsync"} \cup Ended]
      /\ ppc'[r] = label /\ \A q \in Run : q # r => ppc'[q] = ppc[q]
  BY <1>2 DEF Goto, PlanTypes, Early, Ended
<1>4. PlanTypes'
  BY <1>1, <1>2, <1>3 DEF PlanTypes
<1>5. PlansRight'
  <2>1. \A p : (FromFrozen(p)' <=> FromFrozen(p)) /\ (Complete(p)' <=> Complete(p))
    BY SamePlans
  <2>2. Named' = Named
    BY <1>1 DEF Named
  <2> QED BY <1>1, <1>3, <2>1, <2>2, PipelineFacts DEF PlansRight
<1>6. FilesRight'
  BY <1>1, <1>3, PipelineFacts DEF FilesRight, Named, Whole, Early
<1>7. DirectoryRight'
  BY <1>1, <1>3, PipelineFacts DEF DirectoryRight, Ended
<1>8. TasksRight'
  BY <1>1, PipelineFacts DEF TasksRight, Frozen, MapAllSucceeds
<1> QED BY <1>4, <1>5, <1>6, <1>7, <1>8 DEF PipelineInv

\* What the plan of a run that has no file yet may be filled with.
MayHold(p, label) ==
    \/ label = "assets" /\ p.assets = {} /\ FromFrozen(p)
    \/ label = "check" /\ Complete(p)

Fill(r, p) == plan' = [plan EXCEPT ![r] = p]
PlanSet == [manifest : Nat, digest : SUBSET Row, assets : SUBSET Row]

\* The plan of a run that has no file yet is filled in.
LEMMA FillKeeps ==
    ASSUME PipelineInv, ScanInv', manifest' = manifest, NEW r \in Run, NEW p, NEW label,
           ppc[r] \in {"new", "assets"}, Goto(r, label), Fill(r, p), p \in PlanSet,
           MayHold(p, label),
           UNCHANGED <<half, synced, temp, final, diskTemp, diskFinal, left, tasks>>
    PROVE  PipelineInv'
<1>1. /\ half' = half /\ synced' = synced /\ temp' = temp /\ final' = final
      /\ diskTemp' = diskTemp /\ diskFinal' = diskFinal /\ left' = left /\ tasks' = tasks
  OBVIOUS
<1>2. PlanTypes /\ half[r] = 0 /\ r \notin synced /\ r \notin Named
  BY PipelineFacts DEF FilesRight, Early
<1>3. /\ ppc' \in [Run -> Early \cup {"write", "sync", "rename", "fsync"} \cup Ended]
      /\ ppc'[r] = label /\ \A q \in Run : q # r => ppc'[q] = ppc[q]
  BY <1>2 DEF Goto, PlanTypes, Early, MayHold
<1>4. /\ plan' \in [Run -> PlanSet]
      /\ plan'[r] = p /\ \A q \in Run : q # r => plan'[q] = plan[q]
  BY <1>2 DEF PlanTypes, Fill, PlanSet
<1>5. PlanTypes'
  BY <1>1, <1>2, <1>3, <1>4 DEF PlanTypes, PlanSet
<1>6. PlansRight'
  <2>1. \A x : (FromFrozen(x)' <=> FromFrozen(x)) /\ (Complete(x)' <=> Complete(x))
    BY SamePlans
  <2>2. Named' = Named
    BY <1>1 DEF Named
  <2> SUFFICES ASSUME NEW q \in Run
               PROVE  /\ ppc'[q] = "assets" => FromFrozen(plan'[q])
                      /\ ppc'[q] \in {"new", "assets"} => plan'[q].assets = {}
                      /\ plan'[q].assets # {} => Complete(plan'[q])
                      /\ ppc'[q] \in {"check", "create", "write", "sync", "rename", "fsync"}
                            => Complete(plan'[q])
                      /\ q \in Named => Complete(plan'[q])
    <3>1. \A q \in Run : (FromFrozen(plan[q])' <=> FromFrozen(plan'[q]))
                         /\ (Complete(plan[q])' <=> Complete(plan'[q]))
      BY <2>1 DEF FromFrozen, Complete, Frozen, MapAllSucceeds
    <3> QED BY <2>2, <3>1 DEF PlansRight
  <2>3. CASE q = r
    BY <1>2, <1>3, <1>4, <2>3 DEF MayHold
  <2>4. CASE q # r
    BY <1>3, <1>4, <2>4, PipelineFacts DEF PlansRight
  <2> QED BY <2>3, <2>4
<1>7. FilesRight'
  <2>1. Orderly(p)
    <3>1. \A a \in p.assets : a[1] \in Nat
      BY ManifestAssumption DEF Row, PlanSet
    <3>2. CASE p.assets = {}
      BY <3>1, <3>2, FS_EmptySet DEF Orderly
    <3>3. CASE Complete(p)
      <4>1. PICK m \in Manifest : Frozen(m) /\ p.assets = manifest[m].rows
        BY <3>3 DEF Complete, FromFrozen
      <4>2. /\ IsFiniteSet(manifest[m].rows)
            /\ \A a, b \in manifest[m].rows : a[1] = b[1] => a = b
        BY <4>1, PipelineFacts, ScanFacts DEF ScanTypes, FrozenIsComplete
      <4> QED BY <3>1, <4>1, <4>2 DEF Orderly
    <3> QED BY <3>2, <3>3 DEF MayHold
  <2>2. Cardinality(p.assets) \in Nat /\ Len(Serialize(p)) = Cardinality(p.assets) + 6
    BY <2>1, SerializeFacts DEF IsFileOf
  <2>3. 0 <= 2 * Len(Serialize(p))
    BY <2>2
  <2>4. Named' = Named
    BY <1>1 DEF Named
  <2> SUFFICES ASSUME NEW q \in Run
               PROVE  /\ half'[q] <= 2 * Len(Serialize(plan'[q]))
                      /\ ppc'[q] \in Early => half'[q] = 0 /\ q \notin synced /\ q \notin Named
                      /\ q \in synced \/ ppc'[q] \in {"sync", "rename"} =>
                             half'[q] = 2 * Len(Serialize(plan'[q]))
                      /\ ppc'[q] = "rename" \/ q \in final \cup diskFinal => q \in synced
    BY <1>1, <2>4 DEF FilesRight, Whole
  <2>5. CASE q = r
    BY <1>1, <1>2, <1>3, <1>4, <2>3, <2>5 DEF Named, MayHold
  <2>6. CASE q # r
    BY <1>1, <1>3, <1>4, <2>6, PipelineFacts DEF FilesRight, Whole
  <2> QED BY <2>5, <2>6
<1>8. DirectoryRight'
  <2>1. r \notin temp /\ r \notin final /\ r \notin diskFinal
    BY <1>2 DEF Named
  <2>2. \A q \in temp \cup final : q \in Run /\ plan'[q] = plan[q]
    BY <1>2, <1>4, <2>1 DEF PlanTypes
  <2>3. /\ \A q, s \in temp' : plan'[q] = plan'[s] => q = s
        /\ \A q, s \in final' : plan'[q] = plan'[s] => q = s
    BY <1>1, <2>2, PipelineFacts DEF DirectoryRight
  <2> QED BY <1>1, <1>3, <2>1, <2>3, PipelineFacts DEF DirectoryRight, Ended, MayHold
<1>9. TasksRight'
  BY <1>1, PipelineFacts DEF TasksRight, Frozen, MapAllSucceeds
<1> QED BY <1>5, <1>6, <1>7, <1>8, <1>9 DEF PipelineInv

\* Reopen takes the digest of a frozen manifest, which is that of its rows.
LEMMA ReopenKeeps ==
    ASSUME PipelineInv, NEW r \in Run, NEW m \in Manifest, Reopen(r, m)
    PROVE  PipelineInv'
<1>1. /\ ppc[r] = "new" /\ UNCHANGED scanRest /\ NoFault /\ manifest' = manifest
      /\ UNCHANGED <<half, synced, temp, final, diskTemp, diskFinal, left, tasks>>
  BY DEF Reopen, scanRest, fileVars, directory
<1>2. ScanInv'
  BY <1>1, PipelineFacts, ScanStays
<1>3. CASE /\ manifest[m].state = "Frozen" /\ manifest[m].digest = ComputeManifestDigest(m)
           /\ Goto(r, "assets")
           /\ plan' = [plan EXCEPT ![r].manifest = m, ![r].digest = manifest[m].digest]
  <2>1. PICK old : old = plan[r]
    OBVIOUS
  <2>2. /\ old \in [manifest : Nat, digest : SUBSET Row, assets : SUBSET Row]
        /\ plan \in [Run -> [manifest : Nat, digest : SUBSET Row, assets : SUBSET Row]]
        /\ old.assets = {}
    BY <1>1, <2>1, PipelineFacts DEF PlanTypes, PlansRight
  <2>3. PICK p : p = [old EXCEPT !.manifest = m, !.digest = manifest[m].digest]
    OBVIOUS
  <2>4. Fill(r, p)
    BY <1>3, <2>1, <2>2, <2>3 DEF Fill
  <2>5. m \in Nat /\ manifest[m].digest \in SUBSET Row
    <3>1. manifest \in [Manifest -> [state : {"None", "Building", "Frozen"},
                                     rows : SUBSET Row, digest : SUBSET Row]]
      BY PipelineFacts, ScanFacts DEF ScanTypes
    <3> QED BY <3>1 DEF Manifest
  <2>6. /\ p \in [manifest : Nat, digest : SUBSET Row, assets : SUBSET Row]
        /\ p.manifest = m /\ p.digest = manifest[m].digest /\ p.assets = {}
    BY <2>2, <2>3, <2>5
  <2>7. FromFrozen(p)
    BY <1>3, <2>6 DEF FromFrozen, Frozen, ComputeManifestDigest
  <2>8. MayHold(p, "assets")
    BY <2>6, <2>7 DEF MayHold
  <2>9. ppc[r] \in {"new", "assets"}
    BY <1>1
  <2>10. /\ p \in PlanSet
         /\ manifest' = manifest
         /\ UNCHANGED <<half, synced, temp, final, diskTemp, diskFinal, left, tasks>>
    BY <1>1, <2>6 DEF PlanSet
  <2> QED BY <1>2, <1>3, <2>4, <2>8, <2>9, <2>10, FillKeeps
<1>4. CASE Goto(r, "error") /\ plan' = plan
  <2>1. r \notin temp
    BY <1>1, PipelineFacts DEF FilesRight, Early, Named
  <2>2. left' = left /\ left \subseteq Run
    BY <1>1, PipelineFacts DEF PlanTypes
  <2> QED BY <1>1, <1>2, <1>4, <2>1, <2>2, StopKeeps
<1> QED BY <1>3, <1>4 DEF Reopen

\* The rows are read after the transaction of Reopen: they are still those it checked.
LEMMA ReadManifestAssetsKeeps ==
    ASSUME PipelineInv, NEW r \in Run, ReadManifestAssets(r)
    PROVE  PipelineInv'
<1>1. /\ ppc[r] = "assets" /\ UNCHANGED scanRest /\ NoFault /\ manifest' = manifest
      /\ UNCHANGED <<half, synced, temp, final, diskTemp, diskFinal, left, tasks>>
  BY DEF ReadManifestAssets, scanRest, fileVars, directory
<1>2. ScanInv'
  BY <1>1, PipelineFacts, ScanStays
<1>3. PICK rows : rows = manifest[plan[r].manifest].rows
  OBVIOUS
<1>4. CASE MapAllSucceeds(rows) /\ plan' = [plan EXCEPT ![r].assets = rows] /\ Goto(r, "check")
  <2>1. PICK old : old = plan[r]
    OBVIOUS
  <2>2. /\ old \in [manifest : Nat, digest : SUBSET Row, assets : SUBSET Row]
        /\ plan \in [Run -> [manifest : Nat, digest : SUBSET Row, assets : SUBSET Row]]
        /\ FromFrozen(old)
    BY <1>1, <2>1, PipelineFacts DEF PlanTypes, PlansRight
  <2>3. PICK p : p = [old EXCEPT !.assets = rows]
    OBVIOUS
  <2>4. Fill(r, p)
    BY <1>4, <2>1, <2>2, <2>3 DEF Fill
  <2>5. rows \in SUBSET Row /\ rows = old.digest
    BY <1>3, <2>1, <2>2, PipelineFacts, ScanFacts DEF ScanTypes, FromFrozen
  <2>6. /\ p \in [manifest : Nat, digest : SUBSET Row, assets : SUBSET Row]
        /\ p.manifest = old.manifest /\ p.digest = old.digest /\ p.assets = rows
    BY <2>2, <2>3, <2>5
  <2>7. Complete(p)
    BY <1>4, <2>2, <2>5, <2>6 DEF FromFrozen, Complete
  <2>8. ppc[r] \in {"new", "assets"}
    BY <1>1
  <2>9. MayHold(p, "check")
    BY <2>7 DEF MayHold
  <2>10. /\ p \in PlanSet
         /\ manifest' = manifest
         /\ UNCHANGED <<half, synced, temp, final, diskTemp, diskFinal, left, tasks>>
    BY <1>1, <2>6 DEF PlanSet
  <2>11. Goto(r, "check")
    BY <1>4
  <2> QED BY <1>2, <2>4, <2>8, <2>9, <2>10, <2>11, FillKeeps
<1>5. CASE Goto(r, "error") /\ plan' = plan
  <2>1. r \notin temp
    BY <1>1, PipelineFacts DEF FilesRight, Early, Named
  <2>2. left' = left /\ left \subseteq Run
    BY <1>1, PipelineFacts DEF PlanTypes
  <2> QED BY <1>1, <1>2, <1>5, <2>1, <2>2, StopKeeps
<1> QED BY <1>3, <1>4, <1>5 DEF ReadManifestAssets

\* Step r of a run with a complete plan moves to a label after the reading.
LEMMA MoveKeeps ==
    ASSUME PipelineInv, NEW r \in Run, NEW label, Goto(r, label), manifest' = manifest,
           label \in {"write", "sync", "rename", "fsync", "ok", "error"},
           Complete(plan[r]), Named' \subseteq Named \cup {r}, UNCHANGED <<plan, tasks>>
    PROVE  /\ ppc' \in [Run -> Early \cup {"write", "sync", "rename", "fsync"} \cup Ended]
           /\ ppc'[r] = label /\ \A q \in Run : q # r => ppc'[q] = ppc[q]
           /\ PlansRight' /\ TasksRight'
<1>1. PlanTypes /\ plan' = plan /\ tasks' = tasks
  BY PipelineFacts
<1>2. /\ ppc' \in [Run -> Early \cup {"write", "sync", "rename", "fsync"} \cup Ended]
      /\ ppc'[r] = label /\ \A q \in Run : q # r => ppc'[q] = ppc[q]
  BY <1>1 DEF Goto, PlanTypes, Early, Ended
<1>3. PlansRight'
  <2>1. \A p : (FromFrozen(p)' <=> FromFrozen(p)) /\ (Complete(p)' <=> Complete(p))
    BY SamePlans
  <2> SUFFICES ASSUME NEW q \in Run
               PROVE  /\ ppc'[q] = "assets" => FromFrozen(plan[q])
                      /\ ppc'[q] \in {"new", "assets"} => plan[q].assets = {}
                      /\ plan[q].assets # {} => Complete(plan[q])
                      /\ ppc'[q] \in {"check", "create", "write", "sync", "rename", "fsync"}
                            => Complete(plan[q])
                      /\ q \in Named' => Complete(plan[q])
    BY <1>1, <2>1 DEF PlansRight
  <2>2. CASE q = r
    BY <1>2, <2>2
  <2>3. CASE q # r
    BY <1>2, <2>3, PipelineFacts DEF PlansRight
  <2> QED BY <2>2, <2>3
<1>4. TasksRight'
  BY <1>1, PipelineFacts DEF TasksRight, Frozen, MapAllSucceeds
<1> QED BY <1>2, <1>3, <1>4

\* A plan file that exists is compared and left alone.
LEMMA CheckExistingKeeps ==
    ASSUME PipelineInv, NEW r \in Run, CheckExisting(r)
    PROVE  PipelineInv'
<1>1. /\ ppc[r] = "check" /\ UNCHANGED scanRest /\ NoFault /\ manifest' = manifest
      /\ UNCHANGED <<plan, half, synced, temp, final, diskTemp, diskFinal, tasks>>
      /\ left' = left
  BY DEF CheckExisting, scanRest, fileVars, directory
<1>2. ScanInv' /\ r \notin temp /\ left \subseteq Run
  BY <1>1, PipelineFacts, ScanStays DEF FilesRight, Early, Named, PlanTypes
<1>3. PICK label : /\ Goto(r, label)
                   /\ \/ label \in {"found", "error"}
                      \/ label = "create" /\ ppc[r] = "check"
  BY <1>1 DEF CheckExisting
<1> QED BY <1>1, <1>2, <1>3, StopKeeps

\* O_EXCL: the temporary name is taken only when nobody has it.
LEMMA CreateTempKeeps ==
    ASSUME PipelineInv, NEW r \in Run, CreateTemp(r)
    PROVE  PipelineInv'
<1>1. /\ ppc[r] = "create" /\ UNCHANGED scanRest /\ NoFault /\ manifest' = manifest
      /\ plan' = plan /\ half' = half /\ synced' = synced /\ final' = final
      /\ diskTemp' = diskTemp /\ diskFinal' = diskFinal /\ left' = left /\ tasks' = tasks
  BY DEF CreateTemp, scanRest, fileVars
<1>2. /\ ScanInv' /\ PlanTypes /\ Complete(plan[r]) /\ r \notin Named /\ half[r] = 0
      /\ r \notin synced
  BY <1>1, PipelineFacts, ScanStays DEF FilesRight, Early, PlansRight
<1>3. CASE SameName(r, temp) = {} /\ temp' = temp \cup {r} /\ Goto(r, "write")
  <2>1. Named' \subseteq Named \cup {r}
    BY <1>1, <1>3 DEF Named
  <2>2. /\ ppc' \in [Run -> Early \cup {"write", "sync", "rename", "fsync"} \cup Ended]
        /\ ppc'[r] = "write" /\ \A q \in Run : q # r => ppc'[q] = ppc[q]
        /\ PlansRight' /\ TasksRight'
    BY <1>1, <1>2, <1>3, <2>1, MoveKeeps
  <2>3. PlanTypes'
    BY <1>1, <1>2, <1>3, <2>2 DEF PlanTypes
  <2>4. FilesRight'
    BY <1>1, <1>2, <2>1, <2>2, PipelineFacts DEF FilesRight, Whole, Early
  <2>5. \A q, s \in temp' : plan'[q] = plan'[s] => q = s
    BY <1>1, <1>3, PipelineFacts DEF DirectoryRight, SameName
  <2>6. DirectoryRight'
    BY <1>1, <1>3, <2>2, <2>5, PipelineFacts DEF DirectoryRight, Ended
  <2> QED BY <1>2, <2>2, <2>3, <2>4, <2>6 DEF PipelineInv
<1>4. CASE Goto(r, "error") /\ temp' = temp
  <2>1. r \notin temp /\ left \subseteq Run
    BY <1>2 DEF Named, PlanTypes
  <2> QED BY <1>1, <1>2, <1>4, <2>1, StopKeeps
<1> QED BY <1>3, <1>4 DEF CreateTemp

\* A write makes the file longer, never longer than the plan.
LEMMA WriteLinesKeeps ==
    ASSUME PipelineInv, NEW r \in Run, NEW n \in Nat, WriteLines(r, n)
    PROVE  PipelineInv'
<1>1. /\ ppc[r] = "write" /\ UNCHANGED scanRest /\ NoFault /\ manifest' = manifest
      /\ plan' = plan /\ synced' = synced /\ temp' = temp /\ final' = final
      /\ diskTemp' = diskTemp /\ diskFinal' = diskFinal /\ left' = left /\ tasks' = tasks
  BY DEF WriteLines, scanRest, directory
<1>2. PICK size : size = 2 * Len(Serialize(plan[r]))
  OBVIOUS
<1>3. /\ n > 0 /\ half[r] + n <= size /\ half' = [half EXCEPT ![r] = half[r] + n]
      /\ Goto(r, IF half'[r] = size THEN "sync" ELSE "write")
  BY <1>2 DEF WriteLines
<1>4. ScanInv' /\ PlanTypes /\ Complete(plan[r]) /\ r \in temp /\ size \in Nat
  BY <1>1, <1>2, PipelineFacts, ScanStays DEF PlansRight, DirectoryRight
<1>5. half[r] \in Nat /\ half[r] < size
  BY <1>3, <1>4 DEF PlanTypes
<1>6. /\ half' \in [Run -> Nat] /\ half'[r] = half[r] + n
      /\ \A q \in Run : q # r => half'[q] = half[q]
  BY <1>3, <1>4, <1>5 DEF PlanTypes
<1>7. PICK label : label = IF half'[r] = size THEN "sync" ELSE "write"
  OBVIOUS
<1>8. label \in {"sync", "write"} /\ Goto(r, label)
  BY <1>3, <1>7
<1>9. /\ ppc' \in [Run -> Early \cup {"write", "sync", "rename", "fsync"} \cup Ended]
      /\ ppc'[r] = label /\ \A q \in Run : q # r => ppc'[q] = ppc[q]
      /\ PlansRight' /\ TasksRight'
  <2>1. Named' \subseteq Named \cup {r}
    BY <1>1 DEF Named
  <2> QED BY <1>1, <1>4, <1>8, <2>1, MoveKeeps
<1>10. PlanTypes'
  BY <1>1, <1>4, <1>6, <1>9 DEF PlanTypes
<1>11. r \notin synced
  BY <1>2, <1>5, PipelineFacts DEF FilesRight, Whole, PlanTypes
<1>12. FilesRight'
  <2> SUFFICES ASSUME NEW q \in Run
               PROVE  /\ half'[q] <= 2 * Len(Serialize(plan[q]))
                      /\ ppc'[q] \in Early => half'[q] = 0 /\ q \notin synced /\ q \notin Named
                      /\ q \in synced \/ ppc'[q] \in {"sync", "rename"} =>
                             half'[q] = 2 * Len(Serialize(plan[q]))
                      /\ ppc'[q] = "rename" \/ q \in final \cup diskFinal => q \in synced
    BY <1>1 DEF FilesRight, Whole, Named
  <2>1. CASE q = r
    <3>1. ppc'[r] \notin Early /\ ppc'[r] # "rename" /\ (ppc'[r] = "sync" => half'[r] = size)
      BY <1>7, <1>9 DEF Early
    <3>2. r \notin final \cup diskFinal
      BY <1>11, PipelineFacts DEF FilesRight
    <3> QED BY <1>2, <1>3, <1>6, <1>8, <1>9, <1>11, <2>1, <3>1, <3>2
  <2>2. CASE q # r
    BY <1>6, <1>9, <2>2, PipelineFacts DEF FilesRight, Whole
  <2> QED BY <2>1, <2>2
<1>13. DirectoryRight'
  BY <1>1, <1>4, <1>8, <1>9, PipelineFacts DEF DirectoryRight, Ended
<1> QED BY <1>4, <1>9, <1>10, <1>12, <1>13 DEF PipelineInv

\* The whole file is made durable.
LEMMA FdatasyncKeeps ==
    ASSUME PipelineInv, NEW r \in Run, Fdatasync(r)
    PROVE  PipelineInv'
<1>1. /\ ppc[r] = "sync" /\ UNCHANGED scanRest /\ NoFault /\ manifest' = manifest
      /\ plan' = plan /\ half' = half /\ synced' = synced \cup {r} /\ temp' = temp
      /\ final' = final /\ diskTemp' = diskTemp /\ diskFinal' = diskFinal /\ left' = left
      /\ tasks' = tasks /\ Goto(r, "rename")
  BY DEF Fdatasync, scanRest, directory
<1>2. ScanInv' /\ PlanTypes /\ Complete(plan[r]) /\ r \in temp /\ Whole(r)
  BY <1>1, PipelineFacts, ScanStays DEF PlansRight, DirectoryRight, FilesRight
<1>3. /\ ppc' \in [Run -> Early \cup {"write", "sync", "rename", "fsync"} \cup Ended]
      /\ ppc'[r] = "rename" /\ \A q \in Run : q # r => ppc'[q] = ppc[q]
      /\ PlansRight' /\ TasksRight'
  <2>1. Named' \subseteq Named \cup {r}
    BY <1>1 DEF Named
  <2> QED BY <1>1, <1>2, <2>1, MoveKeeps
<1>4. PlanTypes'
  BY <1>1, <1>2, <1>3 DEF PlanTypes
<1>5. FilesRight'
  BY <1>1, <1>2, <1>3, PipelineFacts DEF FilesRight, Whole, Named, Early
<1>6. DirectoryRight'
  BY <1>1, <1>2, <1>3, PipelineFacts DEF DirectoryRight, Ended
<1> QED BY <1>2, <1>3, <1>4, <1>5, <1>6 DEF PipelineInv

\* cleanup() removes the file of the run itself, nobody else's.
LEMMA WriteFailsKeeps ==
    ASSUME PipelineInv, NEW r \in Run, WriteFails(r)
    PROVE  PipelineInv'
<1>1. /\ ppc[r] \in {"write", "sync"} /\ UNCHANGED scanRest /\ Fault /\ manifest' = manifest
      /\ plan' = plan /\ half' = half /\ synced' = synced /\ final' = final
      /\ diskTemp' = diskTemp /\ diskFinal' = diskFinal /\ left' = left
      /\ tasks' = tasks /\ Goto(r, "error") /\ temp' = temp \ SameName(r, temp)
  BY DEF WriteFails, scanRest, fileVars
<1>2. ScanInv' /\ PlanTypes /\ Complete(plan[r]) /\ r \in temp
  BY <1>1, PipelineFacts, ScanStays DEF PlansRight, DirectoryRight
<1>3. temp' = temp \ {r}
  BY <1>1, <1>2, OwnTemp
<1>4. /\ ppc' \in [Run -> Early \cup {"write", "sync", "rename", "fsync"} \cup Ended]
      /\ ppc'[r] = "error" /\ \A q \in Run : q # r => ppc'[q] = ppc[q]
      /\ PlansRight' /\ TasksRight'
  <2>1. Named' \subseteq Named \cup {r}
    BY <1>1, <1>3 DEF Named
  <2> QED BY <1>1, <1>2, <2>1, MoveKeeps
<1>5. PlanTypes'
  BY <1>1, <1>2, <1>3, <1>4 DEF PlanTypes
<1>6. FilesRight'
  BY <1>1, <1>3, <1>4, PipelineFacts DEF FilesRight, Whole, Named, Early
<1>7. DirectoryRight'
  BY <1>1, <1>3, <1>4, PipelineFacts DEF DirectoryRight, Ended
<1> QED BY <1>2, <1>4, <1>5, <1>6, <1>7 DEF PipelineInv

\* The rename moves the run's own file, whole and synced, to a free name.
LEMMA RenameNoReplaceKeeps ==
    ASSUME PipelineInv, NEW r \in Run, RenameNoReplace(r)
    PROVE  PipelineInv'
<1>1. /\ ppc[r] = "rename" /\ UNCHANGED scanRest /\ NoFault /\ manifest' = manifest
      /\ plan' = plan /\ half' = half /\ synced' = synced /\ SameName(r, final) = {}
      /\ diskTemp' = diskTemp /\ diskFinal' = diskFinal /\ left' = left
      /\ tasks' = tasks /\ Goto(r, "fsync") /\ temp' = temp \ SameName(r, temp)
      /\ final' = final \cup SameName(r, temp)
  BY DEF RenameNoReplace, scanRest, fileVars
<1>2. ScanInv' /\ PlanTypes /\ Complete(plan[r]) /\ r \in temp /\ r \in synced
  BY <1>1, PipelineFacts, ScanStays DEF PlansRight, DirectoryRight, FilesRight
<1>3. temp' = temp \ {r} /\ final' = final \cup {r}
  BY <1>1, <1>2, OwnTemp
<1>4. /\ ppc' \in [Run -> Early \cup {"write", "sync", "rename", "fsync"} \cup Ended]
      /\ ppc'[r] = "fsync" /\ \A q \in Run : q # r => ppc'[q] = ppc[q]
      /\ PlansRight' /\ TasksRight'
  <2>1. Named' \subseteq Named \cup {r}
    BY <1>1, <1>3 DEF Named
  <2> QED BY <1>1, <1>2, <2>1, MoveKeeps
<1>5. PlanTypes'
  BY <1>1, <1>2, <1>3, <1>4 DEF PlanTypes
<1>6. FilesRight'
  BY <1>1, <1>2, <1>3, <1>4, PipelineFacts DEF FilesRight, Whole, Named, Early
<1>7. \A q, s \in final' : plan'[q] = plan'[s] => q = s
  BY <1>1, <1>3, PipelineFacts DEF DirectoryRight, SameName
<1>8. DirectoryRight'
  BY <1>1, <1>3, <1>4, <1>7, PipelineFacts DEF DirectoryRight, Ended
<1> QED BY <1>2, <1>4, <1>5, <1>6, <1>8 DEF PipelineInv

\* A failing rename leaves the temporary file, which is then on the list of those left.
LEMMA RenameFailsKeeps ==
    ASSUME PipelineInv, NEW r \in Run, RenameFails(r)
    PROVE  PipelineInv'
<1>1. /\ UNCHANGED scanRest /\ (Fault \/ NoFault) /\ manifest' = manifest
      /\ UNCHANGED <<plan, half, synced, temp, final, diskTemp, diskFinal, tasks>>
      /\ left' = left \cup {r} /\ Goto(r, "error")
  BY DEF RenameFails, scanRest, fileVars, directory
<1>2. ScanInv' /\ left \subseteq left' /\ left' \subseteq Run /\ r \in left'
  BY <1>1, PipelineFacts, ScanStays DEF PlanTypes
<1> QED BY <1>1, <1>2, StopKeeps

\* The directory is synced: the published file is durable from now on.
LEMMA FsyncDirectoryKeeps ==
    ASSUME PipelineInv, NEW r \in Run, FsyncDirectory(r)
    PROVE  PipelineInv'
<1>1. /\ ppc[r] = "fsync" /\ UNCHANGED scanRest /\ NoFault /\ manifest' = manifest
      /\ plan' = plan /\ half' = half /\ synced' = synced /\ temp' = temp /\ final' = final
      /\ diskTemp' = temp /\ diskFinal' = final /\ left' = left
      /\ tasks' = tasks /\ Goto(r, "ok")
  BY DEF FsyncDirectory, scanRest, fileVars
<1>2. ScanInv' /\ PlanTypes /\ Complete(plan[r]) /\ r \in final /\ r \notin temp
  BY <1>1, PipelineFacts, ScanStays DEF PlansRight, DirectoryRight
<1>3. Named' \subseteq Named
  BY <1>1 DEF Named
<1>4. /\ ppc' \in [Run -> Early \cup {"write", "sync", "rename", "fsync"} \cup Ended]
      /\ ppc'[r] = "ok" /\ \A q \in Run : q # r => ppc'[q] = ppc[q]
      /\ PlansRight' /\ TasksRight'
  BY <1>1, <1>2, <1>3, MoveKeeps
<1>5. PlanTypes'
  BY <1>1, <1>2, <1>4 DEF PlanTypes
<1>6. FilesRight'
  BY <1>1, <1>3, <1>4, PipelineFacts DEF FilesRight, Whole, Early
<1>7. DirectoryRight'
  BY <1>1, <1>2, <1>4, PipelineFacts DEF DirectoryRight, Ended
<1> QED BY <1>2, <1>4, <1>5, <1>6, <1>7 DEF PipelineInv

\* A run that is killed leaves its temporary file, if it has one.
LEMMA PlanAbortsKeeps ==
    ASSUME PipelineInv, NEW r \in Run, PlanAborts(r)
    PROVE  PipelineInv'
<1>1. /\ UNCHANGED scanRest /\ Fault /\ manifest' = manifest
      /\ UNCHANGED <<plan, half, synced, temp, final, diskTemp, diskFinal, tasks>>
      /\ left' = left \cup (temp \cap {r}) /\ Goto(r, "error")
  BY DEF PlanAborts, scanRest, fileVars, directory
<1>2. ScanInv' /\ left \subseteq left' /\ left' \subseteq Run /\ (r \in temp => r \in left')
  BY <1>1, PipelineFacts, ScanStays DEF PlanTypes
<1> QED BY <1>1, <1>2, StopKeeps

\* A file that parses is the whole file of the plan of its run.
LEMMA ParsedIsPlan ==
    ASSUME PipelineInv, NEW r \in Run, Parses(LinesOf(r))
    PROVE  Whole(r) /\ Parsed(LinesOf(r)) = plan[r]
<1>1. PICK p, h, lines : p = plan[r] /\ h = half[r] /\ lines = LinesOf(r)
  OBVIOUS
<1>2. /\ Orderly(p) /\ h \in Nat /\ h <= 2 * Len(Serialize(p))
      /\ p \in [manifest : Nat, digest : SUBSET Row, assets : SUBSET Row]
  BY <1>1, PipelineFacts DEF PlanTypes, FilesRight
<1>3. lines = SubSeq(Serialize(p), 1, h \div 2) \o (IF h % 2 = 1 THEN <<Torn>> ELSE <<>>)
  BY <1>1 DEF LinesOf
<1>4. h = 2 * Len(Serialize(p)) /\ lines = Serialize(p)
  BY <1>1, <1>2, <1>3, CutDoesNotParse
<1>5. p = [manifest |-> p.manifest, digest |-> p.digest, assets |-> p.assets]
  BY <1>2
<1>6. Parsed(Serialize(p)) = p
  BY <1>2, <1>5, RoundTrip
<1> QED BY <1>1, <1>4, <1>6 DEF Whole

\* The tasks of a plan file are the rows of its manifest.
LEMMA MaterializeKeeps ==
    ASSUME PipelineInv, NEW r \in Run, Materialize(r)
    PROVE  PipelineInv'
<1>1. /\ r \in final /\ Parses(LinesOf(r)) /\ UNCHANGED scanRest /\ NoFault
      /\ manifest' = manifest /\ ppc' = ppc /\ plan' = plan /\ half' = half
      /\ synced' = synced /\ temp' = temp /\ final' = final /\ diskTemp' = diskTemp
      /\ diskFinal' = diskFinal /\ left' = left
  BY DEF Materialize, scanRest, fileVars, directory
<1>2. ScanInv' /\ Complete(plan[r]) /\ Parsed(LinesOf(r)) = plan[r]
  BY <1>1, PipelineFacts, ScanStays, ParsedIsPlan DEF PlansRight, Named
<1>3. PlanTypes' /\ DirectoryRight' /\ FilesRight'
  BY <1>1, PipelineFacts DEF PlanTypes, DirectoryRight, FilesRight, Named, Whole
<1>4. PlansRight'
  <2>1. \A p : (FromFrozen(p)' <=> FromFrozen(p)) /\ (Complete(p)' <=> Complete(p))
    BY <1>1, SamePlans
  <2> QED BY <1>1, <2>1, PipelineFacts DEF PlansRight, Named
<1>5. TasksRight'
  <2>1. PICK t : /\ t = [id |-> plan[r], artifact |-> LinesOf(r), assets |-> plan[r].assets]
                 /\ tasks' = tasks \cup {t}
    BY <1>2 DEF Materialize
  <2>2. t.id = plan[r] /\ t.assets = plan[r].assets
    BY <2>1
  <2>3. /\ t.id.manifest \in Manifest /\ Frozen(t.id.manifest)
        /\ t.assets = manifest[t.id.manifest].rows /\ MapAllSucceeds(t.assets)
    BY <1>2, <2>2 DEF Complete, FromFrozen
  <2> QED BY <1>1, <2>1, <2>3, PipelineFacts DEF TasksRight, Frozen, MapAllSucceeds
<1> QED BY <1>2, <1>3, <1>4, <1>5 DEF PipelineInv

\* A power loss keeps what was synced, file by file and name by name.
LEMMA PowerLossKeeps == ASSUME PipelineInv, PowerLoss PROVE PipelineInv'
<1>1. /\ Fault /\ ScanEnds /\ manifest' = manifest /\ plan' = plan /\ synced' = synced
      /\ tasks' = tasks /\ UNCHANGED <<tree, edits, manifest, reported, untouched, stable>>
      /\ ppc' = [r \in Run |-> IF ppc[r] \in Ended \cup {"new"} THEN ppc[r] ELSE "error"]
  BY DEF PowerLoss
<1>2. PICK t, f :
          /\ t \in SUBSET (temp \cup diskTemp) /\ f \in SUBSET (final \cup diskFinal)
          /\ final \cap diskFinal \subseteq f
          /\ \A q, s \in t : plan[q] = plan[s] => q = s
          /\ \A q, s \in f : plan[q] = plan[s] => q = s
          /\ temp' = t /\ diskTemp' = t /\ final' = f /\ diskFinal' = f
          /\ left' = left \cup t
  BY DEF PowerLoss
<1>3. PICK h \in 0 .. MaxHalf :
          half' = [r \in Run |-> IF r \in synced \/ half[r] < h THEN half[r] ELSE h]
  BY DEF PowerLoss
<1>4. h \in Nat
  <2>1. Cardinality(Path) \in Nat /\ Len(Trailer) = 5
    BY ManifestAssumption, FS_CardinalityType, TrailerFacts
  <2>2. MaxHalf \in Nat
    BY <2>1 DEF MaxHalf
  <2> QED BY <2>2
<1>5. ScanInv' /\ PlanTypes
  <2>1. faults \in 0 .. MaxFaults /\ MaxFaults \in Nat
    BY PipelineFacts, ScanFacts, ManifestAssumption DEF ScanTypes
  <2>2. faults' \in 0 .. MaxFaults
    BY <1>1, <2>1 DEF Fault
  <2> QED BY <1>1, <2>2, PipelineFacts, ScanStops
<1>6. /\ half' \in [Run -> Nat] /\ \A r \in Run : half'[r] <= half[r]
      /\ \A r \in Run : r \in synced => half'[r] = half[r]
  BY <1>3, <1>4, <1>5 DEF PlanTypes
<1>7. /\ ppc' \in [Run -> Early \cup {"write", "sync", "rename", "fsync"} \cup Ended]
      /\ \A r \in Run : ppc'[r] \in Ended \cup {"new"}
      /\ \A r \in Run : ppc'[r] = ppc[r] \/ ppc'[r] = "error"
  BY <1>1, <1>5 DEF PlanTypes, Early, Ended
<1>8. Named' \subseteq Named
  BY <1>2 DEF Named
<1>9. PlanTypes'
  BY <1>1, <1>2, <1>5, <1>6, <1>7 DEF PlanTypes
<1>10. PlansRight'
  <2>1. \A p : (FromFrozen(p)' <=> FromFrozen(p)) /\ (Complete(p)' <=> Complete(p))
    BY <1>1, SamePlans
  <2> QED BY <1>1, <1>7, <1>8, <2>1, PipelineFacts DEF PlansRight, Ended
<1>11. FilesRight'
  <2> SUFFICES ASSUME NEW r \in Run
               PROVE  /\ half'[r] <= 2 * Len(Serialize(plan[r]))
                      /\ ppc'[r] \in Early => half'[r] = 0 /\ r \notin synced /\ r \notin Named'
                      /\ r \in synced \/ ppc'[r] \in {"sync", "rename"} =>
                             half'[r] = 2 * Len(Serialize(plan[r]))
                      /\ ppc'[r] = "rename" \/ r \in final' \cup diskFinal' => r \in synced
    BY <1>1 DEF FilesRight, Whole
  <2>1. half'[r] <= 2 * Len(Serialize(plan[r]))
    <3>1. half[r] \in Nat /\ half'[r] \in Nat /\ half'[r] <= half[r]
      BY <1>5, <1>6 DEF PlanTypes
    <3>2. half[r] <= 2 * Len(Serialize(plan[r])) /\ Len(Serialize(plan[r])) \in Nat
      BY PipelineFacts DEF FilesRight
    <3> QED BY <3>1, <3>2
  <2>2. ppc'[r] \in Early => half'[r] = 0 /\ r \notin synced /\ r \notin Named'
    <3> SUFFICES ASSUME ppc'[r] \in Early PROVE half'[r] = 0 /\ r \notin synced /\ r \notin Named'
      OBVIOUS
    <3>1. ppc[r] \in Early
      BY <1>7 DEF Early
    <3>2. half[r] = 0 /\ r \notin synced /\ r \notin Named
      BY <3>1, PipelineFacts DEF FilesRight
    <3>3. half'[r] \in Nat /\ half'[r] <= half[r]
      BY <1>6
    <3> QED BY <1>8, <3>2, <3>3
  <2>3. r \in synced => half'[r] = 2 * Len(Serialize(plan[r]))
    BY <1>6, PipelineFacts DEF FilesRight, Whole
  <2>4. ppc'[r] \notin {"sync", "rename"}
    BY <1>7 DEF Ended
  <2>5. r \in final' \cup diskFinal' => r \in synced
    BY <1>2, PipelineFacts DEF FilesRight
  <2> QED BY <2>1, <2>2, <2>3, <2>4, <2>5
<1>12. DirectoryRight'
  <2>1. \A r \in Run : ppc'[r] = "ok" => r \in final' /\ r \in diskFinal'
    BY <1>2, <1>7, PipelineFacts DEF DirectoryRight
  <2>2. \A r \in Run : ppc'[r] \notin {"write", "sync", "rename", "fsync"}
    BY <1>7 DEF Ended
  <2>3. \A r \in temp' : r \in left'
    BY <1>2
  <2> QED BY <1>1, <1>2, <2>1, <2>2, <2>3 DEF DirectoryRight
<1>13. TasksRight'
  BY <1>1, PipelineFacts DEF TasksRight, Frozen, MapAllSucceeds
<1> QED BY <1>5, <1>9, <1>10, <1>11, <1>12, <1>13 DEF PipelineInv

\* Every step of the pipeline keeps the invariant.
LEMMA PipelineInvNext ==
    ASSUME PipelineInv, [PipelineNext]_pipelineVars
    PROVE  PipelineInv'
<1>1. CASE (Scan \/ \E p \in Path : EditSource(p)) /\ UNCHANGED planVars
  <2>1. ScanInv /\ ScanInv'
    BY <1>1, PipelineFacts, ScanInvNext
  <2>2. \A m \in Manifest : Frozen(m) => manifest'[m] = manifest[m]
    BY <1>1, <2>1, FrozenStays
  <2> QED BY <1>1, <2>1, <2>2, PlansStay
<1>2. ASSUME NEW r \in Run, PlanRun(r) \/ Materialize(r) PROVE PipelineInv'
  <2>1. CASE \E m \in Manifest : Reopen(r, m)
    BY <2>1, ReopenKeeps
  <2>2. CASE ReadManifestAssets(r)
    BY <2>2, ReadManifestAssetsKeeps
  <2>3. CASE CheckExisting(r)
    BY <2>3, CheckExistingKeeps
  <2>4. CASE CreateTemp(r)
    BY <2>4, CreateTempKeeps
  <2>5. CASE \E n \in 1 .. MaxHalf : WriteLines(r, n)
    <3>1. Cardinality(Path) \in Nat /\ Len(Trailer) = 5
      BY ManifestAssumption, FS_CardinalityType, TrailerFacts
    <3>2. \A n \in 1 .. MaxHalf : n \in Nat
      BY <3>1 DEF MaxHalf
    <3> QED BY <2>5, <3>2, WriteLinesKeeps
  <2>6. CASE Fdatasync(r)
    BY <2>6, FdatasyncKeeps
  <2>7. CASE WriteFails(r)
    BY <2>7, WriteFailsKeeps
  <2>8. CASE RenameNoReplace(r)
    BY <2>8, RenameNoReplaceKeeps
  <2>9. CASE RenameFails(r)
    BY <2>9, RenameFailsKeeps
  <2>10. CASE FsyncDirectory(r)
    BY <2>10, FsyncDirectoryKeeps
  <2>11. CASE PlanAborts(r)
    BY <2>11, PlanAbortsKeeps
  <2>12. CASE Materialize(r)
    BY <2>12, MaterializeKeeps
  <2> QED BY <1>2, <2>1, <2>2, <2>3, <2>4, <2>5, <2>6, <2>7, <2>8, <2>9, <2>10, <2>11, <2>12
          DEF PlanRun
<1>3. CASE PowerLoss
  BY <1>3, PowerLossKeeps
<1>4. CASE UNCHANGED pipelineVars
  <2>1. /\ UNCHANGED planVars /\ UNCHANGED scanRest /\ NoFault /\ manifest' = manifest
    BY <1>4 DEF pipelineVars, scanVars, scanRest, scanLocals, NoFault
  <2>2. ScanInv'
    BY <2>1, PipelineFacts, ScanStays
  <2> QED BY <2>1, <2>2, PlansStay
<1> QED BY <1>1, <1>2, <1>3, <1>4 DEF PipelineNext

---------------------------------------------------------------------------
(* Theorems.                                                               *)

\* The inductive invariant holds in every reachable state of the pipeline.
THEOREM PipelineInvariant == PipelineSpec => []PipelineInv
<1>1. PipelineInit => PipelineInv
  BY PipelineInvInit
<1>2. PipelineInv /\ [PipelineNext]_pipelineVars => PipelineInv'
  BY PipelineInvNext
<1> QED BY <1>1, <1>2, PTL DEF PipelineSpec

\* Every frozen manifest lists what stood still during its scan, once each, and what a
\* scan has printed about its manifest stays true.
THEOREM ManifestsStandSafe == PipelineSpec => []ManifestsStand
<1>1. PipelineInv => ManifestsStand
  BY PipelineFacts, ScanFacts DEF ManifestsStand
<1> QED BY <1>1, PipelineInvariant, PTL

\* A file under a final name is a whole plan at every moment, whatever crashes; a file
\* that parses is the plan of its run; and a plan that was reported published is on disk.
THEOREM PlansStandSafe == PipelineSpec => []PlansStand
<1>1. PipelineInv => PlansStand
  <2> SUFFICES ASSUME PipelineInv PROVE PlansStand
    OBVIOUS
  <2>1. \A r \in final : Whole(r) /\ SameName(r, final) = {r}
    BY PipelineFacts DEF FilesRight, DirectoryRight, PlanTypes, SameName
  <2>2. \A r \in temp \cup final : r \in Run
    BY PipelineFacts DEF PlanTypes
  <2>3. \A r \in temp \cup final : Parses(LinesOf(r)) => Whole(r) /\ Parsed(LinesOf(r)) = plan[r]
    BY <2>2, ParsedIsPlan
  <2>4. ReportedPlanIsDurable
    BY PipelineFacts DEF DirectoryRight, ReportedPlanIsDurable
  <2> QED BY <2>1, <2>3, <2>4 DEF PlansStand, PlanFileIsWhole
<1> QED BY <1>1, PipelineInvariant, PTL

\* The variables keep their types, runs of plan never touch each other's temporary file,
\* and one nobody works on was left by a kill or a failed rename.
THEOREM TempsOwnedSafe == PipelineSpec => []TempsOwned
<1>1. PipelineInv => TempsOwned
  <2> SUFFICES ASSUME PipelineInv PROVE TempsOwned
    OBVIOUS
  <2>1. ManifestTypeOK
    BY PipelineFacts, ScanFacts DEF ScanTypes, ManifestTypeOK
  <2>2. PlanTypeOK
    BY <2>1, PipelineFacts DEF PlanTypes, FilesRight, PlanTypeOK
  <2>3. TempHasOwner
    BY PipelineFacts DEF PlanTypes, DirectoryRight, TempHasOwner
  <2> QED BY <2>2, <2>3 DEF TempsOwned
<1> QED BY <1>1, PipelineInvariant, PTL

\* The tasks of a migration are exactly the rows of one frozen manifest, with everything
\* that stood still during its scan, and no two of them collide when case is ignored.
THEOREM TasksAreTheManifestSafe == PipelineSpec => []TasksAreTheManifest
<1>1. PipelineInv => TasksAreTheManifest
  <2> SUFFICES ASSUME PipelineInv, NEW t \in tasks, NEW m, m = t.id.manifest
               PROVE  /\ manifest[m].state = "Frozen"
                      /\ t.assets = manifest[m].rows /\ t.assets = manifest[m].digest
                      /\ MapAllSucceeds(t.assets) /\ stable[m] \subseteq t.assets
    BY DEF TasksAreTheManifest
  <2>1. m \in Manifest /\ Frozen(m) /\ t.assets = manifest[m].rows /\ MapAllSucceeds(t.assets)
    BY PipelineFacts DEF TasksRight
  <2>2. manifest[m].digest = manifest[m].rows /\ stable[m] \subseteq manifest[m].rows
    BY <2>1, PipelineFacts, ScanFacts DEF DigestsOK, FrozenIsComplete
  <2> QED BY <2>1, <2>2 DEF Frozen
<1> QED BY <1>1, PipelineInvariant, PTL
=============================================================================
