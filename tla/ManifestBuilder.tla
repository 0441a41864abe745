-------------------------- MODULE ManifestBuilder --------------------------
(***************************************************************************)
(* `scan`: ScanService walks the source folder (LocalFolderSource,         *)
(* LinuxDirectoryWalker) and writes what it finds into a manifest of the   *)
(* database (SqliteManifestBuilder), which it freezes at the end.  The     *)
(* source is in use meanwhile: another program creates, changes and        *)
(* removes entries between any two steps of the walk.  A scan that fails   *)
(* or is killed leaves its manifest BUILDING; the next scan takes a new    *)
(* manifest id.  (Scans that run side by side share nothing but the        *)
(* database lock.)                                                         *)
(*                                                                         *)
(* A database transaction is atomic and durable when COMMIT is OK (WAL     *)
(* with the default synchronous=FULL).  A digest is the set of rows it was *)
(* computed from: the hash is injective and its input canonical.           *)
(***************************************************************************)
EXTENDS Naturals, Sequences, FiniteSets, SequencesExt, Sorting

CONSTANTS
    Path,       \* every entry the source may have, numbers in the order of their names
    Dir,        \* those that are directories when they exist
    Parent,     \* the directory of each entry, Root for the top level
    Staging,    \* entries IsReceiverStagingPath skips
    Present,    \* entries that exist at the start
    BatchSize,  \* batch_size, 256 in the code
    MaxScans,   \* bound on the scans, also the number of manifest ids
    MaxEdits,   \* bound on changes of the source
    MaxFaults   \* bound on failing calls and killed processes

Root == 0

ASSUME ManifestAssumption ==
    /\ Path \subseteq Nat \ {Root} /\ Dir \subseteq Path /\ Staging \subseteq Path
    /\ IsFiniteSet(Path) /\ Parent \in [Path -> Dir \cup {Root}]
    /\ \A S \in SUBSET Path : S # {} => \E p \in S : Parent[p] \notin S   \* no cycles
    /\ Present \subseteq Path /\ \A p \in Present : Parent[p] \in Present \cup {Root}
    /\ BatchSize \in Nat \ {0}
    /\ MaxScans \in Nat /\ MaxEdits \in Nat /\ MaxFaults \in Nat

Manifest == 1 .. MaxScans

VARIABLES
    tree,      \* per entry its identity, 0 while it does not exist
    edits,     \* changes of the source so far; the next new identity follows from it
    manifest,  \* the tables source_manifest and physical_asset
    spc,       \* the scan process: idle, walk, flush or freeze
    mid,       \* manifest_id_ of the current or the last scan
    todo,      \* the walk: entries to visit, directories to open
    pending,   \* pending_assets_
    asset_count, \* asset_count_
    reported,  \* what successful scans have printed: manifest, count, digest
    untouched, \* entries nobody has changed since the scan began
    stable,    \* per manifest: the untouched assets when it was frozen
    faults

scanLocals == <<spc, mid, todo, pending, asset_count>>
scanVars == <<tree, edits, manifest, scanLocals, reported, untouched, stable, faults>>

Row == Path \X Nat      \* an asset: its path and the identity fstatat returned

NoManifest == [state |-> "None", rows |-> {}, digest |-> {}]

Identity(p) == tree[p]

\* The digest is taken over all rows of the manifest in the order of their paths; the
\* hash is injective.
ComputeManifestDigest(m) == manifest[m].rows

Exists(p) == p \in Path => tree[p] # 0     \* the root always exists

ScanInit ==
    /\ tree = [p \in Path |-> IF p \in Present THEN 1 ELSE 0]
    /\ edits = 0 /\ faults = 0
    /\ manifest = [m \in Manifest |-> NoManifest]
    /\ spc = "idle" /\ mid = 0
    /\ todo = <<>> /\ pending = <<>> /\ asset_count = 0
    /\ reported = {} /\ untouched = Path
    /\ stable = [m \in Manifest |-> {}]

-----------------------------------------------------------------------------
(* Another program at work in the source *)

\* Create the entry, or change it; a directory is removed when it is empty.  (While no
\* scan runs nothing looks at the source.)
EditSource(p) ==
    /\ spc # "idle" /\ edits < MaxEdits /\ edits' = edits + 1
    /\ Exists(Parent[p])
    /\ \/ tree' = [tree EXCEPT ![p] = edits + 2]
       \/ /\ Exists(p) /\ \A q \in Path : Parent[q] = p => ~Exists(q)
          /\ tree' = [tree EXCEPT ![p] = 0]
    /\ untouched' = untouched \ {p}
    /\ UNCHANGED <<manifest, scanLocals, reported, stable, faults>>

-----------------------------------------------------------------------------
(* The steps of a scan *)

\* The names readdir returns, sorted, as entries to visit.
Listing(d) ==
    LET names == SortedBy({p \in Path : Parent[p] = d /\ Exists(p)}, [p \in Path |-> p])
    IN  [k \in DOMAIN names |-> [path |-> names[k], act |-> "stat"]]

\* The transaction of Begin, then the walk opens the root.
ScanBegin ==
    /\ spc = "idle" /\ mid < MaxScans
    /\ mid' = mid + 1
    /\ manifest' = [manifest EXCEPT ![mid'] = [NoManifest EXCEPT !.state = "Building"]]
    /\ asset_count' = 0 /\ pending' = <<>>
    /\ todo' = <<[path |-> Root, act |-> "open"]>>
    /\ spc' = "walk" /\ untouched' = Path
    /\ UNCHANGED <<tree, edits, reported, stable, faults>>

\* ClassifyPhysicalAsset takes regular files, the forwarding sink skips staging files.
IsAsset(p) == p \notin Dir /\ p \notin Staging

\* FlushPending: the rows of the batch go into the manifest in one transaction.
Flushed(batch) == [manifest EXCEPT ![mid].rows = @ \cup Range(batch)]

\* Mutated: the entry that finds the batch full is not in it.
DroppingVisitEntry ==
    /\ spc = "walk" /\ todo # <<>> /\ Head(todo).act = "stat"
    /\ LET p == Head(todo).path
           full == Len(pending) >= BatchSize - 1 /\ IsAsset(p)
       IN  /\ Exists(p)
           /\ todo' = (IF p \in Dir THEN <<[path |-> p, act |-> "open"]>> ELSE <<>>)
                      \o Tail(todo)
           /\ IF full
              THEN /\ manifest' = Flushed(pending) /\ pending' = <<>>
                   /\ asset_count' = asset_count + Len(pending)
              ELSE /\ pending' = IF IsAsset(p) THEN Append(pending, <<p, Identity(p)>>)
                                 ELSE pending
                   /\ UNCHANGED <<manifest, asset_count>>
    /\ UNCHANGED <<tree, edits, spc, mid, reported, untouched, stable, faults>>

\* fstatat of the next name, then Add of the entry, which flushes a full batch.
\* A directory is opened next.
VisitEntry ==
    /\ spc = "walk" /\ todo # <<>> /\ Head(todo).act = "stat"
    /\ LET p == Head(todo).path
           batch == IF IsAsset(p) THEN Append(pending, <<p, Identity(p)>>) ELSE pending
           full == Len(batch) >= BatchSize /\ IsAsset(p)
       IN  /\ Exists(p)
           /\ todo' = (IF p \in Dir THEN <<[path |-> p, act |-> "open"]>> ELSE <<>>)
                      \o Tail(todo)
           /\ IF full
              THEN /\ manifest' = Flushed(batch) /\ pending' = <<>>
                   /\ asset_count' = asset_count + Len(batch)
              ELSE pending' = batch /\ UNCHANGED <<manifest, asset_count>>
    /\ UNCHANGED <<tree, edits, spc, mid, reported, untouched, stable, faults>>

\* openat and readdir of a directory, or of the root.
OpenDirectory ==
    /\ spc = "walk" /\ todo # <<>> /\ Head(todo).act = "open"
    /\ Exists(Head(todo).path)
    /\ todo' = Listing(Head(todo).path) \o Tail(todo)
    /\ UNCHANGED <<tree, edits, manifest, spc, mid, pending, asset_count, reported,
                   untouched, stable, faults>>

\* The walk has ended; Freeze first flushes what is pending.
FreezeFlush ==
    /\ spc = "walk" /\ todo = <<>> /\ spc' = "freeze"
    /\ manifest' = Flushed(pending) /\ pending' = <<>>
    /\ asset_count' = asset_count + Len(pending)
    /\ UNCHANGED <<tree, edits, mid, todo, reported, untouched, stable, faults>>

\* The transaction of Freeze: digest of the stored rows, BUILDING -> FROZEN.
Freeze ==
    /\ spc = "freeze" /\ manifest[mid].state = "Building"
    /\ manifest' = [manifest EXCEPT ![mid].state = "Frozen",
                                       ![mid].digest = ComputeManifestDigest(mid)]
    /\ spc' = "idle"
    /\ reported' = reported \cup
          {[manifest |-> mid, count |-> asset_count, digest |-> ComputeManifestDigest(mid)]}
    /\ stable' = [stable EXCEPT ![mid] =
          {<<p, Identity(p)>> : p \in {q \in untouched : IsAsset(q) /\ Exists(q)}}]
    /\ UNCHANGED <<tree, edits, mid, todo, pending, asset_count, untouched, faults>>

\* The scan process ends in the middle; what it has committed stays.
ScanEnds ==
    /\ spc' = "idle" /\ todo' = <<>> /\ pending' = <<>> /\ asset_count' = 0
    /\ UNCHANGED mid

\* A name of the listing is gone when fstatat or openat looks: the whole scan fails.
EntryVanished ==
    /\ spc = "walk" /\ todo # <<>> /\ ~Exists(Head(todo).path)
    /\ ScanEnds
    /\ UNCHANGED <<tree, edits, manifest, reported, untouched, stable, faults>>

\* A call fails (a statement, COMMIT: the transaction is rolled back) or the process is
\* killed.
ScanAborts ==
    /\ spc # "idle" /\ faults < MaxFaults /\ faults' = faults + 1
    /\ ScanEnds
    /\ UNCHANGED <<tree, edits, manifest, reported, untouched, stable>>

Scan ==
    \/ ScanBegin \/ VisitEntry \/ OpenDirectory \/ FreezeFlush \/ Freeze
    \/ EntryVanished \/ ScanAborts

-----------------------------------------------------------------------------
(* Properties of the manifests *)

ManifestTypeOK ==
    /\ tree \in [Path -> Nat] /\ edits \in 0 .. MaxEdits /\ faults \in 0 .. MaxFaults
    /\ \A m \in Manifest : /\ manifest[m].state \in {"None", "Building", "Frozen"}
                           /\ manifest[m].rows \subseteq Row
    /\ spc \in {"idle", "walk", "freeze"} /\ mid \in 0 .. MaxScans
    /\ Len(pending) < BatchSize

Frozen(m) == manifest[m].state = "Frozen"

\* A frozen manifest lists every asset that existed and kept its identity from the
\* beginning to the end of its scan, and at most one row per path, whatever else changed
\* in the folder meanwhile and wherever the batches were cut.
FrozenIsComplete ==
    \A m \in Manifest : Frozen(m) =>
        /\ stable[m] \subseteq manifest[m].rows
        /\ \A r, s \in manifest[m].rows : r[1] = s[1] => r = s
        /\ \A r \in manifest[m].rows : IsAsset(r[1])

\* What a scan has printed stays true: the manifest is frozen, with that many rows and
\* that digest, so a later Reopen finds the digest of its rows unchanged.
ReportedScanStands ==
    \A r \in reported :
        LET m == manifest[r.manifest]
        IN  /\ m.state = "Frozen" /\ m.digest = r.digest /\ m.rows = r.digest
            /\ Cardinality(m.rows) = r.count
=============================================================================
