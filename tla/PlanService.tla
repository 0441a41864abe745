---------------------------- MODULE PlanService ----------------------------
(***************************************************************************)
(* From the source folder to the tasks of a migration: scans (module       *)
(* ManifestBuilder), `plan` (PlanService::Execute and WritePlanFile) and   *)
(* the materialization of the plan by the first `migrate`.  Any number of  *)
(* plan runs execute at the same time, each of one manifest; processes are *)
(* killed and the power fails between any two steps.                       *)
(*                                                                         *)
(* The directory of plans holds, for a plan, a final name and a temporary  *)
(* name .pbtmp.<final>, the same for every run.  A file is known by the    *)
(* run that created it: `temp` and `final` are the runs whose file has     *)
(* that name of their plan now, `diskTemp` and `diskFinal` as of the last  *)
(* sync of the directory.                                                  *)
(***************************************************************************)
EXTENDS ManifestBuilder, PlanArtifact

CONSTANTS MaxPlans  \* bound on the runs of plan

ASSUME PlanAssumption == MaxPlans \in Nat /\ Folded \in [Path -> Nat]

Run == 1 .. MaxPlans

VARIABLES
    ppc,        \* per run: where it is, or how it has ended: ok, found or error
    plan,       \* per run: its plan, once the manifest is read
    half,       \* per run: half lines its file holds
    synced,     \* runs whose file Fdatasync has made durable
    temp, final, diskTemp, diskFinal,
    left,       \* runs whose temporary file nobody will remove: killed or rename failed
    tasks       \* plans materialized as tasks: id, artifact, assets

directory == <<temp, final, diskTemp, diskFinal>>
fileVars == <<half, synced>>
planVars == <<ppc, plan, fileVars, directory, left, tasks>>
pipelineVars == <<scanVars, planVars>>

NoPlan == [manifest |-> 0, digest |-> {}, assets |-> {}]
Ended == {"ok", "found", "error"}

PipelineInit ==
    /\ ScanInit
    /\ ppc = [r \in Run |-> "new"] /\ plan = [r \in Run |-> NoPlan]
    /\ half = [r \in Run |-> 0] /\ synced = {}
    /\ temp = {} /\ final = {} /\ diskTemp = {} /\ diskFinal = {}
    /\ left = {} /\ tasks = {}

\* The lines of the file of run r: whole ones, and a torn one after an odd half.
LinesOf(r) ==
    SubSeq(Serialize(plan[r]), 1, half[r] \div 2)
    \o (IF half[r] % 2 = 1 THEN <<Torn>> ELSE <<>>)

\* No file has more: an asset line per entry, the header and the trailer.
MaxHalf == 2 * (Cardinality(Path) + 1 + Len(Trailer))

Whole(r) == half[r] = 2 * Len(Serialize(plan[r]))

\* The runs in S whose file has the name run r uses.
SameName(r, S) == {q \in S : plan[q] = plan[r]}

Goto(r, label) == ppc' = [ppc EXCEPT ![r] = label]

Fault == faults < MaxFaults /\ faults' = faults + 1
NoFault == UNCHANGED faults
scanRest == <<tree, edits, manifest, scanLocals, reported, untouched, stable>>

-----------------------------------------------------------------------------
(* One run of plan *)

\* Mutated: a manifest that is still being built will do.
UnfrozenReopen(r, m) ==
    /\ ppc[r] = "new" /\ \A q \in Run : q < r => ppc[q] # "new"
    /\ IF manifest[m].state # "None"
       THEN /\ Goto(r, "assets")
            /\ plan' = [plan EXCEPT ![r].manifest = m, ![r].digest = manifest[m].digest]
       ELSE Goto(r, "error") /\ UNCHANGED plan
    /\ NoFault /\ UNCHANGED <<scanRest, fileVars, directory, left, tasks>>

\* Reopen: one transaction checks the state and recomputes the digest of the rows.
Reopen(r, m) ==
    /\ ppc[r] = "new" /\ \A q \in Run : q < r => ppc[q] # "new"
    /\ LET found == manifest[m]
       IN  IF found.state = "Frozen" /\ found.digest = ComputeManifestDigest(m)
           THEN /\ Goto(r, "assets")
                /\ plan' = [plan EXCEPT ![r].manifest = m, ![r].digest = found.digest]
           ELSE Goto(r, "error") /\ UNCHANGED plan
    /\ NoFault /\ UNCHANGED <<scanRest, fileVars, directory, left, tasks>>

\* ReadManifestAssets reads the rows after that transaction; MapAll, Build.
ReadManifestAssets(r) ==
    /\ ppc[r] = "assets"
    /\ LET rows == manifest[plan[r].manifest].rows
       IN  IF MapAllSucceeds(rows)
           THEN plan' = [plan EXCEPT ![r].assets = rows] /\ Goto(r, "check")
           ELSE Goto(r, "error") /\ UNCHANGED plan
    /\ NoFault /\ UNCHANGED <<scanRest, fileVars, directory, left, tasks>>

\* WritePlanFile: an existing file with the same bytes is the result, other bytes are
\* an error.
CheckExisting(r) ==
    /\ ppc[r] = "check"
    /\ \/ SameName(r, final) = {} /\ Goto(r, "create")
       \/ \E q \in SameName(r, final) :
            Goto(r, IF LinesOf(q) = Serialize(plan[r]) THEN "found" ELSE "error")
    /\ NoFault /\ UNCHANGED <<scanRest, plan, fileVars, directory, left, tasks>>

\* Mutated: the temporary file of another run is removed first.
ReplacingCreateTemp(r) ==
    /\ ppc[r] = "create" /\ Goto(r, "write")
    /\ temp' = (temp \ SameName(r, temp)) \cup {r}
    /\ NoFault
    /\ UNCHANGED <<scanRest, plan, fileVars, final, diskTemp, diskFinal, left, tasks>>

\* CreateTempNoReplace (O_EXCL) of the fixed name.
CreateTemp(r) ==
    /\ ppc[r] = "create"
    /\ IF SameName(r, temp) = {}
       THEN temp' = temp \cup {r} /\ Goto(r, "write")
       ELSE Goto(r, "error") /\ UNCHANGED temp
    /\ NoFault
    /\ UNCHANGED <<scanRest, plan, fileVars, final, diskTemp, diskFinal, left, tasks>>

\* A Write takes n half lines, at least one.  One short write reaches every beginning
\* of the file, so the next one takes the rest.
WriteLines(r, n) ==
    /\ ppc[r] = "write" /\ n > 0
    /\ half[r] + n <= 2 * Len(Serialize(plan[r]))
    /\ half[r] # 0 => half[r] + n = 2 * Len(Serialize(plan[r]))
    /\ half' = [half EXCEPT ![r] = @ + n]
    /\ Goto(r, IF half'[r] = 2 * Len(Serialize(plan[r])) THEN "sync" ELSE "write")
    /\ NoFault /\ UNCHANGED <<scanRest, plan, synced, directory, left, tasks>>

\* Mutated: the rename may reach the disk before the content.
SkipFdatasync(r) ==
    /\ ppc[r] = "sync" /\ Goto(r, "rename")
    /\ NoFault /\ UNCHANGED <<scanRest, plan, fileVars, directory, left, tasks>>

Fdatasync(r) ==
    /\ ppc[r] = "sync" /\ Goto(r, "rename")
    /\ synced' = synced \cup {r}
    /\ NoFault /\ UNCHANGED <<scanRest, plan, half, directory, left, tasks>>

\* Write or Fdatasync fails: cleanup() unlinks the temporary name.
WriteFails(r) ==
    /\ ppc[r] \in {"write", "sync"} /\ Fault
    /\ temp' = temp \ SameName(r, temp)
    /\ Goto(r, "error")
    /\ UNCHANGED <<scanRest, plan, fileVars, final, diskTemp, diskFinal, left, tasks>>

\* RenameNoReplace moves whatever has the temporary name; the final name must be free.
RenameNoReplace(r) ==
    /\ ppc[r] = "rename" /\ SameName(r, final) = {}
    /\ temp' = temp \ SameName(r, temp)
    /\ final' = final \cup SameName(r, temp)
    /\ Goto(r, "fsync")
    /\ NoFault /\ UNCHANGED <<scanRest, plan, fileVars, diskTemp, diskFinal, left, tasks>>

\* The final name exists by now, or the call fails: the temporary file stays.
RenameFails(r) ==
    /\ ppc[r] = "rename"
    /\ \/ SameName(r, final) # {} /\ NoFault
       \/ SameName(r, final) = {} /\ Fault
    /\ left' = left \cup {r} /\ Goto(r, "error")
    /\ UNCHANGED <<scanRest, plan, fileVars, directory, tasks>>

\* FsyncDirectory makes every change of the directory durable.
FsyncDirectory(r) ==
    /\ ppc[r] = "fsync" /\ Goto(r, "ok")
    /\ diskTemp' = temp /\ diskFinal' = final
    /\ NoFault /\ UNCHANGED <<scanRest, plan, fileVars, temp, final, left, tasks>>

\* Any other call fails, FsyncDirectory for one, the unlink of cleanup() fails after a failed
\* Write, or the process is killed.
PlanAborts(r) ==
    /\ ppc[r] \notin Ended \cup {"new"} /\ Fault
    /\ Goto(r, "error")
    /\ left' = left \cup (temp \cap {r})
    /\ UNCHANGED <<scanRest, plan, fileVars, directory, tasks>>

\* MaterializePlan, one transaction of the first migrate with this plan file: Parse must
\* accept it; an id that is known already must have the same artifact.
Materialize(r) ==
    /\ r \in final /\ Parses(LinesOf(r))
    /\ \A t \in tasks : t.id # Parsed(LinesOf(r))
    /\ tasks' = tasks \cup {[id |-> Parsed(LinesOf(r)), artifact |-> LinesOf(r),
                             assets |-> Parsed(LinesOf(r)).assets]}
    /\ NoFault /\ UNCHANGED <<scanRest, ppc, plan, fileVars, directory, left>>

-----------------------------------------------------------------------------
\* Power loss: every process ends; a change of the directory since its last sync is
\* there or not, and of a file that is not synced some beginning is.
PowerLoss ==
    /\ Fault
    /\ \E t \in SUBSET (temp \cup diskTemp), f \in SUBSET (final \cup diskFinal) :
          /\ temp \cap diskTemp \subseteq t /\ final \cap diskFinal \subseteq f
          /\ \A q, s \in t : plan[q] = plan[s] => q = s
          /\ \A q, s \in f : plan[q] = plan[s] => q = s
          /\ temp' = t /\ diskTemp' = t /\ final' = f /\ diskFinal' = f
          /\ left' = left \cup t
    /\ \E h \in 0 .. MaxHalf :
          half' = [r \in Run |-> IF r \in synced \/ half[r] < h THEN half[r] ELSE h]
    /\ ppc' = [r \in Run |-> IF ppc[r] \in Ended \cup {"new"} THEN ppc[r] ELSE "error"]
    /\ ScanEnds
    /\ UNCHANGED <<tree, edits, manifest, reported, untouched, stable,
                   plan, synced, tasks>>

PlanRun(r) ==
    \/ \E m \in Manifest : Reopen(r, m)
    \/ ReadManifestAssets(r) \/ CheckExisting(r) \/ CreateTemp(r)
    \/ \E n \in 1 .. MaxHalf : WriteLines(r, n)
    \/ Fdatasync(r) \/ WriteFails(r) \/ RenameNoReplace(r) \/ RenameFails(r)
    \/ FsyncDirectory(r) \/ PlanAborts(r)

PipelineNext ==
    \/ (Scan \/ \E p \in Path : EditSource(p)) /\ UNCHANGED planVars
    \/ \E r \in Run : PlanRun(r) \/ Materialize(r)
    \/ PowerLoss

PipelineSpec == PipelineInit /\ [][PipelineNext]_pipelineVars

-----------------------------------------------------------------------------
(* Properties *)

PlanTypeOK ==
    /\ ManifestTypeOK
    /\ \A S \in {synced, temp, final, diskTemp, diskFinal, left} : S \subseteq Run
    /\ \A r \in Run : half[r] <= 2 * Len(Serialize(plan[r]))

\* What a scan has found and printed stays: FrozenIsComplete and ReportedScanStands.
ManifestsStand == FrozenIsComplete /\ ReportedScanStands

\* A file under a final name is the whole plan, written by one run, at every moment and
\* after every crash, and the reader would know otherwise: no file that was cut short
\* parses.
PlanFileIsWhole ==
    /\ \A r \in final : Whole(r) /\ SameName(r, final) = {r}
    /\ \A r \in temp \cup final : Parses(LinesOf(r)) =>
           Whole(r) /\ Parsed(LinesOf(r)) = plan[r]

\* A plan a run has published and reported is found after every crash.
ReportedPlanIsDurable == \A r \in Run : ppc[r] = "ok" => r \in final \cap diskFinal

\* A plan that is there, or was reported, can be relied on.
PlansStand == PlanFileIsWhole /\ ReportedPlanIsDurable

\* Runs do not touch each other's temporary file, and one nobody works on is there only
\* because its run was killed, failed at the rename, or failed to unlink it after another
\* error (the result of UnlinkAt is not looked at): every other error removes it.
TempHasOwner ==
    /\ \A r \in Run : ppc[r] \in {"write", "sync", "rename"} => r \in temp
    /\ \A r \in temp : ppc[r] \in Ended => r \in left

\* The plan directory is in order.
TempsOwned == PlanTypeOK /\ TempHasOwner

\* The tasks migrate creates are exactly the rows of one frozen manifest, no two of them
\* for the same target on a file system that ignores case: nothing of an unfinished scan,
\* of another plan or of a cut file becomes a task.
TasksAreTheManifest ==
    \A t \in tasks : LET m == t.id.manifest
                     IN  /\ manifest[m].state = "Frozen"
                         /\ t.assets = manifest[m].rows /\ t.assets = manifest[m].digest
                         /\ MapAllSucceeds(t.assets)
                         /\ stable[m] \subseteq t.assets
=============================================================================
