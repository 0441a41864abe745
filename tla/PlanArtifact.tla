---------------------------- MODULE PlanArtifact ----------------------------
(***************************************************************************)
(* The frozen plan file (model/plan_artifact.cpp, model/canonical_plan.cpp *)
(* and model/path_mapper.cpp) as a sequence of JSON lines: a header, one   *)
(* line per asset, four empty sections in a fixed order and an end line.   *)
(* A line is a record [record, value]; what a cut leaves of a line is the  *)
(* line Torn, which has no LF and is no JSON.                              *)
(*                                                                         *)
(* A plan is [manifest, digest, assets]: the manifest it was made from,    *)
(* that manifest's digest and its rows.  Its id is "plan-" and its         *)
(* semantic digest, which covers all of it: the id is the plan itself.     *)
(***************************************************************************)
EXTENDS Naturals, Sequences, FiniteSets, SequencesExt, Sorting

CONSTANT
    Folded      \* AsciiCaseFoldKey of the target path an entry is mapped to

\* TargetPathMapper::MapAll keeps the source directories, so every path maps to itself;
\* the paths of two assets may not even collide after ASCII case folding.  (Map refuses a
\* path that is too long or not ASCII, with the same end of the run.)
MapAllSucceeds(rows) ==
    \A r, s \in rows : r # s => Folded[r[1]] # Folded[s[1]]

Line(record, value) == [record |-> record, value |-> value]
Torn == Line("torn", 0)

Sections == <<"outputs", "tasks", "dependencies", "losses">>

Trailer ==
    [k \in DOMAIN Sections |-> Line("section", Sections[k])] \o <<Line("end", 0)>>

\* The constructor of CanonicalMinimalPlan sorts the assets by id, Serialize writes them.
Serialize(plan) ==
    LET assets == SortedBy(plan.assets, [r \in plan.assets |-> r[1]])
    IN  <<Line("header", [manifest |-> plan.manifest, digest |-> plan.digest])>>
        \o [k \in DOMAIN assets |-> Line("asset", assets[k])]
        \o Trailer

\* Parse: how many asset lines follow the header when the rest is what must follow.
AssetLines(lines) == Len(lines) - 1 - Len(Trailer)

\* Every line is JSON and ends with LF, the first is the header, then come assets, the
\* sections in order and exactly one end line; Build wants unique asset ids.
Parses(lines) ==
    /\ Len(lines) >= 1 + Len(Trailer)
    /\ Torn \notin Range(lines)
    /\ lines[1].record = "header"
    /\ LET n == AssetLines(lines)
       IN  /\ \A k \in 2 .. (n + 1) : lines[k].record = "asset"
           /\ SubSeq(lines, n + 2, Len(lines)) = Trailer
           /\ Cardinality({lines[k].value : k \in 2 .. (n + 1)}) = n

Parsed(lines) ==
    [manifest |-> lines[1].value.manifest, digest |-> lines[1].value.digest,
     assets |-> {lines[k].value : k \in 2 .. (AssetLines(lines) + 1)}]
=============================================================================
