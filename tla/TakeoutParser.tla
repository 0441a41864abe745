---------------------------- MODULE TakeoutParser ----------------------------
(***************************************************************************)
(* `parse`: TakeoutParser reads a Takeout folder, decides which files      *)
(* belong together by name and reports the rest (source/takeout_parser.cpp)*)
(* and TakeoutParseCommand builds the association graph, the logical       *)
(* assets, the metadata resolutions and the photos from its result.        *)
(*                                                                         *)
(* The three loops over unordered_map take the keys in any order; so does  *)
(* the loop over the entries.  A file is [id, dir, base, exts]: its asset  *)
(* id, its directory and its name, lower-case, split at the dots that a    *)
(* rule looks at.  Ids are compared as strings, "path-" and the hex of the *)
(* path: the order is that of the bytes of the paths, in the case they     *)
(* were written; any order of the ids is allowed here.  Two files whose    *)
(* names differ in case only are two ids with the same name.  What reading *)
(* and parsing a JSON file gives is a Document: an error or a value for    *)
(* each field.  result.errors is a vector and here a set: a code that is   *)
(* added twice for one file is there once.                                 *)
(***************************************************************************)
EXTENDS AssociationGraph

CONSTANTS
    File,       \* the files that may be in the folder
    Document,   \* what reading and parsing a JSON file may give
    MaxFiles    \* bound on the files in the folder

kMinimumUnambiguousStemBytes == 3

MediaExtension == {"dng", "cr2", "jpg", "jpeg", "heic", "mov", "png"}
Raw == {"dng", "cr2"}
Jpeg == {"jpg", "jpeg"}
Still == Jpeg \cup {"heic"}
Motion == {"mov"}

Field == {"title", "description", "favorited", "photoTakenTime"}

\* What can be wrong with a JSON file as a whole.
DocumentError == {"unreadable_json", "json_size_limit", "invalid_json", "metadata_shape"}

ASSUME TakeoutAssumption ==
    /\ \A f \in File : f.id \in Nat
    /\ \A f, g \in File : f.id = g.id => f = g
    /\ \A d \in Document : \/ d.error \in DocumentError
                           \/ d.error = "none" /\ DOMAIN d.fields = Field
    /\ MaxFiles \in Nat

VARIABLES
    folder,     \* the regular files the walk has returned
    tpc,        \* the loop that runs: read, pair, match, missing, build; then done;
                \* or thrown: an exception has ended the process
    todo,       \* entries or keys the loop has not taken yet
    errors,     \* result.errors
    candidates, \* result.candidates
    relations,  \* result.relations, a vector
    relationKeys, \* media_relation_keys
    weakKeys,   \* media_keys_with_weak_sidecar
    graph, logical, photos, resolutions, \* what the command builds
    exit        \* the status it returns

takeoutVars == <<folder, tpc, todo, errors, candidates, relations, relationKeys, weakKeys,
                 graph, logical, photos, resolutions, exit>>
built == <<graph, logical, photos, resolutions, exit>>

-----------------------------------------------------------------------------
(* Names *)

\* ExtensionOf
Ext(f) == IF f.exts = <<>> THEN "" ELSE Last(f.exts)

\* ClassifyKind
Kind(f) ==
    CASE Ext(f) = "json" ->
            IF f.base = <<"metadata">> /\ Len(f.exts) = 1 THEN "album" ELSE "json"
      [] Ext(f) = "xmp" -> "xmp"
      [] Ext(f) \in MediaExtension -> "media"
      [] OTHER -> "unknown"

IsSidecar(f) == Kind(f) \in {"json", "xmp"}
IsMedia(f) == Kind(f) = "media"

\* BasenameWithoutExtension, and for sidecars CanonicalSidecarStem: photo.jpg.json and
\* photo.json both belong to the key photo.
Stem(f) ==
    LET inner == IF f.exts = <<>> THEN <<>> ELSE Front(f.exts)
    IN  f.base \o (IF IsSidecar(f) /\ inner # <<>> /\ Last(inner) \in MediaExtension
                   THEN Front(inner) ELSE inner)

\* The rule a sidecar relation names, from UsesMediaExtensionSidecarName.
SidecarRule(f) ==
    IF Len(f.exts) > 1 /\ Last(Front(f.exts)) \in MediaExtension
    THEN "sidecar-media-extension" ELSE "basename"

\* Mutated: The key forgets the directory.
BasenameKeyWithoutDir(f) == [dir |-> 0, stem |-> Stem(f)]

BasenameKey(f) == [dir |-> f.dir, stem |-> Stem(f)]

MediaOf(key) == {f \in folder : IsMedia(f) /\ BasenameKey(f) = key}
SidecarsOf(key) == {f \in folder : IsSidecar(f) /\ BasenameKey(f) = key}
MediaKeys == {BasenameKey(f) : f \in {g \in folder : IsMedia(g)}}
SidecarKeys == {BasenameKey(f) : f \in {g \in folder : IsSidecar(g)}}

\* media_by_prefix: the media whose stem the key cuts short, after three bytes or more.
MediaByPrefix(key) ==
    {f \in folder : /\ IsMedia(f) /\ f.dir = key.dir
                    /\ Len(key.stem) >= kMinimumUnambiguousStemBytes
                    /\ IsStrictPrefix(key.stem, Stem(f))}

The(S) == CHOOSE x \in S : TRUE

Relation(kind, lhs, rhs, rule) ==
    [relation |-> kind, lhs |-> lhs.id, rhs |-> rhs.id, rule |-> rule]

Error(f, code) == [id |-> f.id, code |-> code]

-----------------------------------------------------------------------------
(* TakeoutParser::Parse *)

TakeoutInit ==
    /\ folder \in SUBSET File /\ IsFiniteSet(folder) /\ Cardinality(folder) <= MaxFiles
    /\ tpc = "read" /\ todo = folder
    /\ errors = {} /\ candidates = {} /\ relations = <<>>
    /\ relationKeys = {} /\ weakKeys = {}
    /\ graph = EmptyGraph /\ logical = {} /\ photos = {} /\ resolutions = {}
    /\ exit = "none"

\* ExtractMetadataCandidates and AddCandidate: a field that is present becomes a
\* candidate or an error, and the others go on.
FieldError == {"metadata_field_type", "metadata_field_value"}

Extract(f, doc) ==
    [candidates |-> {[id |-> f.id, field |-> x, value |-> doc.fields[x]] :
                        x \in {y \in Field : doc.fields[y] \notin FieldError \cup {"absent"}}},
     errors |-> {Error(f, doc.fields[x]) : x \in {y \in Field : doc.fields[y] \in FieldError}}]

\* The body of the loop over the entries, with ReadBounded and the JSON parser.
ReadEntry(f) ==
    /\ tpc = "read" /\ f \in todo /\ todo' = todo \ {f}
    /\ \/ /\ Kind(f) = "unknown"
          /\ errors' = errors \cup {Error(f, "unknown_file_kind")}
          /\ UNCHANGED candidates
       \/ /\ Kind(f) \in {"media", "xmp"} /\ UNCHANGED <<errors, candidates>>
       \/ /\ Kind(f) \in {"json", "album"}
          /\ \E doc \in Document :
                IF doc.error # "none"
                THEN /\ errors' = errors \cup {Error(f, doc.error)}
                     /\ UNCHANGED candidates
                ELSE /\ errors' = errors \cup Extract(f, doc).errors
                     /\ candidates' = candidates \cup Extract(f, doc).candidates
    /\ UNCHANGED <<folder, tpc, relations, relationKeys, weakKeys, built>>

\* Only parse_error is caught: another exception of the JSON library (a number out of
\* range) ends the process, with nothing reported and nothing built.
ReadThrows(f) ==
    /\ tpc = "read" /\ f \in todo /\ Kind(f) \in {"json", "album"}
    /\ tpc' = "thrown"
    /\ UNCHANGED <<folder, todo, errors, candidates, relations, relationKeys, weakKeys, built>>

\* A pair of two media of a key: one of each sort makes a relation, more of one sort
\* makes an error for every medium of the key.
PairRelation(kind, one, other) ==
    IF Cardinality(one) = 1 /\ Cardinality(other) = 1
    THEN <<Relation(kind, The(one), The(other), kind)>> ELSE <<>>

\* Mutated: Two of a sort are not reported.
PairErrorsFromThree(code, media, one, other) ==
    IF one # {} /\ other # {} /\ (Cardinality(one) > 2 \/ Cardinality(other) > 2)
    THEN {Error(f, code) : f \in media} ELSE {}

PairErrors(code, media, one, other) ==
    IF one # {} /\ other # {} /\ (Cardinality(one) > 1 \/ Cardinality(other) > 1)
    THEN {Error(f, code) : f \in media} ELSE {}

Sort(media, exts) == {f \in media : Ext(f) \in exts}

PairMedia(key) ==
    /\ tpc = "pair" /\ key \in todo /\ todo' = todo \ {key}
    /\ LET media == MediaOf(key)
           raw == Sort(media, Raw)     jpeg == Sort(media, Jpeg)
           still == Sort(media, Still) motion == Sort(media, Motion)
       IN  /\ relations' = relations \o PairRelation("raw_jpeg", raw, jpeg)
                                     \o PairRelation("live_photo", still, motion)
           /\ errors' = errors
                \cup PairErrors("ambiguous_raw_jpeg_relation", media, raw, jpeg)
                \cup PairErrors("ambiguous_live_photo_relation", media, still, motion)
           /\ relationKeys' = IF (raw # {} /\ jpeg # {}) \/ (still # {} /\ motion # {})
                              THEN relationKeys \cup {key} ELSE relationKeys
    /\ UNCHANGED <<folder, tpc, candidates, weakKeys, built>>

\* All sidecars of one key.
MatchSidecars(key) ==
    /\ tpc = "match" /\ key \in todo /\ todo' = todo \ {key}
    /\ LET media == MediaOf(key)
           sidecars == SidecarsOf(key)
           weak == MediaByPrefix(key)
           Report(code) == errors' = errors \cup {Error(s, code) : s \in sidecars}
       IN  \/ /\ media = {} /\ weak = {}
              /\ Report("orphan_sidecar") /\ UNCHANGED <<relations, weakKeys>>
           \/ /\ media = {} /\ Cardinality(weak) = 1
              /\ Report("truncated_basename_match")
              /\ weakKeys' = weakKeys \cup {BasenameKey(The(weak))}
              /\ UNCHANGED relations
           \/ /\ media = {} /\ Cardinality(weak) > 1
              /\ Report("ambiguous_truncated_basename")
              /\ UNCHANGED <<relations, weakKeys>>
           \/ /\ media # {} /\ (Cardinality(media) # 1 \/ Cardinality(sidecars) # 1)
              /\ Report("ambiguous_sidecar_relation")
              /\ UNCHANGED <<relations, weakKeys>>
           \/ /\ Cardinality(media) = 1 /\ Cardinality(sidecars) = 1
              /\ relations' = Append(relations,
                    LET s == The(sidecars)
                    IN  Relation(Kind(s), The(media), s, SidecarRule(s)))
              /\ UNCHANGED <<errors, weakKeys>>
    /\ UNCHANGED <<folder, tpc, candidates, relationKeys, built>>

\* Media nothing belongs to: no sidecar, no relation of the key, no weak sidecar.
ReportMissing(key) ==
    /\ tpc = "missing" /\ key \in todo /\ todo' = todo \ {key}
    /\ errors' = IF key \in SidecarKeys \cup relationKeys \cup weakKeys
                 THEN errors
                 ELSE errors \cup {Error(f, "missing_sidecar") : f \in MediaOf(key)}
    /\ UNCHANGED <<folder, tpc, candidates, relations, relationKeys, weakKeys, built>>

\* SortResult; the vectors of assets, candidates and errors are sets here.
RelationBefore(r, s) == r.lhs < s.lhs \/ (r.lhs = s.lhs /\ r.rhs < s.rhs)

\* A loop has taken everything; the next one begins.
NextLoop ==
    /\ todo = {}
    /\ \/ tpc = "read" /\ tpc' = "pair" /\ todo' = MediaKeys /\ UNCHANGED relations
       \/ tpc = "pair" /\ tpc' = "match" /\ todo' = SidecarKeys /\ UNCHANGED relations
       \/ tpc = "match" /\ tpc' = "missing" /\ todo' = MediaKeys /\ UNCHANGED relations
       \/ /\ tpc = "missing" /\ tpc' = "build" /\ todo' = {}
          /\ \E order \in Bijection(DOMAIN relations, DOMAIN relations) :
                /\ relations' = [k \in DOMAIN relations |-> relations[order[k]]]
                /\ \A j, k \in DOMAIN relations :
                      j < k => ~RelationBefore(relations'[k], relations'[j])
    /\ UNCHANGED <<folder, errors, candidates, relationKeys, weakKeys, built>>

-----------------------------------------------------------------------------
(* TakeoutParseCommand::Execute *)

\* AssociationEdgeFor
AssociationEdgeFor(r) ==
    [edge_kind |-> IF r.relation \in {"raw_jpeg", "live_photo"}
                   THEN "composition" ELSE "metadata_attachment",
     lhs |-> r.lhs, rhs |-> r.rhs, relation |-> r.relation, rule |-> r.rule,
     status |-> "confirmed"]

Graph ==
    LET vertices == FoldLeft(AddVertex, EmptyGraph, SetToSeq({f.id : f \in folder}))
    IN  FoldLeft(AddEdge, vertices,
                 [k \in DOMAIN relations |-> AssociationEdgeFor(relations[k])])

\* ResolveParsedMetadata, MetadataResolver::Resolve and BuildProvenance: per logical
\* asset and field the candidates of the members.  All have the one rule of the field, so
\* the smallest asset id is selected.
Resolve(members, x) ==
    LET group == {c \in candidates : c.field = x /\ c.id \in members}
        selected == CHOOSE c \in group : \A d \in group : c.id <= d.id
    IN  [members |-> members, field |-> x, selected |-> selected,
         rejected |-> group \ {selected},
         conflict |-> \E c \in group : c.value # selected.value]

\* BuildCanonicalPhoto
BuildCanonicalPhoto(members, edges) ==
    [members |-> members,
     media_components |-> {f \in folder : f.id \in members /\ IsMedia(f)},
     relationships |-> {e \in edges : e.status = "confirmed" /\ {e.lhs, e.rhs} \subseteq members}]

Build ==
    /\ tpc = "build" /\ tpc' = "done"
    /\ \E g \in {Graph} :
          /\ graph' = g
          /\ IF g.status # "ok"
             THEN exit' = g.status /\ UNCHANGED <<logical, photos, resolutions>>
             ELSE /\ logical' = BuildLogicalAssets(g)
                  /\ resolutions' = {Resolve(p[1], p[2]) : p \in
                        {q \in logical' \X Field :
                            \E c \in candidates : c.field = q[2] /\ c.id \in q[1]}}
                  /\ photos' = {BuildCanonicalPhoto(m, g.edges) : m \in logical'}
                  /\ exit' = IF errors = {} THEN "ok" ELSE "parser_errors"
    /\ UNCHANGED <<folder, todo, errors, candidates, relations, relationKeys, weakKeys>>

\* WriteErrorReport fails: the command returns before it builds anything.
ReportFails ==
    /\ tpc = "build" /\ tpc' = "done" /\ exit' = "io_error"
    /\ UNCHANGED <<folder, todo, errors, candidates, relations, relationKeys, weakKeys,
                   graph, logical, photos, resolutions>>

TakeoutDone == tpc \in {"done", "thrown"} /\ UNCHANGED takeoutVars

TakeoutNext ==
    \/ \E f \in folder : ReadEntry(f) \/ ReadThrows(f)
    \/ \E k \in MediaKeys : PairMedia(k) \/ ReportMissing(k)
    \/ \E k \in SidecarKeys : MatchSidecars(k)
    \/ NextLoop \/ Build \/ ReportFails \/ TakeoutDone

TakeoutSpec == TakeoutInit /\ [][TakeoutNext]_takeoutVars

-----------------------------------------------------------------------------
(* Properties *)

Finished == tpc = "done"

AssociationCode ==
    {"orphan_sidecar", "truncated_basename_match", "ambiguous_truncated_basename",
     "ambiguous_sidecar_relation"}

Attachments == {r \in Range(relations) : r.relation \in {"json", "xmp"}}

\* Every sidecar of the folder is settled in exactly one way, whatever the order in which
\* the maps are iterated: one medium or one error.  No medium gets two sidecars, and no
\* sidecar a medium of another directory or stem (AddRelationErrorsAndCandidates).  (Two
\* errors with different codes are seen; the same code added twice for a file is not.)
SidecarsSettled ==
    Finished =>
        /\ \A s \in {f \in folder : IsSidecar(f)} :
              Cardinality({r \in Attachments : r.rhs = s.id})
                + Cardinality({e \in errors : e.id = s.id /\ e.code \in AssociationCode}) = 1
        /\ \A q, r \in Attachments : q.lhs = r.lhs => q = r
        /\ \A r \in Attachments : \E m, s \in folder :
              /\ r.lhs = m.id /\ r.rhs = s.id /\ IsMedia(m) /\ IsSidecar(s)
              /\ m.dir = s.dir /\ Stem(m) = Stem(s)

\* A parse that reports success has told the whole story: every sidecar is attached, and
\* each key with media has either one medium with its one sidecar or a pair of media.
CleanParseIsComplete ==
    exit = "ok" =>
        /\ \A s \in {f \in folder : IsSidecar(f)} : \E r \in Attachments : r.rhs = s.id
        /\ \A k \in MediaKeys :
              LET ids == {f.id : f \in MediaOf(k)}
              IN  \/ Cardinality(ids) = 1 /\ SidecarsOf(k) # {}
                  \/ \E r \in Range(relations) : {r.lhs, r.rhs} \subseteq ids
        /\ \A f \in folder : Kind(f) # "unknown"

\* The graph takes what the parser gives it, and the union-find finds its connected
\* components: every file is in exactly one photo, every pair inside one, no sidecar in
\* the photo of a medium, and every metadata candidate in exactly one resolution.
PhotosAreComponents ==
    Finished /\ exit # "io_error" =>
        /\ exit \in {"ok", "parser_errors"}
        /\ AreComponents(logical, {f.id : f \in folder}, Composition(graph.edges))
        /\ \A e \in graph.edges :
              (\E p \in photos : e \in p.relationships) <=> e.edge_kind = "composition"
        /\ \A p \in photos : Cardinality(p.members) > 1 =>
              Cardinality(p.media_components) = Cardinality(p.members)
        /\ \A c \in candidates :
              Cardinality({r \in resolutions : c = r.selected \/ c \in r.rejected}) = 1
=============================================================================
