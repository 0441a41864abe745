------------------------ MODULE TakeoutParser_proofs ------------------------
(***************************************************************************)
(* TLAPS proofs about `parse` of module TakeoutParser, for every folder of *)
(* any number of files and every order in which its maps are iterated:     *)
(* each sidecar is settled once, and a parse without errors leaves nothing *)
(* unexplained.                                                            *)
(***************************************************************************)
EXTENDS TakeoutParser, FiniteSetTheorems, SequenceTheorems, TLAPS

\* The relations Parse can make.
AnyRelation ==
    [relation : {"raw_jpeg", "live_photo", "json", "xmp"}, lhs : Nat, rhs : Nat,
     rule : {"raw_jpeg", "live_photo", "sidecar-media-extension", "basename"}]

\* What the loop over the sidecar keys decides about a key: its one sidecar is attached to
\* its one medium, or all its sidecars are reported with one code.
Matched(key) == Cardinality(MediaOf(key)) = 1 /\ Cardinality(SidecarsOf(key)) = 1
Attachment(key) ==
    Relation(Kind(The(SidecarsOf(key))), The(MediaOf(key)), The(SidecarsOf(key)),
             SidecarRule(The(SidecarsOf(key))))
Verdict(key) ==
    IF MediaOf(key) # {} THEN "ambiguous_sidecar_relation"
    ELSE IF MediaByPrefix(key) = {} THEN "orphan_sidecar"
    ELSE IF Cardinality(MediaByPrefix(key)) = 1 THEN "truncated_basename_match"
    ELSE "ambiguous_truncated_basename"

\* What the loops have taken so far.
EntriesRead == IF tpc \in {"read", "thrown"} THEN folder \ todo ELSE folder
KeysSettled ==
    IF tpc \in {"read", "thrown", "pair"} THEN {}
    ELSE IF tpc = "match" THEN SidecarKeys \ todo ELSE SidecarKeys
KeysChecked ==
    IF tpc \in {"read", "thrown", "pair", "match"} THEN {}
    ELSE IF tpc = "missing" THEN MediaKeys \ todo ELSE MediaKeys

\* The variables in their sets.
ParseTypes ==
    /\ folder \in SUBSET File /\ IsFiniteSet(folder)
    /\ tpc \in {"read", "pair", "match", "missing", "build", "done", "thrown"}
    /\ relations \in Seq(AnyRelation)

\* Exactly the settled keys have their attachment or their errors.
AttachmentsRight ==
    /\ \A r \in Range(relations) : r.relation \in {"json", "xmp"} =>
          \E k \in KeysSettled : Matched(k) /\ r = Attachment(k)
    /\ \A k \in KeysSettled : Matched(k) => Attachment(k) \in Range(relations)
ErrorsRight ==
    /\ \A e \in errors : e.code \in AssociationCode =>
          \E k \in KeysSettled : /\ ~Matched(k)
                                 /\ \E s \in SidecarsOf(k) : e = Error(s, Verdict(k))
    /\ \A k \in KeysSettled : ~Matched(k) =>
          \A s \in SidecarsOf(k) : Error(s, Verdict(k)) \in errors

\* Whatever is unexplained leaves an error.
Paired(key) ==
    \E r \in Range(relations) : {r.lhs, r.rhs} \subseteq {f.id : f \in MediaOf(key)}
NothingHidden ==
    /\ \A f \in EntriesRead : Kind(f) = "unknown" => errors # {}
    /\ weakKeys # {} => errors # {}
    /\ \A k \in relationKeys : errors # {} \/ Paired(k)
    /\ \A k \in KeysChecked : errors # {} \/ k \in SidecarKeys \cup relationKeys
    /\ exit = "ok" => tpc = "done" /\ errors = {}

\* The inductive invariant.
ParseInv == ParseTypes /\ AttachmentsRight /\ ErrorsRight /\ NothingHidden

-----------------------------------------------------------------------------
(* Facts about the operators of the model *)

\* The range of a vector that has grown at its end.
LEMMA RangeGrows ==
    ASSUME NEW S, NEW s \in Seq(S), NEW t \in Seq(S)
    PROVE  s \o t \in Seq(S) /\ Range(s \o t) = Range(s) \cup Range(t)
<1>1. /\ s \o t \in Seq(S) /\ Len(s \o t) = Len(s) + Len(t)
      /\ \A i \in 1..Len(s) + Len(t) :
            (s \o t)[i] = IF i <= Len(s) THEN s[i] ELSE t[i - Len(s)]
  BY ConcatProperties
<1>2. \A g \in Seq(S) : DOMAIN g = 1..Len(g) /\ Len(g) \in Nat
  BY LenProperties
<1>3. \A x \in Range(s \o t) : x \in Range(s) \cup Range(t)
  <2> SUFFICES ASSUME NEW i \in 1..Len(s) + Len(t)
               PROVE  (s \o t)[i] \in Range(s) \cup Range(t)
    BY <1>1, <1>2 DEF Range
  <2>1. i <= Len(s) => i \in DOMAIN s
    BY <1>2
  <2>2. ~(i <= Len(s)) => i - Len(s) \in DOMAIN t
    BY <1>2
  <2>3. QED
    BY <1>1, <2>1, <2>2 DEF Range
<1>4. \A i \in DOMAIN s : s[i] \in Range(s \o t)
  <2> TAKE i \in DOMAIN s
  <2>1. i \in 1..Len(s) + Len(t) /\ i <= Len(s)
    BY <1>2
  <2>2. i \in DOMAIN (s \o t) /\ (s \o t)[i] = s[i]
    BY <1>1, <1>2, <2>1
  <2>3. QED
    BY <2>2 DEF Range
<1>5. \A i \in DOMAIN t : t[i] \in Range(s \o t)
  <2> TAKE i \in DOMAIN t
  <2>1. /\ Len(s) + i \in 1..Len(s) + Len(t) /\ ~(Len(s) + i <= Len(s))
        /\ Len(s) + i - Len(s) = i
    BY <1>2
  <2>2. Len(s) + i \in DOMAIN (s \o t) /\ (s \o t)[Len(s) + i] = t[i]
    BY <1>1, <1>2, <2>1
  <2>3. QED
    BY <2>2 DEF Range
<1>6. QED
  BY <1>1, <1>3, <1>4, <1>5 DEF Range

\* The range of a vector of one element.
LEMMA RangeOfOne ==
    ASSUME NEW S, NEW x \in S
    PROVE  <<x>> \in Seq(S) /\ Range(<<x>>) = {x}
BY DEF Range

\* An element is appended.
LEMMA RangeAppend ==
    ASSUME NEW S, NEW s \in Seq(S), NEW x \in S
    PROVE  Append(s, x) \in Seq(S) /\ Range(Append(s, x)) = Range(s) \cup {x}
<1>1. PICK t \in Seq(S) : t = <<x>> /\ Range(t) = {x}
  BY RangeOfOne
<1>2. s \o t \in Seq(S) /\ Range(s \o t) = Range(s) \cup Range(t)
  BY RangeGrows
<1>3. Append(s, x) = s \o <<x>>
  BY AppendIsConcat
<1>4. Append(s, x) = s \o t
  BY <1>1, <1>3, Zenon
<1>5. QED
  BY <1>1, <1>2, <1>4, Zenon

\* Two vectors are appended.
LEMMA RangeGrowsTwice ==
    ASSUME NEW S, NEW s \in Seq(S), NEW t \in Seq(S), NEW u \in Seq(S)
    PROVE  /\ s \o t \o u \in Seq(S)
           /\ Range(s \o t \o u) = Range(s) \cup Range(t) \cup Range(u)
<1>1. s \o t \in Seq(S) /\ Range(s \o t) = Range(s) \cup Range(t)
  BY RangeGrows
<1>2. PICK v \in Seq(S) : v = s \o t
  BY <1>1
<1>3. v \o u \in Seq(S) /\ Range(v \o u) = Range(v) \cup Range(u)
  BY RangeGrows
<1>4. QED
  BY <1>1, <1>2, <1>3, Zenon

\* The one element of a set of one.
LEMMA OneElement ==
    ASSUME NEW S, IsFiniteSet(S), Cardinality(S) = 1
    PROVE  The(S) \in S /\ S = {The(S)}
<1>1. PICK x : S = {x}
  BY FS_Singleton
<1>2. QED
  BY <1>1 DEF The

\* The media and the sidecars of a key are finitely many files of the folder, with that key.
LEMMA KeyFiles ==
    ASSUME IsFiniteSet(folder), NEW key
    PROVE  /\ IsFiniteSet(MediaOf(key)) /\ IsFiniteSet(SidecarsOf(key))
           /\ IsFiniteSet(MediaByPrefix(key))
           /\ MediaOf(key) \subseteq folder /\ SidecarsOf(key) \subseteq folder
           /\ \A f \in MediaOf(key) : IsMedia(f) /\ BasenameKey(f) = key
           /\ \A f \in SidecarsOf(key) : IsSidecar(f) /\ BasenameKey(f) = key
<1>1. /\ MediaOf(key) \subseteq folder /\ SidecarsOf(key) \subseteq folder
      /\ MediaByPrefix(key) \subseteq folder
  BY DEF MediaOf, SidecarsOf, MediaByPrefix
<1>2. /\ \A f \in MediaOf(key) : IsMedia(f) /\ BasenameKey(f) = key
      /\ \A f \in SidecarsOf(key) : IsSidecar(f) /\ BasenameKey(f) = key
  BY DEF MediaOf, SidecarsOf
<1>3. QED
  BY <1>1, <1>2, FS_Subset

\* A matched key: its one medium, its one sidecar and the relation made of them.
LEMMA MatchedKey ==
    ASSUME IsFiniteSet(folder), NEW key, Matched(key)
    PROVE  \E m \in folder, s \in folder :
              /\ MediaOf(key) = {m} /\ SidecarsOf(key) = {s}
              /\ IsMedia(m) /\ IsSidecar(s) /\ BasenameKey(m) = key /\ BasenameKey(s) = key
              /\ Attachment(key) = Relation(Kind(s), m, s, SidecarRule(s))
<1>1. /\ The(MediaOf(key)) \in MediaOf(key) /\ MediaOf(key) = {The(MediaOf(key))}
      /\ The(SidecarsOf(key)) \in SidecarsOf(key) /\ SidecarsOf(key) = {The(SidecarsOf(key))}
  BY KeyFiles, OneElement DEF Matched
<1>2. /\ The(MediaOf(key)) \in folder /\ The(SidecarsOf(key)) \in folder
      /\ IsMedia(The(MediaOf(key))) /\ IsSidecar(The(SidecarsOf(key)))
      /\ BasenameKey(The(MediaOf(key))) = key /\ BasenameKey(The(SidecarsOf(key))) = key
  BY <1>1, KeyFiles
<1>3. QED
  BY <1>1, <1>2 DEF Attachment

\* A sidecar key has a sidecar, a media key a medium.
LEMMA KeyHasFile ==
    /\ \A k \in SidecarKeys : SidecarsOf(k) # {}
    /\ \A k \in MediaKeys : MediaOf(k) # {}
    /\ \A f \in folder : IsSidecar(f) =>
          BasenameKey(f) \in SidecarKeys /\ f \in SidecarsOf(BasenameKey(f))
BY DEF SidecarKeys, MediaKeys, SidecarsOf, MediaOf

\* The fields of relations and errors.
LEMMA Fields ==
    /\ \A kind, m, s, rule :
          LET r == Relation(kind, m, s, rule)
          IN  r.relation = kind /\ r.lhs = m.id /\ r.rhs = s.id
    /\ \A f, code : Error(f, code).id = f.id /\ Error(f, code).code = code
BY DEF Relation, Error

\* The folder never changes, and with it the keys and what is decided about them.
LEMMA SameFolder ==
    ASSUME folder' = folder
    PROVE  /\ \A k : MediaOf(k)' = MediaOf(k) /\ SidecarsOf(k)' = SidecarsOf(k)
           /\ \A k : Matched(k)' <=> Matched(k)
           /\ \A k : Attachment(k)' = Attachment(k) /\ Verdict(k)' = Verdict(k)
           /\ SidecarKeys' = SidecarKeys /\ MediaKeys' = MediaKeys
<1>1. /\ \A k : MediaOf(k)' = MediaOf(k) /\ SidecarsOf(k)' = SidecarsOf(k)
      /\ \A k : MediaByPrefix(k)' = MediaByPrefix(k)
      /\ SidecarKeys' = SidecarKeys /\ MediaKeys' = MediaKeys
  BY DEF MediaOf, SidecarsOf, MediaByPrefix, SidecarKeys, MediaKeys
<1>2. QED
  BY <1>1 DEF Matched, Attachment, Verdict

-----------------------------------------------------------------------------
(* What a step that settles no key preserves *)

\* Relations that are no attachments and errors with other codes change nothing for the
\* settled keys.
LEMMA SettledKept ==
    ASSUME AttachmentsRight, ErrorsRight, folder' = folder, KeysSettled' = KeysSettled,
           Range(relations) \subseteq Range(relations'), errors \subseteq errors',
           \A r \in Range(relations') : r \in Range(relations) \/ r.relation \notin {"json", "xmp"},
           \A e \in errors' : e \in errors \/ e.code \notin AssociationCode
    PROVE  AttachmentsRight' /\ ErrorsRight'
<1>1. /\ \A r \in Range(relations') : r.relation \in {"json", "xmp"} =>
            \E k \in KeysSettled : Matched(k) /\ r = Attachment(k)
      /\ \A k \in KeysSettled : Matched(k) => Attachment(k) \in Range(relations')
  BY DEF AttachmentsRight
<1>2. AttachmentsRight'
  BY <1>1, SameFolder DEF AttachmentsRight
<1>3. /\ \A e \in errors' : e.code \in AssociationCode =>
            \E k \in KeysSettled : /\ ~Matched(k)
                                   /\ \E s \in SidecarsOf(k) : e = Error(s, Verdict(k))
      /\ \A k \in KeysSettled : ~Matched(k) =>
            \A s \in SidecarsOf(k) : Error(s, Verdict(k)) \in errors'
  BY DEF ErrorsRight
<1>4. ErrorsRight'
  BY <1>3, SameFolder DEF ErrorsRight
<1>5. QED
  BY <1>2, <1>4

\* Relations and errors that are kept go on explaining what they explained.
LEMMA ExplainedKept ==
    ASSUME NothingHidden, folder' = folder,
           errors \subseteq errors', Range(relations) \subseteq Range(relations')
    PROVE  /\ \A f \in EntriesRead : Kind(f) = "unknown" => errors' # {}
           /\ weakKeys # {} => errors' # {}
           /\ \A k \in relationKeys : errors' # {} \/ Paired(k)'
           /\ \A k \in KeysChecked : errors' # {} \/ k \in SidecarKeys' \cup relationKeys
<1>1. \A k : Paired(k) => Paired(k)'
  BY SameFolder DEF Paired
<1>2. QED
  BY <1>1, SameFolder DEF NothingHidden

-----------------------------------------------------------------------------
(* The steps *)

\* The empty parse.
LEMMA InitParse == TakeoutInit => ParseInv
<1> SUFFICES ASSUME TakeoutInit PROVE ParseInv
  OBVIOUS
<1>1. Range(relations) = {} /\ relations \in Seq(AnyRelation)
  BY DEF TakeoutInit, Range
<1>2. KeysSettled = {} /\ KeysChecked = {} /\ EntriesRead = {}
  BY DEF TakeoutInit, KeysSettled, KeysChecked, EntriesRead
<1>3. ParseTypes
  BY <1>1 DEF TakeoutInit, ParseTypes
<1>4. AttachmentsRight /\ ErrorsRight
  BY <1>1, <1>2 DEF TakeoutInit, AttachmentsRight, ErrorsRight
<1>5. NothingHidden
  BY <1>2 DEF TakeoutInit, NothingHidden
<1>6. QED
  BY <1>3, <1>4, <1>5 DEF ParseInv

\* Reading an entry: an unknown file leaves an error, and no error of a document is one of
\* the codes of the sidecars.
LEMMA ReadEntryParse ==
    ASSUME ParseInv, NEW f \in folder, ReadEntry(f)
    PROVE  ParseInv'
<1> USE DEF ParseInv
<1>1. /\ folder' = folder /\ tpc = "read" /\ tpc' = "read" /\ todo' = todo \ {f}
      /\ relations' = relations /\ relationKeys' = relationKeys /\ weakKeys' = weakKeys
      /\ exit' = exit
  BY DEF ReadEntry, built
<1>2. /\ errors \subseteq errors' /\ (Kind(f) = "unknown" => errors' # {})
      /\ \A e \in errors' : e \in errors \/ e.code \notin AssociationCode
  <2>1. CASE /\ Kind(f) = "unknown"
             /\ errors' = errors \cup {Error(f, "unknown_file_kind")}
    BY <2>1, Fields DEF AssociationCode
  <2>2. CASE Kind(f) \in {"media", "xmp"} /\ errors' = errors
    BY <2>2
  <2>3. CASE Kind(f) \in {"json", "album"} /\ ~(Kind(f) \in {"media", "xmp"})
    <3>1. PICK doc \in Document :
             \/ doc.error # "none" /\ errors' = errors \cup {Error(f, doc.error)}
             \/ doc.error = "none" /\ errors' = errors \cup Extract(f, doc).errors
      BY <2>3 DEF ReadEntry
    <3>2. CASE doc.error # "none"
      <4>1. doc.error \in DocumentError /\ errors' = errors \cup {Error(f, doc.error)}
        BY <3>1, <3>2, TakeoutAssumption
      <4>2. Error(f, doc.error).code \notin AssociationCode
        BY <4>1, Fields DEF DocumentError, AssociationCode
      <4>3. QED
        BY <4>1, <4>2, <2>3
    <3>3. CASE doc.error = "none"
      <4>1. errors' = errors \cup {Error(f, doc.fields[x]) :
                                      x \in {y \in Field : doc.fields[y] \in FieldError}}
        BY <3>1, <3>3 DEF Extract
      <4>2. \A e \in errors' : e \in errors \/ e.code \in FieldError
        BY <4>1, Fields
      <4>3. QED
        BY <4>1, <4>2, <2>3 DEF FieldError, AssociationCode
    <3>4. QED
      BY <3>2, <3>3
  <2>4. QED
    BY <2>1, <2>2, <2>3 DEF ReadEntry
<1>3. /\ KeysSettled' = {} /\ KeysSettled = {} /\ KeysChecked' = {}
      /\ EntriesRead' \subseteq EntriesRead \cup {f}
  BY <1>1 DEF KeysSettled, KeysChecked, EntriesRead
<1>4. Range(relations') = Range(relations)
  BY <1>1
<1>5. AttachmentsRight' /\ ErrorsRight'
  BY <1>1, <1>2, <1>3, <1>4, SettledKept
<1>6. ParseTypes'
  BY <1>1 DEF ParseTypes
<1>7. exit' # "ok"
  BY <1>1 DEF NothingHidden
<1>8. NothingHidden'
  BY <1>1, <1>2, <1>3, <1>4, <1>7, ExplainedKept DEF NothingHidden
<1>9. QED
  BY <1>5, <1>6, <1>8

\* What pairing two sorts of media of a key gives: a relation of two media of the key or
\* nothing, and when both sorts are there, the relation or errors.
LEMMA PairOutcome ==
    ASSUME ParseTypes, NEW key, NEW kind \in {"raw_jpeg", "live_photo"}, NEW code,
           NEW one \in SUBSET MediaOf(key), NEW other \in SUBSET MediaOf(key)
    PROVE  LET made == PairRelation(kind, one, other)
               told == PairErrors(code, MediaOf(key), one, other)
           IN  /\ made \in Seq(AnyRelation)
               /\ \A r \in Range(made) :
                     /\ r.relation = kind
                     /\ {r.lhs, r.rhs} \subseteq {f.id : f \in MediaOf(key)}
               /\ \A e \in told : e.code = code
               /\ one # {} /\ other # {} => told # {} \/ Range(made) # {}
<1> DEFINE made == PairRelation(kind, one, other)
           told == PairErrors(code, MediaOf(key), one, other)
           ids == {f.id : f \in MediaOf(key)}
<1>1. /\ IsFiniteSet(MediaOf(key)) /\ MediaOf(key) \subseteq folder /\ folder \subseteq File
      /\ IsFiniteSet(one) /\ IsFiniteSet(other)
  BY KeyFiles, FS_Subset DEF ParseTypes
<1>2. \A e \in told : e.code = code
  BY Fields DEF PairErrors
<1>3. CASE Cardinality(one) = 1 /\ Cardinality(other) = 1
  <2>1. The(one) \in MediaOf(key) /\ The(other) \in MediaOf(key)
    BY <1>1, <1>3, OneElement
  <2> DEFINE r == Relation(kind, The(one), The(other), kind)
  <2>2. r.relation = kind /\ r.lhs \in ids /\ r.rhs \in ids
    BY <2>1, Fields
  <2>3. r \in AnyRelation
    BY <2>1, <1>1, TakeoutAssumption DEF AnyRelation, Relation
  <2>4. made = <<r>>
    BY <1>3 DEF PairRelation
  <2> HIDE DEF r
  <2>5. made \in Seq(AnyRelation) /\ Range(made) = {r}
    BY <2>3, <2>4, RangeOfOne
  <2>6. QED
    BY <2>2, <2>5, <1>2
<1>4. CASE ~(Cardinality(one) = 1 /\ Cardinality(other) = 1)
  <2>1. made = <<>>
    BY <1>4 DEF PairRelation
  <2>2. made \in Seq(AnyRelation) /\ Range(made) = {}
    BY <2>1 DEF Range
  <2>3. ASSUME one # {}, other # {} PROVE told # {}
    <3>1. /\ Cardinality(one) \in Nat /\ Cardinality(other) \in Nat
          /\ Cardinality(one) # 0 /\ Cardinality(other) # 0
      BY <1>1, <2>3, FS_CardinalityType, FS_EmptySet
    <3>2. Cardinality(one) > 1 \/ Cardinality(other) > 1
      BY <3>1, <1>4
    <3>3. told = {Error(f, code) : f \in MediaOf(key)}
      BY <3>2, <2>3 DEF PairErrors
    <3>4. QED
      BY <3>3, <2>3
  <2>4. QED
    BY <2>2, <2>3, <1>2
<1>5. QED
  BY <1>3, <1>4

\* Pairing the media of a key: its relations join media, and a key with both sorts is
\* explained by a relation or an error.
LEMMA PairMediaParse ==
    ASSUME ParseInv, NEW key \in MediaKeys, PairMedia(key)
    PROVE  ParseInv'
<1>0. ParseTypes
  BY DEF ParseInv
<1> DEFINE media == MediaOf(key)
           raw == Sort(media, Raw)
           jpeg == Sort(media, Jpeg)
           still == Sort(media, Still)
           motion == Sort(media, Motion)
           r1 == PairRelation("raw_jpeg", raw, jpeg)
           r2 == PairRelation("live_photo", still, motion)
           e1 == PairErrors("ambiguous_raw_jpeg_relation", media, raw, jpeg)
           e2 == PairErrors("ambiguous_live_photo_relation", media, still, motion)
<1>1. /\ folder' = folder /\ tpc = "pair" /\ tpc' = "pair" /\ todo' = todo \ {key}
      /\ weakKeys' = weakKeys /\ exit' = exit
  BY DEF PairMedia, built
<1>2. /\ relations' = relations \o r1 \o r2 /\ errors' = errors \cup e1 \cup e2
      /\ relationKeys' = IF (raw # {} /\ jpeg # {}) \/ (still # {} /\ motion # {})
                         THEN relationKeys \cup {key} ELSE relationKeys
  BY DEF PairMedia
<1>3. /\ raw \in SUBSET media /\ jpeg \in SUBSET media
      /\ still \in SUBSET media /\ motion \in SUBSET media
  BY DEF Sort
<1> HIDE DEF raw, jpeg, still, motion
<1>4. /\ r1 \in Seq(AnyRelation)
      /\ \A r \in Range(r1) : r.relation = "raw_jpeg"
                              /\ {r.lhs, r.rhs} \subseteq {f.id : f \in media}
      /\ \A e \in e1 : e.code = "ambiguous_raw_jpeg_relation"
      /\ raw # {} /\ jpeg # {} => e1 # {} \/ Range(r1) # {}
  BY <1>0, <1>3, PairOutcome, Zenon
<1>5. /\ r2 \in Seq(AnyRelation)
      /\ \A r \in Range(r2) : r.relation = "live_photo"
                              /\ {r.lhs, r.rhs} \subseteq {f.id : f \in media}
      /\ \A e \in e2 : e.code = "ambiguous_live_photo_relation"
      /\ still # {} /\ motion # {} => e2 # {} \/ Range(r2) # {}
  BY <1>0, <1>3, PairOutcome, Zenon
<1> HIDE DEF r1, r2, e1, e2
<1> USE DEF ParseInv
<1>6. /\ relations' \in Seq(AnyRelation)
      /\ Range(relations') = Range(relations) \cup Range(r1) \cup Range(r2)
  <2>1. relations \in Seq(AnyRelation)
    BY DEF ParseTypes
  <2>2. QED
    BY <2>1, <1>2, <1>4, <1>5, RangeGrowsTwice
<1>7. /\ \A r \in Range(relations') : r \in Range(relations) \/ r.relation \notin {"json", "xmp"}
      /\ Range(relations) \subseteq Range(relations')
  BY <1>4, <1>5, <1>6
<1>8. /\ \A e \in errors' : e \in errors \/ e.code \notin AssociationCode
      /\ errors \subseteq errors'
  BY <1>2, <1>4, <1>5 DEF AssociationCode
<1>9. /\ KeysSettled' = KeysSettled /\ KeysChecked' = KeysChecked
      /\ EntriesRead' = EntriesRead
  BY <1>1, SameFolder DEF KeysSettled, KeysChecked, EntriesRead
<1>10. AttachmentsRight' /\ ErrorsRight'
  BY <1>1, <1>7, <1>8, <1>9, SettledKept
<1>11. ParseTypes'
  BY <1>1, <1>6 DEF ParseTypes
<1>12. ASSUME key \in relationKeys', key \notin relationKeys
       PROVE  errors' # {} \/ Paired(key)'
  <2>1. (raw # {} /\ jpeg # {}) \/ (still # {} /\ motion # {})
    BY <1>2, <1>12
  <2>2. \A r \in Range(r1) \cup Range(r2) : Paired(key)'
    <3> TAKE r \in Range(r1) \cup Range(r2)
    <3>1. r \in Range(relations') /\ {r.lhs, r.rhs} \subseteq {f.id : f \in MediaOf(key)'}
      BY <1>4, <1>5, <1>6, <1>1, SameFolder
    <3>2. QED
      BY <3>1 DEF Paired
  <2>3. QED
    BY <2>1, <2>2, <1>2, <1>4, <1>5
<1>13. relationKeys \subseteq relationKeys' /\ relationKeys' \subseteq relationKeys \cup {key}
  BY <1>2
<1>14. NothingHidden'
  <2>1. /\ \A f \in EntriesRead : Kind(f) = "unknown" => errors' # {}
        /\ weakKeys # {} => errors' # {}
        /\ \A k \in relationKeys : errors' # {} \/ Paired(k)'
        /\ \A k \in KeysChecked : errors' # {} \/ k \in SidecarKeys' \cup relationKeys
    BY <1>1, <1>7, <1>8, ExplainedKept
  <2>2. \A k \in relationKeys' : errors' # {} \/ Paired(k)'
    BY <2>1, <1>12, <1>13
  <2>3. exit' # "ok"
    BY <1>1 DEF NothingHidden
  <2>4. QED
    BY <2>1, <2>2, <2>3, <1>1, <1>9, <1>13 DEF NothingHidden
<1>15. QED
  BY <1>10, <1>11, <1>14

\* What the loop over the sidecars does with a key, in one form for its five branches.
LEMMA MatchOutcome ==
    ASSUME ParseTypes, NEW key \in SidecarKeys, MatchSidecars(key)
    PROVE  \/ /\ Matched(key) /\ relations' = Append(relations, Attachment(key))
              /\ errors' = errors /\ weakKeys' = weakKeys
           \/ /\ ~Matched(key) /\ relations' = relations
              /\ errors' = errors \cup {Error(s, Verdict(key)) : s \in SidecarsOf(key)}
<1> DEFINE media == MediaOf(key)
           sidecars == SidecarsOf(key)
           weak == MediaByPrefix(key)
           Told(code) == errors' = errors \cup {Error(s, code) : s \in sidecars}
<1>1. /\ IsFiniteSet(media) /\ IsFiniteSet(weak)
      /\ Cardinality(weak) \in Nat
  BY KeyFiles, FS_CardinalityType DEF ParseTypes
<1>2. /\ media = {} => Cardinality(media) # 1
      /\ weak = {} => Cardinality(weak) = 0
  BY FS_EmptySet
<1>3. CASE media = {} /\ weak = {} /\ Told("orphan_sidecar") /\ relations' = relations
  BY <1>3, <1>2 DEF Matched, Verdict
<1>4. CASE /\ media = {} /\ Cardinality(weak) = 1
           /\ Told("truncated_basename_match") /\ relations' = relations
  BY <1>4, <1>2 DEF Matched, Verdict
<1>5. CASE /\ media = {} /\ Cardinality(weak) > 1
           /\ Told("ambiguous_truncated_basename") /\ relations' = relations
  <2>1. Cardinality(weak) # 1 /\ weak # {}
    BY <1>1, <1>2, <1>5
  <2>2. QED
    BY <1>5, <1>2, <2>1 DEF Matched, Verdict
<1>6. CASE /\ media # {} /\ (Cardinality(media) # 1 \/ Cardinality(sidecars) # 1)
           /\ Told("ambiguous_sidecar_relation") /\ relations' = relations
  BY <1>6 DEF Matched, Verdict
<1>7. CASE /\ Cardinality(media) = 1 /\ Cardinality(sidecars) = 1
           /\ relations' = Append(relations,
                 Relation(Kind(The(sidecars)), The(media), The(sidecars),
                          SidecarRule(The(sidecars))))
           /\ errors' = errors /\ weakKeys' = weakKeys
  BY <1>7 DEF Matched, Attachment
<1>8. QED
  BY <1>3, <1>4, <1>5, <1>6, <1>7 DEF MatchSidecars

\* Settling a sidecar key: it gets its attachment or its errors, and no other key does.
LEMMA MatchSidecarsParse ==
    ASSUME ParseInv, NEW key \in SidecarKeys, MatchSidecars(key)
    PROVE  ParseInv'
<1> USE DEF ParseInv
<1>1. /\ folder' = folder /\ tpc = "match" /\ tpc' = "match" /\ key \in todo
      /\ todo' = todo \ {key} /\ relationKeys' = relationKeys /\ exit' = exit
  BY DEF MatchSidecars, built
<1>2. /\ KeysSettled' = KeysSettled \cup {key} /\ KeysChecked' = KeysChecked
      /\ EntriesRead' = EntriesRead
  BY <1>1, SameFolder DEF KeysSettled, KeysChecked, EntriesRead
<1>3. exit' # "ok"
  BY <1>1 DEF NothingHidden
<1>4. SidecarsOf(key) # {}
  BY KeyHasFile
<1>5. /\ relations' \in Seq(AnyRelation) /\ Range(relations) \subseteq Range(relations')
      /\ errors \subseteq errors'
      /\ Range(relations') \subseteq
            Range(relations) \cup (IF Matched(key) THEN {Attachment(key)} ELSE {})
      /\ Matched(key) => Attachment(key) \in Range(relations')
      /\ errors' = errors \cup (IF Matched(key) THEN {}
                                ELSE {Error(s, Verdict(key)) : s \in SidecarsOf(key)})
      /\ weakKeys' # weakKeys => errors' # {}
  <2>0. relations \in Seq(AnyRelation) /\ IsFiniteSet(folder) /\ folder \subseteq File
    BY DEF ParseTypes
  <2>1. CASE /\ Matched(key) /\ relations' = Append(relations, Attachment(key))
             /\ errors' = errors /\ weakKeys' = weakKeys
    <3>1. PICK m \in folder, s \in folder :
             /\ IsSidecar(s) /\ Attachment(key) = Relation(Kind(s), m, s, SidecarRule(s))
      BY <2>0, <2>1, MatchedKey
    <3>2. Attachment(key) \in AnyRelation
      <4>1. m.id \in Nat /\ s.id \in Nat
        BY <2>0, TakeoutAssumption
      <4>2. /\ Kind(s) \in {"raw_jpeg", "live_photo", "json", "xmp"}
            /\ SidecarRule(s) \in
                  {"raw_jpeg", "live_photo", "sidecar-media-extension", "basename"}
        BY <3>1 DEF IsSidecar, SidecarRule
      <4>3. QED
        BY <4>1, <4>2, <3>1 DEF AnyRelation, Relation
    <3>3. /\ relations' \in Seq(AnyRelation)
          /\ Range(relations') = Range(relations) \cup {Attachment(key)}
      BY <2>0, <2>1, <3>2, RangeAppend
    <3>4. QED
      BY <2>1, <3>3
  <2>2. CASE /\ ~Matched(key) /\ relations' = relations
             /\ errors' = errors \cup {Error(s, Verdict(key)) : s \in SidecarsOf(key)}
    BY <2>0, <2>2, <1>4
  <2>3. QED
    BY <2>1, <2>2, MatchOutcome
<1>6. ParseTypes'
  BY <1>1, <1>5 DEF ParseTypes
<1>7. AttachmentsRight'
  <2>1. /\ \A r \in Range(relations') : r.relation \in {"json", "xmp"} =>
              \E k \in KeysSettled' : Matched(k) /\ r = Attachment(k)
        /\ \A k \in KeysSettled' : Matched(k) => Attachment(k) \in Range(relations')
    BY <1>2, <1>5 DEF AttachmentsRight
  <2>2. QED
    BY <2>1, <1>1, SameFolder DEF AttachmentsRight
<1>8. ErrorsRight'
  <2>1. /\ \A e \in errors' : e.code \in AssociationCode =>
              \E k \in KeysSettled' : /\ ~Matched(k)
                                      /\ \E s \in SidecarsOf(k) : e = Error(s, Verdict(k))
        /\ \A k \in KeysSettled' : ~Matched(k) =>
              \A s \in SidecarsOf(k) : Error(s, Verdict(k)) \in errors'
    BY <1>2, <1>5 DEF ErrorsRight
  <2>2. QED
    BY <2>1, <1>1, SameFolder DEF ErrorsRight
<1>9. NothingHidden'
  <2>1. /\ \A f \in EntriesRead : Kind(f) = "unknown" => errors' # {}
        /\ weakKeys # {} => errors' # {}
        /\ \A k \in relationKeys : errors' # {} \/ Paired(k)'
        /\ \A k \in KeysChecked : errors' # {} \/ k \in SidecarKeys' \cup relationKeys
    BY <1>1, <1>5, ExplainedKept
  <2>2. weakKeys' # {} => errors' # {}
    BY <2>1, <1>5
  <2>3. QED
    BY <2>1, <2>2, <1>1, <1>2, <1>3 DEF NothingHidden
<1>10. QED
  BY <1>6, <1>7, <1>8, <1>9

\* Media of a key that nothing explains are reported.
LEMMA ReportMissingParse ==
    ASSUME ParseInv, NEW key \in MediaKeys, ReportMissing(key)
    PROVE  ParseInv'
<1> USE DEF ParseInv
<1>1. /\ folder' = folder /\ tpc = "missing" /\ tpc' = "missing" /\ todo' = todo \ {key}
      /\ relations' = relations /\ relationKeys' = relationKeys /\ weakKeys' = weakKeys
      /\ exit' = exit
  BY DEF ReportMissing, built
<1>2. /\ errors \subseteq errors'
      /\ \A e \in errors' : e \in errors \/ e.code = "missing_sidecar"
      /\ errors' # {} \/ key \in SidecarKeys \cup relationKeys
  <2>1. CASE key \in SidecarKeys \cup relationKeys \cup weakKeys
    BY <2>1 DEF ReportMissing, NothingHidden
  <2>2. CASE key \notin SidecarKeys \cup relationKeys \cup weakKeys
    <3>1. errors' = errors \cup {Error(f, "missing_sidecar") : f \in MediaOf(key)}
      BY <2>2 DEF ReportMissing
    <3>2. MediaOf(key) # {}
      BY KeyHasFile
    <3>3. QED
      BY <3>1, <3>2, Fields
  <2>3. QED
    BY <2>1, <2>2
<1>3. \A e \in errors' : e \in errors \/ e.code \notin AssociationCode
  BY <1>2 DEF AssociationCode
<1>4. /\ KeysSettled' = KeysSettled /\ KeysChecked' \subseteq KeysChecked \cup {key}
      /\ EntriesRead' = EntriesRead
  BY <1>1, SameFolder DEF KeysSettled, KeysChecked, EntriesRead
<1>5. Range(relations') = Range(relations)
  BY <1>1
<1>6. AttachmentsRight' /\ ErrorsRight'
  BY <1>1, <1>2, <1>3, <1>4, <1>5, SettledKept
<1>7. ParseTypes'
  BY <1>1 DEF ParseTypes
<1>8. NothingHidden'
  <2>1. /\ \A f \in EntriesRead : Kind(f) = "unknown" => errors' # {}
        /\ weakKeys # {} => errors' # {}
        /\ \A k \in relationKeys : errors' # {} \/ Paired(k)'
        /\ \A k \in KeysChecked : errors' # {} \/ k \in SidecarKeys' \cup relationKeys
    BY <1>1, <1>2, <1>5, ExplainedKept
  <2>2. \A k \in KeysChecked' : errors' # {} \/ k \in SidecarKeys' \cup relationKeys
    BY <2>1, <1>1, <1>2, <1>4, SameFolder
  <2>3. exit' # "ok"
    BY <1>1 DEF NothingHidden
  <2>4. QED
    BY <2>1, <2>2, <2>3, <1>1, <1>4 DEF NothingHidden
<1>9. QED
  BY <1>6, <1>7, <1>8

\* Sorting the relations keeps them all and adds none.
LEMMA SortKeepsRelations ==
    ASSUME NEW S, NEW s \in Seq(S), NEW order \in Bijection(DOMAIN s, DOMAIN s)
    PROVE  LET t == [k \in DOMAIN s |-> s[order[k]]]
           IN  t \in Seq(S) /\ Range(t) = Range(s)
<1> DEFINE t == [k \in DOMAIN s |-> s[order[k]]]
<1>1. DOMAIN s = 1..Len(s) /\ Len(s) \in Nat /\ \A k \in 1..Len(s) : s[k] \in S
  BY LenProperties, ElementOfSeq
<1>2. /\ \A k \in DOMAIN s : order[k] \in DOMAIN s
      /\ \A j \in DOMAIN s : \E k \in DOMAIN s : order[k] = j
  BY DEF Bijection, Injection, Surjection
<1>3. t \in [1..Len(s) -> S]
  BY <1>1, <1>2
<1>4. t \in Seq(S)
  BY <1>1, <1>3
<1>5. Range(t) = Range(s)
  BY <1>2 DEF Range
<1>6. QED
  BY <1>4, <1>5

\* The end of a loop: what it had to take, it has taken.
LEMMA NextLoopParse == ASSUME ParseInv, NextLoop PROVE ParseInv'
<1> USE DEF ParseInv
<1>1. /\ folder' = folder /\ errors' = errors /\ relationKeys' = relationKeys
      /\ weakKeys' = weakKeys /\ exit' = exit /\ todo = {} /\ tpc # "done"
  BY DEF NextLoop, built
<1>2. relations' \in Seq(AnyRelation) /\ Range(relations') = Range(relations)
  <2>1. relations \in Seq(AnyRelation)
    BY DEF ParseTypes
  <2>2. CASE relations' = relations
    BY <2>1, <2>2
  <2>3. CASE \E order \in Bijection(DOMAIN relations, DOMAIN relations) :
                relations' = [k \in DOMAIN relations |-> relations[order[k]]]
    BY <2>1, <2>3, SortKeepsRelations
  <2>4. QED
    BY <2>2, <2>3 DEF NextLoop
<1>3. /\ KeysSettled' = KeysSettled /\ KeysChecked' = KeysChecked
      /\ EntriesRead' = EntriesRead
  BY <1>1, SameFolder DEF NextLoop, KeysSettled, KeysChecked, EntriesRead
<1>4. tpc' \in {"pair", "match", "missing", "build"}
  BY DEF NextLoop
<1>5. AttachmentsRight' /\ ErrorsRight'
  BY <1>1, <1>2, <1>3, SettledKept
<1>6. ParseTypes'
  BY <1>1, <1>2, <1>4 DEF ParseTypes
<1>7. exit' # "ok"
  BY <1>1 DEF NothingHidden
<1>8. NothingHidden'
  <2>1. /\ \A f \in EntriesRead : Kind(f) = "unknown" => errors' # {}
        /\ weakKeys # {} => errors' # {}
        /\ \A k \in relationKeys : errors' # {} \/ Paired(k)'
        /\ \A k \in KeysChecked : errors' # {} \/ k \in SidecarKeys' \cup relationKeys
    BY <1>1, <1>2, ExplainedKept
  <2>2. QED
    BY <2>1, <1>1, <1>3, <1>7 DEF NothingHidden
<1>9. QED
  BY <1>5, <1>6, <1>8

\* The command that ends the run changes nothing that the parser found, and reports success
\* only without errors.
LEMMA EndParse ==
    ASSUME ParseInv, tpc = "build", tpc' = "done",
           UNCHANGED <<folder, errors, relations, relationKeys, weakKeys>>,
           exit' = "ok" => errors = {}
    PROVE  ParseInv'
<1> USE DEF ParseInv
<1>1. /\ KeysSettled' = KeysSettled /\ KeysChecked' = KeysChecked
      /\ EntriesRead' = EntriesRead
  BY SameFolder DEF KeysSettled, KeysChecked, EntriesRead
<1>2. Range(relations') = Range(relations)
  OBVIOUS
<1>3. AttachmentsRight' /\ ErrorsRight'
  BY <1>1, <1>2, SettledKept
<1>4. ParseTypes'
  BY DEF ParseTypes
<1>5. NothingHidden'
  <2>1. /\ \A f \in EntriesRead : Kind(f) = "unknown" => errors' # {}
        /\ weakKeys # {} => errors' # {}
        /\ \A k \in relationKeys : errors' # {} \/ Paired(k)'
        /\ \A k \in KeysChecked : errors' # {} \/ k \in SidecarKeys' \cup relationKeys
    BY <1>2, ExplainedKept
  <2>2. QED
    BY <2>1, <1>1 DEF NothingHidden
<1>6. QED
  BY <1>3, <1>4, <1>5

\* Building the graph and the photos.
LEMMA BuildParse == ASSUME ParseInv, Build PROVE ParseInv'
<1>1. /\ tpc = "build" /\ tpc' = "done"
      /\ UNCHANGED <<folder, errors, relations, relationKeys, weakKeys>>
  BY DEF Build
<1>2. exit' = "ok" => errors = {}
  <2>1. \/ Graph.status # "ok" /\ exit' = Graph.status
        \/ exit' = IF errors = {} THEN "ok" ELSE "parser_errors"
    BY DEF Build
  <2>2. QED
    BY <2>1
<1>3. QED
  BY <1>1, <1>2, EndParse

\* The report cannot be written.
LEMMA ReportFailsParse == ASSUME ParseInv, ReportFails PROVE ParseInv'
<1>1. /\ tpc = "build" /\ tpc' = "done" /\ exit' = "io_error"
      /\ UNCHANGED <<folder, errors, relations, relationKeys, weakKeys>>
  BY DEF ReportFails
<1>2. QED
  BY <1>1, EndParse

\* A step that changes nothing.
LEMMA StutterParse == ASSUME ParseInv, UNCHANGED takeoutVars PROVE ParseInv'
<1> USE DEF ParseInv
<1>1. /\ folder' = folder /\ tpc' = tpc /\ todo' = todo /\ errors' = errors
      /\ relations' = relations /\ relationKeys' = relationKeys /\ weakKeys' = weakKeys
      /\ exit' = exit
  BY DEF takeoutVars
<1>2. /\ KeysSettled' = KeysSettled /\ KeysChecked' = KeysChecked
      /\ EntriesRead' = EntriesRead
  BY <1>1, SameFolder DEF KeysSettled, KeysChecked, EntriesRead
<1>3. Range(relations') = Range(relations)
  BY <1>1
<1>4. AttachmentsRight' /\ ErrorsRight'
  BY <1>1, <1>2, <1>3, SettledKept
<1>5. ParseTypes'
  BY <1>1 DEF ParseTypes
<1>6. NothingHidden'
  <2>1. /\ \A f \in EntriesRead : Kind(f) = "unknown" => errors' # {}
        /\ weakKeys # {} => errors' # {}
        /\ \A k \in relationKeys : errors' # {} \/ Paired(k)'
        /\ \A k \in KeysChecked : errors' # {} \/ k \in SidecarKeys' \cup relationKeys
    BY <1>1, <1>3, ExplainedKept
  <2>2. QED
    BY <2>1, <1>1, <1>2 DEF NothingHidden
<1>7. QED
  BY <1>4, <1>5, <1>6

\* An exception out of the loop over the entries: nothing has been settled.
LEMMA ReadThrowsParse ==
    ASSUME ParseInv, NEW f \in folder, ReadThrows(f)
    PROVE  ParseInv'
<1> USE DEF ParseInv
<1>1. /\ folder' = folder /\ tpc = "read" /\ tpc' = "thrown" /\ todo' = todo
      /\ errors' = errors /\ relations' = relations /\ relationKeys' = relationKeys
      /\ weakKeys' = weakKeys /\ exit' = exit
  BY DEF ReadThrows, built
<1>2. /\ KeysSettled' = KeysSettled /\ KeysChecked' = KeysChecked
      /\ EntriesRead' = EntriesRead
  BY <1>1, SameFolder DEF KeysSettled, KeysChecked, EntriesRead
<1>3. Range(relations') = Range(relations)
  BY <1>1
<1>4. AttachmentsRight' /\ ErrorsRight'
  BY <1>1, <1>2, <1>3, SettledKept
<1>5. ParseTypes'
  BY <1>1 DEF ParseTypes
<1>6. NothingHidden'
  <2>1. /\ \A g \in EntriesRead : Kind(g) = "unknown" => errors' # {}
        /\ weakKeys # {} => errors' # {}
        /\ \A k \in relationKeys : errors' # {} \/ Paired(k)'
        /\ \A k \in KeysChecked : errors' # {} \/ k \in SidecarKeys' \cup relationKeys
    BY <1>1, <1>3, ExplainedKept
  <2>2. exit # "ok"
    BY <1>1 DEF NothingHidden
  <2>3. QED
    BY <2>1, <2>2, <1>1, <1>2 DEF NothingHidden
<1>7. QED
  BY <1>4, <1>5, <1>6

\* In every state of every parse, the keys the loops have taken are settled as the
\* invariant says, whatever the order of the iterations (TakeoutParser::Parse).
THEOREM ParseInvariant == TakeoutSpec => []ParseInv
<1>1. TakeoutInit => ParseInv
  BY InitParse
<1>2. ParseInv /\ [TakeoutNext]_takeoutVars => ParseInv'
  <2> SUFFICES ASSUME ParseInv, [TakeoutNext]_takeoutVars PROVE ParseInv'
    OBVIOUS
  <2>1. ASSUME NEW f \in folder, ReadEntry(f) PROVE ParseInv'
    BY <2>1, ReadEntryParse
  <2>2. ASSUME NEW k \in MediaKeys, PairMedia(k) PROVE ParseInv'
    BY <2>2, PairMediaParse
  <2>3. ASSUME NEW k \in MediaKeys, ReportMissing(k) PROVE ParseInv'
    BY <2>3, ReportMissingParse
  <2>4. ASSUME NEW k \in SidecarKeys, MatchSidecars(k) PROVE ParseInv'
    BY <2>4, MatchSidecarsParse
  <2>5. CASE NextLoop
    BY <2>5, NextLoopParse
  <2>6. CASE Build
    BY <2>6, BuildParse
  <2>7. CASE ReportFails
    BY <2>7, ReportFailsParse
  <2>8. CASE TakeoutDone \/ UNCHANGED takeoutVars
    BY <2>8, StutterParse DEF TakeoutDone
  <2>9. ASSUME NEW f \in folder, ReadThrows(f) PROVE ParseInv'
    BY <2>9, ReadThrowsParse
  <2>10. QED
    BY <2>1, <2>2, <2>3, <2>4, <2>5, <2>6, <2>7, <2>8, <2>9 DEF TakeoutNext
<1>3. QED
  BY <1>1, <1>2, PTL DEF TakeoutSpec

-----------------------------------------------------------------------------
(* The theorems *)

\* A sidecar names its key: two settled keys never claim the same file.
LEMMA KeyOfFile ==
    ASSUME ParseInv, NEW k, NEW f \in SidecarsOf(k) \cup MediaOf(k), NEW g \in folder,
           f.id = g.id
    PROVE  f = g /\ k = BasenameKey(g)
<1>1. f \in folder /\ BasenameKey(f) = k
  BY KeyFiles DEF ParseInv, ParseTypes
<1>2. f = g
  BY <1>1, TakeoutAssumption DEF ParseInv, ParseTypes
<1>3. QED
  BY <1>1, <1>2

\* Every attachment is the one of a matched, settled key.
LEMMA AttachmentOfKey ==
    ASSUME ParseInv, NEW r \in Attachments
    PROVE  \E k \in KeysSettled, m \in folder, s \in folder :
              /\ Matched(k) /\ r = Attachment(k) /\ r.lhs = m.id /\ r.rhs = s.id
              /\ m \in MediaOf(k) /\ s \in SidecarsOf(k) /\ IsMedia(m) /\ IsSidecar(s)
              /\ BasenameKey(m) = k /\ BasenameKey(s) = k
<1>1. PICK k \in KeysSettled : Matched(k) /\ r = Attachment(k)
  BY DEF ParseInv, AttachmentsRight, Attachments
<1>2. PICK m \in folder, s \in folder :
         /\ MediaOf(k) = {m} /\ SidecarsOf(k) = {s}
         /\ IsMedia(m) /\ IsSidecar(s) /\ BasenameKey(m) = k /\ BasenameKey(s) = k
         /\ Attachment(k) = Relation(Kind(s), m, s, SidecarRule(s))
  BY <1>1, MatchedKey DEF ParseInv, ParseTypes
<1>3. r.lhs = m.id /\ r.rhs = s.id
  BY <1>1, <1>2, Fields
<1>4. QED
  BY <1>1, <1>2, <1>3

\* The attachment of a matched, settled key is among the relations and names its sidecar.
LEMMA KeyIsAttached ==
    ASSUME ParseInv, NEW k \in KeysSettled, Matched(k), NEW s \in SidecarsOf(k)
    PROVE  Attachment(k) \in Attachments /\ Attachment(k).rhs = s.id
<1>1. Attachment(k) \in Range(relations)
  BY DEF ParseInv, AttachmentsRight
<1>2. PICK m \in folder, z \in folder :
         /\ SidecarsOf(k) = {z} /\ IsSidecar(z)
         /\ Attachment(k) = Relation(Kind(z), m, z, SidecarRule(z))
  BY MatchedKey DEF ParseInv, ParseTypes
<1>3. s = z
  BY <1>2
<1>4. Attachment(k).relation = Kind(z) /\ Attachment(k).rhs = z.id
  BY <1>2, Fields
<1>5. QED
  BY <1>1, <1>2, <1>3, <1>4 DEF Attachments, IsSidecar

\* A finished parse has settled every sidecar once.
LEMMA OneVerdict ==
    ASSUME ParseInv, Finished, NEW s \in folder, IsSidecar(s)
    PROVE  Cardinality({r \in Attachments : r.rhs = s.id})
            + Cardinality({e \in errors : e.id = s.id /\ e.code \in AssociationCode}) = 1
<1> DEFINE key == BasenameKey(s)
           A == {r \in Attachments : r.rhs = s.id}
           E == {e \in errors : e.id = s.id /\ e.code \in AssociationCode}
<1>1. key \in KeysSettled /\ s \in SidecarsOf(key)
  BY KeyHasFile DEF KeysSettled, Finished
<1>2. \A r \in A : Matched(key) /\ r = Attachment(key)
  <2> TAKE r \in A
  <2>1. PICK k \in KeysSettled, m \in folder, z \in folder :
           Matched(k) /\ r = Attachment(k) /\ r.rhs = z.id /\ z \in SidecarsOf(k)
    BY AttachmentOfKey
  <2>2. k = key
    BY <2>1, KeyOfFile
  <2>3. QED
    BY <2>1, <2>2
<1>3. \A e \in E : ~Matched(key) /\ e = Error(s, Verdict(key))
  <2> TAKE e \in E
  <2>1. PICK k \in KeysSettled : /\ ~Matched(k)
                                 /\ \E z \in SidecarsOf(k) : e = Error(z, Verdict(k))
    BY DEF ParseInv, ErrorsRight
  <2>2. PICK z \in SidecarsOf(k) : e = Error(z, Verdict(k))
    BY <2>1
  <2>3. z.id = s.id
    BY <2>2, Fields
  <2>4. z = s /\ k = key
    BY <2>3, KeyOfFile
  <2>5. QED
    BY <2>1, <2>2, <2>4
<1> HIDE DEF key
<1>4. CASE Matched(key)
  <2>1. A = {Attachment(key)}
    BY <1>1, <1>2, <1>4, KeyIsAttached
  <2>2. E = {}
    BY <1>3, <1>4
  <2> HIDE DEF A, E
  <2>3. Cardinality(A) = 1 /\ Cardinality(E) = 0
    BY <2>1, <2>2, FS_Singleton, FS_EmptySet
  <2>4. QED
    BY <2>3 DEF A, E
<1>5. CASE ~Matched(key)
  <2>1. A = {}
    BY <1>2, <1>5
  <2>2. Error(s, Verdict(key)) \in errors
    BY <1>1, <1>5 DEF ParseInv, ErrorsRight
  <2>3. Verdict(key) \in AssociationCode
    BY DEF Verdict, AssociationCode
  <2>4. E = {Error(s, Verdict(key))}
    BY <1>3, <2>2, <2>3, Fields
  <2> HIDE DEF A, E
  <2>5. Cardinality(A) = 0 /\ Cardinality(E) = 1
    BY <2>1, <2>4, FS_Singleton, FS_EmptySet
  <2>6. QED
    BY <2>5 DEF A, E
<1>6. QED
  BY <1>4, <1>5

\* Every sidecar of every folder ends with one medium or one error, no medium with two
\* sidecars and no sidecar with a medium of another directory or stem
\* (AddRelationErrorsAndCandidates).
THEOREM SidecarsSettledSafe == TakeoutSpec => []SidecarsSettled
<1>1. ParseInv => SidecarsSettled
  <2> SUFFICES ASSUME ParseInv, Finished PROVE SidecarsSettled
    BY DEF SidecarsSettled
  <2>1. \A s \in {f \in folder : IsSidecar(f)} :
           Cardinality({r \in Attachments : r.rhs = s.id})
             + Cardinality({e \in errors : e.id = s.id /\ e.code \in AssociationCode}) = 1
    BY OneVerdict
  <2>2. ASSUME NEW q \in Attachments, NEW r \in Attachments, q.lhs = r.lhs PROVE q = r
    <3>1. PICK k \in KeysSettled, m \in folder, s \in folder :
             q = Attachment(k) /\ q.lhs = m.id /\ m \in MediaOf(k) /\ BasenameKey(m) = k
      BY AttachmentOfKey
    <3>2. PICK j \in KeysSettled, n \in folder, t \in folder :
             r = Attachment(j) /\ r.lhs = n.id /\ n \in MediaOf(j) /\ BasenameKey(n) = j
      BY AttachmentOfKey
    <3>3. j = BasenameKey(m)
      BY <3>1, <3>2, <2>2, KeyOfFile
    <3>4. QED
      BY <3>1, <3>2, <3>3
  <2>3. ASSUME NEW r \in Attachments
        PROVE  \E m, s \in folder :
                  /\ r.lhs = m.id /\ r.rhs = s.id /\ IsMedia(m) /\ IsSidecar(s)
                  /\ m.dir = s.dir /\ Stem(m) = Stem(s)
    <3>1. PICK k \in KeysSettled, m \in folder, s \in folder :
             /\ r.lhs = m.id /\ r.rhs = s.id /\ IsMedia(m) /\ IsSidecar(s)
             /\ BasenameKey(m) = k /\ BasenameKey(s) = k
      BY AttachmentOfKey
    <3>2. m.dir = s.dir /\ Stem(m) = Stem(s)
      BY <3>1 DEF BasenameKey
    <3>3. QED
      BY <3>1, <3>2
  <2>4. QED
    BY <2>1, <2>2, <2>3 DEF SidecarsSettled
<1>2. QED
  BY <1>1, ParseInvariant, PTL

\* A parse that ends without errors has attached every sidecar, explained every medium and
\* known every file (TakeoutParseCommand::Execute).
THEOREM CleanParseIsCompleteSafe == TakeoutSpec => []CleanParseIsComplete
<1>1. ParseInv => CleanParseIsComplete
  <2> SUFFICES ASSUME ParseInv, exit = "ok" PROVE CleanParseIsComplete
    BY DEF CleanParseIsComplete
  <2>1. tpc = "done" /\ errors = {}
    BY DEF ParseInv, NothingHidden
  <2>2. /\ KeysSettled = SidecarKeys /\ KeysChecked = MediaKeys /\ EntriesRead = folder
    BY <2>1 DEF KeysSettled, KeysChecked, EntriesRead
  <2>3. \A k \in SidecarKeys : Matched(k)
    BY <2>1, <2>2, KeyHasFile DEF ParseInv, ErrorsRight
  <2>4. ASSUME NEW s \in folder, IsSidecar(s)
        PROVE  \E r \in Attachments : r.rhs = s.id
    <3>1. BasenameKey(s) \in SidecarKeys /\ s \in SidecarsOf(BasenameKey(s))
      BY <2>4, KeyHasFile
    <3>2. QED
      BY <3>1, <2>2, <2>3, KeyIsAttached
  <2>5. ASSUME NEW k \in MediaKeys
        PROVE  LET ids == {f.id : f \in MediaOf(k)}
               IN  \/ Cardinality(ids) = 1 /\ SidecarsOf(k) # {}
                   \/ \E r \in Range(relations) : {r.lhs, r.rhs} \subseteq ids
    <3>1. CASE k \in SidecarKeys
      <4>1. PICK m \in folder, s \in folder : MediaOf(k) = {m} /\ SidecarsOf(k) = {s}
        BY <3>1, <2>3, MatchedKey DEF ParseInv, ParseTypes
      <4>2. {f.id : f \in MediaOf(k)} = {m.id}
        BY <4>1
      <4>3. Cardinality({m.id}) = 1
        BY FS_Singleton
      <4>4. QED
        BY <4>1, <4>2, <4>3
    <3>2. CASE k \in relationKeys
      BY <3>2, <2>1 DEF ParseInv, NothingHidden, Paired
    <3>3. QED
      BY <3>1, <3>2, <2>1, <2>2 DEF ParseInv, NothingHidden
  <2>6. \A f \in folder : Kind(f) # "unknown"
    BY <2>1, <2>2 DEF ParseInv, NothingHidden
  <2>7. QED
    BY <2>4, <2>5, <2>6 DEF CleanParseIsComplete
<1>2. QED
  BY <1>1, ParseInvariant, PTL
=============================================================================
