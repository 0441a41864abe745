--------------------------- MODULE MC_TakeoutParser ---------------------------
EXTENDS TakeoutParser

F(id, dir, base, exts) == [id |-> id, dir |-> dir, base |-> base, exts |-> exts]

img == <<"i", "m", "g">>

\* One stem in every form, two longer ones, one too short to be a prefix, another
\* directory, album metadata and a file of no kind.  The ids are in no order of the names.
MCFile ==
    {F(4, 1, img, <<"dng">>), F(9, 1, img, <<"cr2">>), F(6, 1, img, <<"jpg">>),
     F(2, 1, img, <<"mov">>), F(11, 1, img, <<"png">>), F(7, 1, img, <<"heic">>),
     F(3, 1, img, <<"json">>), F(8, 1, img, <<"jpg", "json">>), F(5, 1, img, <<"xmp">>),
     F(1, 1, img \o <<"a">>, <<"jpg">>), F(10, 1, img \o <<"b">>, <<"jpg">>),
     F(12, 1, <<"i", "m">>, <<"json">>), F(13, 2, img, <<"json">>),
     F(14, 1, <<"metadata">>, <<"json">>), F(15, 1, img, <<>>)}

Fields(value, present) == [x \in Field |-> IF x \in present THEN value ELSE "absent"]

MCDocument ==
    {[error |-> "unreadable_json"],
     [error |-> "none", fields |-> Fields("absent", {})],
     [error |-> "none",
      fields |-> [Fields("v", {"title"}) EXCEPT !["favorited"] = "metadata_field_type"]]}
=============================================================================
