----------------------------- MODULE MC_NvtiRecord -----------------------------
(***************************************************************************)
(* get_nvt_metadata's decoding run on no list, an empty list, and records  *)
(* whose tag field is any text of at most MaxTagLen tokens over            *)
(* TagAlphabet, whose tokens include the field names filename and name,    *)
(* and whose filename, required_keys, cve and name fields are each empty   *)
(* or not; get_nvt_refs' decoding run on the cve, bid and xref fields the  *)
(* writer stores for every reference list of at most MaxRefs entries.      *)
(***************************************************************************)
EXTENDS NvtiRecord

CONSTANTS TagAlphabet, MaxTagLen, MaxRefs

Val == <<"v">>

\* The 15 fields with the tag text, empty exactly at the positions in E.
Record(tag, E) ==
    [i \in 1..15 |-> IF i = NVT_TAGS_POS THEN tag
                     ELSE IF i \in E THEN <<>> ELSE Val]

Records ==
    {Record(t, E) : t \in StringsUpTo(TagAlphabet, MaxTagLen),
                    E \in SUBSET {1, 2, NVT_CVES_POS, 15}}

\* Reference entries as the writer has them; ", ".join(entries).
RefEntries == {<<>>, <<"c">>, <<"c", ",">>, <<" ", "c">>}
JoinRefs(l) == IF l = <<>> THEN <<>>
               ELSE FoldLeft(LAMBDA acc, x : acc \o <<",", " ">> \o x, l[1], Tail(l))
RefLists == BoundedSeq(RefEntries, MaxRefs)

VARIABLES resp, refLists, out

vars == <<resp, refLists, out>>

\* A metadata call reads a record, a references call three fields.
Init ==
    /\ \/ resp \in {None, <<>>} \cup Records /\ refLists = None
       \/ resp = None /\ refLists \in RefLists \X RefLists \X RefLists
    /\ out = None

Decode ==
    /\ out = None
    /\ out' = IF refLists = None
              THEN [meta |-> GetNvtMetadataDecode(resp)]
              ELSE [refs |-> GetNvtRefsDecode([i \in 1..3 |-> JoinRefs(refLists[i])])]
    /\ UNCHANGED <<resp, refLists>>

\* One decoding of one input: the call returns and the run stops there.
Spec == Init /\ [][Decode]_vars

-----------------------------------------------------------------------------
(* spec.md 4.2: None for an empty read; otherwise every non-empty field     *)
(* other than tag, cve, bid and xref under its own name with its stored    *)
(* value, and the tag pairs flattened beside them.                         *)

SpecRefFields == {NVT_TAGS_POS, NVT_CVES_POS, 10, NVT_XREFS_POS}
CopiedAt(r) == {i \in 1..15 \ SpecRefFields : r[i] # <<>>}

\* The values spec.md 4.2 allows under key k: the stored value of a copied
\* field named k, and the value of the tag pair with key k.  It does not
\* say which wins when a tag key is a field name, so either may.
AllowedValues(r, tags, k) ==
    {r[i] : i \in {j \in CopiedAt(r) : FieldNames[j] = k}}
    \cup (IF k \in DOMAIN tags THEN {tags[k]} ELSE {})

SpecMetadataAllows(r, m) ==
    IF r = None \/ r = <<>> THEN m = None
    ELSE LET tags == ParseMetadataTags(r[NVT_TAGS_POS]).tags
         IN  /\ m # None
             /\ DOMAIN m = {FieldNames[i] : i \in CopiedAt(r)} \cup DOMAIN tags
             /\ \A k \in DOMAIN m : m[k] \in AllowedValues(r, tags, k)

\* spec.md 4.3: each field's list of references, an empty field giving
\* the one-element list [""].
SpecRefs(ls) ==
    [k \in {"cve", "bid", "xref"} |->
        LET l == ls[CHOOSE i \in 1..3 : <<"cve", "bid", "xref">>[i] = k]
        IN  IF l = <<>> THEN << <<>> >> ELSE l]

-----------------------------------------------------------------------------

\* get_nvt_metadata returns None exactly for an empty read and otherwise
\* a map of spec.md 4.2: the keys of the stored non-reference fields and
\* of the tag pairs, no cve, bid or xref, and under each key a value that
\* field or tag holds.  Tag keys include field names before the tag
\* (filename) and after it (name), so the in-place merge of the tags
\* between the fields is checked to lose no key and invent no value.
MetadataMatchesSpec ==
    out # None /\ refLists = None => SpecMetadataAllows(resp, out.meta)

\* get_nvt_refs gives back, for each reference field, the list of
\* references the writer joined with ", ", an empty field as [""].
RefsRoundTrip ==
    out # None /\ refLists # None => out.refs = SpecRefs(refLists)

================================================================================
