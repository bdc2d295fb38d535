------------------------------ MODULE MC_NvtiTags ------------------------------
(***************************************************************************)
(* The tag decoders run on every string of at most MaxTagLen characters   *)
(* over {a, b, =, |}: empty keys and values, values holding '=', segments *)
(* without '=', empty segments and repeated keys all occur.  None stands  *)
(* for the read of a VT that is gone (a reload flushed it after get_oids  *)
(* listed it).  One step reads a tag string, the next decodes it.         *)
(***************************************************************************)
EXTENDS NvtiTags, FiniteSets

CONSTANT MaxTagLen

TagStrings == StringsUpTo({"a", "b", "=", "|"}, MaxTagLen)

VARIABLES tagsStr, out

vars == <<tagsStr, out>>

Init ==
    /\ tagsStr \in TagStrings \cup {None}
    /\ out = None

Decode ==
    /\ out = None
    /\ out' = [meta |-> IF tagsStr = None THEN None ELSE ParseMetadataTags(tagsStr),
                tag |-> GetNvtTagDecode(tagsStr)]
    /\ UNCHANGED tagsStr

\* One decoding of one input: the call returns and the run stops there.
Spec == Init /\ [][Decode]_vars

-----------------------------------------------------------------------------
(* The tag grammar of spec.md 4.4 stated on positions: the segments are    *)
(* the maximal runs between '|' characters; a segment is a pair when it    *)
(* holds '=', its key the text before the first '=' and its value the      *)
(* rest; the last pair with a key gives its value; every other segment is  *)
(* reported once, in order.                                                 *)

Cuts(s) == SetToSortSeq({0, Len(s) + 1} \cup {i \in DOMAIN s : s[i] = "|"}, <)

SpecSegments(s) ==
    LET c == Cuts(s)
    IN  [j \in 1..(Len(c) - 1) |-> SubSeq(s, c[j] + 1, c[j + 1] - 1)]

FirstEq(seg) == CHOOSE i \in DOMAIN seg : seg[i] = "=" /\ \A j \in 1..(i - 1) : seg[j] # "="

IsPair(seg) == \E i \in DOMAIN seg : seg[i] = "="
SpecKey(seg) == SubSeq(seg, 1, FirstEq(seg) - 1)
SpecValue(seg) == SubSeq(seg, FirstEq(seg) + 1, Len(seg))

SpecTags(s) ==
    LET segs == SpecSegments(s)
        pairs == {j \in DOMAIN segs : IsPair(segs[j])}
        keys == {SpecKey(segs[j]) : j \in pairs}
        lastWith(k) == CHOOSE j \in pairs : SpecKey(segs[j]) = k
                          /\ \A m \in pairs : SpecKey(segs[m]) = k => m <= j
    IN  [tags |-> [k \in keys |-> SpecValue(segs[lastWith(k)])],
         logged |-> SelectSeq(segs, LAMBDA seg : ~IsPair(seg))]

-----------------------------------------------------------------------------

\* _parse_metadata_tags decodes every tag string, well formed or not, as
\* the grammar of spec.md 4.4 says: each key with the value after the
\* first '=' of its last segment, values keeping any further '=', and
\* each segment without '=' skipped and logged, never raising.
ParseTagsMatchesGrammar ==
    out # None /\ tagsStr # None => out.meta = SpecTags(tagsStr)

\* get_nvt_tag decodes a tag field exactly as _parse_metadata_tags does:
\* spec.md 4.4 gives the VT tag field one grammar, which never fails and
\* at worst returns an empty map.  For a VT that is no longer in the store
\* it returns None: spec.md 7 makes an OID without a record an absent
\* result, never an error.
TagDecodersAgree ==
    out # None => out.tag = IF tagsStr = None THEN None ELSE out.meta.tags

================================================================================
