------------------------------- MODULE NvtiTags -------------------------------
(***************************************************************************)
(* The two decoders of a VT's tag field, `key=value` segments joined by   *)
(* `|` (src/ospd_openvas/nvticache.py): NVTICache._parse_metadata_tags,  *)
(* used by get_nvt_metadata, and NVTICache.get_nvt_tag.  A Python dict is *)
(* a function from keys to values; an exception is a record [exc].        *)
(***************************************************************************)
EXTENDS PyStrings

Bar == <<"|">>
Eq  == <<"=">>

\* Mutant: tag.rsplit('=', 1), cutting at the last '=' instead of the first.
SplitTagLast(tag) ==
    LET r == Reverse(tag)
        p == SplitOnce(r, Eq)
    IN  IF Len(p) = 1 THEN <<tag>> ELSE <<Reverse(p[2]), Reverse(p[1])>>
\* _tag, _value = tag.split('=', 1)
SplitTag(tag) == SplitOnce(tag, Eq)

\* _parse_metadata_tags(tags_str, oid): the dict of the segments that
\* unpack into a key and a value, later segments overwriting earlier ones,
\* and the segments logged as "has no value" (the ValueError branch) in
\* the order they were logged.
ParseMetadataTags(tagsStr) ==
    LET step(acc, tag) ==
            LET p == SplitTag(tag)
            IN  IF Len(p) = 2
                THEN [acc EXCEPT !.tags = DictSet(@, p[1], p[2])]
                ELSE [acc EXCEPT !.logged = Append(@, tag)]
    IN  FoldLeft(step, [tags |-> <<>>, logged |-> <<>>], Split(tagsStr, Bar))

\* get_nvt_tag's decoding of the tag it read: tag.split('|'), each item
\* split('=', 1), and dict() of the pieces, which raises ValueError as
\* soon as one item is not a pair.  A missing VT reads as None, on which
\* .split raises AttributeError.
GetNvtTagDecode(tag) ==
    IF tag = None THEN Exc("AttributeError")
    ELSE LET items == [i \in 1..Len(Split(tag, Bar)) |-> SplitOnce(Split(tag, Bar)[i], Eq)]
         IN  IF \E i \in DOMAIN items : Len(items[i]) # 2
             THEN Exc("ValueError")
             ELSE FoldLeft(LAMBDA d, kv : DictSet(d, kv[1], kv[2]), <<>>, items)

================================================================================
