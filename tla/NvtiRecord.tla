------------------------------ MODULE NvtiRecord ------------------------------
(***************************************************************************)
(* The record decoders of src/ospd_openvas/nvticache.py: get_nvt_metadata *)
(* and get_nvt_refs, after their ranged read of nvt:<oid>.                *)
(*                                                                         *)
(* A field name is a one-token text, <<"filename">>, so that a tag key    *)
(* read from the tag field can be the same text as a field name: a token  *)
(* stands for a run of characters holding no separator.                   *)
(***************************************************************************)
EXTENDS NvtiTags

\* NVT_META_FIELDS positions, 1-based: filename .. name.
FieldNames ==
    << <<"filename">>, <<"required_keys">>, <<"mandatory_keys">>,
       <<"excluded_keys">>, <<"required_udp_ports">>, <<"required_ports">>,
       <<"dependencies">>, <<"tag">>, <<"cve">>, <<"bid">>, <<"xref">>,
       <<"category">>, <<"timeout">>, <<"family">>, <<"name">> >>

NVT_TAGS_POS    == 8
NVT_CVES_POS    == 9
NVT_XREFS_POS   == 11
NVT_TIMEOUT_POS == 13

\* Mutant: xref missing from the list of fields not copied.
NotCopiedKeepXref == {<<"cve">>, <<"bid">>, <<"tag">>}
\* The fields get_nvt_metadata leaves to get_nvt_refs, and the tag field.
NotCopied == {<<"cve">>, <<"bid">>, <<"xref">>, <<"tag">>}

\* Mutant: custom = d, the parsed tags replacing the fields copied so far.
DictReplace(custom, d) == d
\* custom.update(d): the keys of d overwrite those of custom.
DictUpdate(custom, d) ==
    [k \in DOMAIN custom \cup DOMAIN d |-> IF k \in DOMAIN d THEN d[k] ELSE custom[k]]

\* get_nvt_metadata after its read: None for no list or an empty one,
\* else the zip of field names and values, copying the non-empty fields
\* other than references and tag, and merging the parsed tags in place
\* of the tag field, in field order.
GetNvtMetadataDecode(resp) ==
    IF resp = None \/ resp = <<>> THEN None
    ELSE LET step(custom, pair) ==
                 LET child == pair[1]
                     res == pair[2]
                 IN  CASE child \notin NotCopied /\ res # <<>> ->
                             DictSet(custom, child, res)
                       [] child = <<"tag">> ->
                             DictUpdate(custom, ParseMetadataTags(res).tags)
                       [] OTHER -> custom
         IN  FoldLeft(step, <<>>, Zip(FieldNames, resp))

\* Mutant: split on "," alone.
RefSepComma == <<",">>
RefSep == <<",", " ">>

\* get_nvt_refs after its read of the cve, bid and xref fields: None for
\* no list or an empty one, else each field split on ", ".
GetNvtRefsDecode(resp) ==
    IF resp = None \/ resp = <<>> THEN None
    ELSE LET names == <<"cve", "bid", "xref">>
             n == IF Len(resp) < 3 THEN Len(resp) ELSE 3
         IN  [k \in {names[i] : i \in 1..n} |->
                 Split(resp[CHOOSE i \in 1..n : names[i] = k], RefSep)]

================================================================================
