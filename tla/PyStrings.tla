------------------------------ MODULE PyStrings ------------------------------
(***************************************************************************)
(* The Python string operations the NVT cache decoders apply to the text  *)
(* read from the store.  A string is a sequence of one-character strings, *)
(* so that splitting really looks at separators inside the text.          *)
(***************************************************************************)
EXTENDS Naturals, Sequences, SequencesExt

CONSTANT None   \* Python None: a missing key or list element reads as None

\* A raised exception, by class name.
Exc(name) == [exc |-> name]

\* The first position at which sep occurs in s, 0 when it does not.
FindSep(s, sep) ==
    LET IsAt(i) == SubSeq(s, i, i + Len(sep) - 1) = sep
        starts == 1..(Len(s) - Len(sep) + 1)
    IN  IF \E i \in starts : IsAt(i)
        THEN CHOOSE i \in starts : IsAt(i) /\ \A j \in 1..(i - 1) : ~IsAt(j)
        ELSE 0

\* s.split(sep): the pieces between non-overlapping occurrences of sep,
\* scanning from the left; s itself when sep does not occur.
RECURSIVE Split(_, _)
Split(s, sep) ==
    LET i == FindSep(s, sep)
    IN  IF i = 0 THEN <<s>>
        ELSE <<SubSeq(s, 1, i - 1)>> \o Split(SubSeq(s, i + Len(sep), Len(s)), sep)

\* s.split(sep, 1): at most two pieces, cut at the first sep.
SplitOnce(s, sep) ==
    LET i == FindSep(s, sep)
    IN  IF i = 0 THEN <<s>>
        ELSE <<SubSeq(s, 1, i - 1), SubSeq(s, i + Len(sep), Len(s))>>

\* s.strip(): leading and trailing blanks removed.
Strip(s) ==
    LET kept == {i \in DOMAIN s : s[i] # " "}
    IN  IF kept = {} THEN <<>>
        ELSE SubSeq(s, CHOOSE i \in kept : \A j \in kept : i <= j,
                       CHOOSE i \in kept : \A j \in kept : i >= j)

\* dict[key] = value on a dict modelled as a function.
DictSet(d, key, value) == (key :> value) @@ d

\* All strings over alphabet of length at most n: the bounded inputs.
StringsUpTo(alphabet, n) == UNION {[1..k -> alphabet] : k \in 0..n}

================================================================================
