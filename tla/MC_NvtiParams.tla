----------------------------- MODULE MC_NvtiParams -----------------------------
(***************************************************************************)
(* get_nvt_params' decoding run on every timeout text in TimeoutTexts and *)
(* every list of at most MaxPrefs preference entries the cache writer     *)
(* produces from PrefShapes: segment tuples joined with '|||'.  Ids 0 and *)
(* 1 make an entry collide with the synthesized timeout parameter and     *)
(* with another entry; a name with a leading blank exercises strip().     *)
(* PrefNames chooses the names, among them names that hold a '|'.         *)
(***************************************************************************)
EXTENDS NvtiParams

CONSTANTS TimeoutTexts, PrefShapes, MaxPrefs, PrefNames

\* Segment choices of a preference entry.
Ids      == {<<"0">>, <<"1">>}
Types    == {<<>>, <<"e">>}
Defaults == {<<>>, <<"d">>}

\* "full": id|||name|||type|||default as the writer emits it.
\* "notype": id|||name||| with an empty type and no default segment.
\* "nodefault": id|||name|||type with the default segment missing.
SegTuples(shape) ==
    CASE shape = "full" -> {<<i, n, t, d>> : i \in Ids, n \in PrefNames, t \in Types, d \in Defaults}
      [] shape = "notype" -> {<<i, n, <<>>>> : i \in Ids, n \in PrefNames}
      [] shape = "nodefault" -> {<<i, n, <<"e">>>> : i \in Ids, n \in PrefNames}

Entries == UNION {SegTuples(sh) : sh \in PrefShapes}

\* '|||'.join(segments), as the writer stores the entry.
JoinPref(segs) == FoldLeft(LAMBDA acc, x : acc \o PrefSep \o x, segs[1], Tail(segs))

\* Timeouts as the writer stores them: "%d" of the script timeout.
MCTimeouts == {<<"0">>, <<"1", "0">>, <<"-", "1">>}

\* The entries the writer emits; and those plus the shape without a
\* default segment that spec.md 3 and the unit test both admit.
MCWriterShapes == {"full", "notype"}
MCAllShapes == {"full", "notype", "nodefault"}

\* Preference names: plain and with a leading blank; and names holding
\* '|' beside the separator, which NASL preference names may contain.
MCNames     == {<<"n">>, <<" ", "n">>}
MCPipeNames == {<<"n", "|">>, <<"|", "n">>}
MCAllNames  == MCNames \cup MCPipeNames

VARIABLES timeout, prefSegs, out

vars == <<timeout, prefSegs, out>>

Inputs == (TimeoutTexts \cup {None}) \X BoundedSeq(Entries, MaxPrefs)

Init ==
    /\ \E in \in Inputs : timeout = in[1] /\ prefSegs = in[2]
    /\ out = None

Decode ==
    /\ out = None
    /\ out' = [r |-> NvtParams(timeout, [i \in DOMAIN prefSegs |-> JoinPref(prefSegs[i])])]
    /\ UNCHANGED <<timeout, prefSegs>>

\* One decoding of one input: the call returns and the run stops there.
Spec == Init /\ [][Decode]_vars

-----------------------------------------------------------------------------
(* The parameter set of spec.md 3 and 4.5, from the segments themselves:   *)
(* None for a missing timeout; a "0" timeout parameter when the timeout is *)
(* a positive integer; one parameter per id, from the last entry with that *)
(* id, its name trimmed, its default the fourth segment when the type is   *)
(* non-empty and "" otherwise, a missing fourth segment reading as "".    *)

PositiveInt(s) == ~IsExc(PyInt(s)) /\ PyInt(s).val > 0

SpecParam(segs) ==
    [id |-> segs[1], type |-> segs[3], name |-> Strip(segs[2]),
     description |-> "Description",
     default |-> IF segs[3] # <<>> /\ Len(segs) >= 4 THEN segs[4] ELSE <<>>]

SpecParams(t, ps) ==
    IF t = None THEN None
    ELSE LET ids == {ps[i][1] : i \in DOMAIN ps}
             last(k) == CHOOSE i \in DOMAIN ps : ps[i][1] = k
                           /\ \A j \in DOMAIN ps : ps[j][1] = k => j <= i
             keys == ids \cup (IF PositiveInt(t) THEN {<<"0">>} ELSE {})
         IN  [k \in keys |-> IF k \in ids THEN SpecParam(ps[last(k)])
                             ELSE TimeoutParam(t)]

-----------------------------------------------------------------------------

\* get_nvt_params returns the parameter set of spec.md 4.5 for every
\* timeout and preference list the cache writer stores: the timeout
\* parameter only for a positive timeout and overwritten by a preference
\* with id 0, the last entry of an id winning, the default only with a
\* type, and no exception.
ParamsMatchSpec ==
    out # None =>
        IF timeout = None THEN out.r = None
        ELSE ~IsExc(out.r) /\ out.r = SpecParams(timeout, prefSegs)

================================================================================
