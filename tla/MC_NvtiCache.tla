------------------------------ MODULE MC_NvtiCache ------------------------------
(***************************************************************************)
(* One VT and two feed versions of it.  F1 has a 10 s timeout and two     *)
(* preferences; F2, a later feed, has no timeout and one preference with  *)
(* another default.  One reload lets a call straddle a flush and the      *)
(* repopulation that follows it.                                          *)
(***************************************************************************)
EXTENDS NvtiCache

CONSTANTS F1, F2

Txt(c) == <<c>>
Entry(segs) == FoldLeft(LAMBDA acc, x : acc \o PrefSep \o x, segs[1], Tail(segs))

\* F1: timeout 10, one tag; F2: timeout 0, a tag segment without '='.
MCRecordOf(v) ==
    [i \in 1..15 |->
        CASE i = NVT_TIMEOUT_POS -> IF v = F1 THEN <<"1", "0">> ELSE <<"0">>
          [] i = NVT_TAGS_POS -> IF v = F1 THEN <<"a", "=", "b">> ELSE <<"a">>
          [] i = NVT_CVES_POS -> IF v = F1 THEN <<"c">> ELSE <<>>
          [] OTHER -> <<"v">>]

MCPrefsOf(v) ==
    IF v = F1
    THEN << Entry(<<Txt("1"), Txt("n"), Txt("e"), Txt("d")>>),
            Entry(<<Txt("2"), Txt("m"), <<>>, <<>>>>) >>
    ELSE << Entry(<<Txt("1"), Txt("n"), Txt("e"), Txt("x")>>) >>

-----------------------------------------------------------------------------

\* get_nvt_params returns what one snapshot of the store would give: its
\* result equals the decoding of the timeout and the preference list as
\* they stood together at one instant of the call, so a caller never gets
\* a parameter set that no state of the cache held.  It rests on the
\* order of the two reads (preferences, then timeout) against the
\* scanner's order of writes (record, then preferences).
ParamsLinearizable ==
    (call = "get_nvt_params" /\ pc = "idle") =>
        \E s \in seen : out = NvtParams(s[1], s[2])

================================================================================
