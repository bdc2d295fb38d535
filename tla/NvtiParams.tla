------------------------------ MODULE NvtiParams ------------------------------
(***************************************************************************)
(* NVTICache.get_nvt_params (src/ospd_openvas/nvticache.py): the VT       *)
(* parameter set built from the script timeout and the preference list    *)
(* of a VT.  This module is the decoding that follows the two reads; the  *)
(* reads themselves are actions of NvtiCache.  A preference entry is the  *)
(* text `id|||name|||type|||default` and is cut with a real split.        *)
(***************************************************************************)
EXTENDS PyStrings, Integers

\* An exception, as opposed to a dict or a parameter record.
IsExc(x) == DOMAIN x = {"exc"}

PrefSep == <<"|", "|", "|">>

Digits == {"0", "1", "2", "3", "4", "5", "6", "7", "8", "9"}
DigitValue(c) == CHOOSE n \in 0..9 : <<"0","1","2","3","4","5","6","7","8","9">>[n + 1] = c

\* int(s) for s without surrounding blanks: an optional sign and at least
\* one digit, otherwise ValueError.  The integer is returned as [val].
PyInt(s) ==
    LET signed == s # <<>> /\ s[1] \in {"-", "+"}
        ds == IF signed THEN Tail(s) ELSE s
        mag == FoldLeft(LAMBDA acc, c : 10 * acc + DigitValue(c), 0, ds)
    IN  IF ds = <<>> \/ \E i \in DOMAIN ds : ds[i] \notin Digits
        THEN Exc("ValueError")
        ELSE [val |-> IF signed /\ s[1] = "-" THEN -mag ELSE mag]

\* The synthesized timeout parameter, its default the timeout text.
TimeoutParam(timeout) ==
    [id |-> <<"0">>, type |-> <<"e","n","t","r","y">>,
     name |-> <<"t","i","m","e","o","u","t">>,
     description |-> "Script Timeout", default |-> timeout]

\* One preference entry split on '|||'; indexing past the end of elem
\* raises IndexError.
PrefParam(elem) ==
    CASE Len(elem) < 3 -> Exc("IndexError")
      [] elem[3] # <<>> /\ Len(elem) < 4 -> Exc("IndexError")
      [] OTHER ->
           [id |-> elem[1], type |-> elem[3], name |-> Strip(elem[2]),
            description |-> "Description",
            default |-> IF elem[3] # <<>> THEN elem[4] ELSE <<>>]

\* Mutant: a zero timeout also gets a timeout parameter (>= for >).
SynthesizedZero(t, timeout) ==
    IF t >= 0 THEN <<"0">> :> TimeoutParam(timeout) ELSE <<>>
\* if int(timeout) > 0: vt_params['0'] = {...}
Synthesized(t, timeout) ==
    IF t > 0 THEN <<"0">> :> TimeoutParam(timeout) ELSE <<>>

\* The body of get_nvt_params after its two reads: None for a missing
\* timeout, the exception int() or an index raises, or the dict keyed by
\* parameter id in which later entries overwrite earlier ones.
NvtParams(timeout, prefs) ==
    IF timeout = None THEN None
    ELSE LET t == PyInt(timeout)
             add(acc, pref) ==
                 LET p == PrefParam(Split(pref, PrefSep))
                 IN  IF IsExc(acc) THEN acc
                     ELSE IF IsExc(p) THEN p
                     ELSE DictSet(acc, p.id, p)
         IN  CASE IsExc(t) -> t
               [] prefs = None -> Synthesized(t.val, timeout)
               [] OTHER -> FoldLeft(add, Synthesized(t.val, timeout), prefs)

================================================================================
