---------------------------- MODULE NvtiCacheName ----------------------------
(***************************************************************************)
(* NVTICache._get_nvti_cache_name / _set_nvti_cache_name                  *)
(* (src/ospd_openvas/nvticache.py): the lazily resolved name of the NVT   *)
(* info cache, "nvticache" followed by the installed gvm-libs version     *)
(* reported by `pkg-config --modversion libgvm_util`, accepted only when  *)
(* pkg_resources.parse_version says it is at least a supported version    *)
(* with the same major number.                                            *)
(*                                                                         *)
(* A version string is a record: parts, the dot-separated release numbers *)
(* each as its sequence of decimal digits (so "20.04" and "20.4" differ   *)
(* as text and agree as versions); pre, a PEP 440 pre-release suffix     *)
(* such as "rc1"; junk, a suffix PEP 440 cannot parse such as "~git".     *)
(* The trailing newline that rstrip() removes is not represented.         *)
(***************************************************************************)
EXTENDS PyStrings

CONSTANTS
    SUPPORTED_NVTICACHE_VERSIONS,  \* set of version records
    Versions,                      \* versions the probe may report
    MaxProbes                      \* bound on pkg-config invocations

ASSUME MaxProbes \in Nat \ {0}

\* Exceptions the probe can raise: a non-zero exit of pkg-config, no
\* permission to run it, no pkg-config binary at all.
ProbeErrors ==
    {Exc("CalledProcessError"), Exc("PermissionError"), Exc("FileNotFoundError")}

\* The two the except clause catches and turns into OspdOpenvasError.
CaughtProbeErrors == {Exc("CalledProcessError"), Exc("PermissionError")}

InstallStates == Versions \cup ProbeErrors

\* How parse_version treats a string PEP 440 rejects depends on the
\* setuptools in use: old ones return a LegacyVersion that sorts below
\* every Version, newer ones raise InvalidVersion.
ParserBuilds == {"LegacyVersion", "InvalidVersion"}

VARIABLES
    installed,       \* what pkg-config would report now (environment)
    parserBuild,     \* the setuptools flavour of this process
    nvtiCacheName,   \* self._nvti_cache_name
    probes,          \* pkg-config invocations so far
    ret              \* outcome of the last call: a name, an exception, None

vars == <<installed, parserBuild, nvtiCacheName, probes, ret>>

-----------------------------------------------------------------------------
(* parse_version and packaging's ordering of Version objects.              *)

\* int() of one release segment.
DigitsValue(ds) == FoldLeft(LAMBDA acc, d : 10 * acc + d, 0, ds)

Release(v) == [i \in 1..Len(v.parts) |-> DigitsValue(v.parts[i])]

\* packaging's _cmpkey drops trailing zeros of the release tuple.
RECURSIVE StripZeros(_)
StripZeros(r) ==
    IF r # <<>> /\ Last(r) = 0 THEN StripZeros(Front(r)) ELSE r

\* Python's < on tuples of ints.
RECURSIVE TupleLess(_, _)
TupleLess(a, b) ==
    IF a = <<>> THEN b # <<>>
    ELSE IF b = <<>> THEN FALSE
    ELSE \/ Head(a) < Head(b)
         \/ Head(a) = Head(b) /\ TupleLess(Tail(a), Tail(b))

\* Version < Version: release key first, then a pre-release sorts
\* below the final release.
VersionLess(a, b) ==
    LET ka == StripZeros(Release(a))
        kb == StripZeros(Release(b))
    IN  \/ TupleLess(ka, kb)
        \/ ka = kb /\ a.pre /\ ~b.pre

\* installed_lib >= supported_lib; a LegacyVersion is below any Version.
VersionGeq(inst, sup) == ~inst.junk /\ ~VersionLess(inst, sup)

\* base_version.split('.')[0]: the first release number, as text.
BaseMajor(v) == DigitsValue(v.parts[1])

\* The condition of the loop over SUPPORTED_NVTICACHE_VERSIONS, with a
\* mutant that uses > for >=.
SupportedMatchStrict(inst, sup) ==
    /\ ~inst.junk /\ VersionLess(sup, inst)
    /\ BaseMajor(inst) = BaseMajor(sup)
\* Mutant: the major-number comparison dropped.
SupportedMatchNoMajor(inst, sup) == VersionGeq(inst, sup)
SupportedMatch(inst, sup) ==
    /\ VersionGeq(inst, sup)
    /\ BaseMajor(inst) = BaseMajor(sup)

\* Mutant: the "nvticache" prefix lost in the format call.
CacheNameNoPrefix(v) == [prefix |-> "", version |-> v]
\* "nvticache{}".format(version_string)
CacheName(v) == [prefix |-> "nvticache", version |-> v]

\* The whole of _set_nvti_cache_name for one install state: the name it
\* stores (None when it raises) and what the caller gets back.
SetNvtiCacheName(inst, build) ==
    CASE inst \in CaughtProbeErrors ->
            [name |-> None, ret |-> Exc("OspdOpenvasError")]
      [] inst \in ProbeErrors ->
            [name |-> None, ret |-> inst]
      [] inst.junk /\ build = "InvalidVersion" ->
            [name |-> None, ret |-> Exc("InvalidVersion")]
      [] \E sup \in SUPPORTED_NVTICACHE_VERSIONS : SupportedMatch(inst, sup) ->
            [name |-> CacheName(inst), ret |-> CacheName(inst)]
      [] OTHER ->
            [name |-> None, ret |-> Exc("OspdOpenvasError")]

-----------------------------------------------------------------------------

Init ==
    /\ installed \in InstallStates
    /\ parserBuild \in ParserBuilds
    /\ nvtiCacheName = None
    /\ probes = 0
    /\ ret = None

\* _get_nvti_cache_name: return the stored name, or probe and set it.
GetNvtiCacheName ==
    \/ /\ nvtiCacheName # None
       /\ ret' = nvtiCacheName
       /\ UNCHANGED <<installed, parserBuild, nvtiCacheName, probes>>
    \/ /\ nvtiCacheName = None
       /\ probes < MaxProbes
       /\ LET r == SetNvtiCacheName(installed, parserBuild)
          IN  /\ nvtiCacheName' = r.name
              /\ ret' = r.ret
       /\ probes' = probes + 1
       /\ UNCHANGED <<installed, parserBuild>>

\* The administrator installs another gvm-libs, or removes pkg-config.
Reinstall ==
    /\ \E s \in InstallStates \ {installed} : installed' = s
    /\ UNCHANGED <<parserBuild, nvtiCacheName, probes, ret>>

Next == GetNvtiCacheName \/ Reinstall

Spec == Init /\ [][Next]_vars

-----------------------------------------------------------------------------

Errors == {Exc("OspdOpenvasError"), Exc("InvalidVersion")} \cup ProbeErrors

\* The cache names: "nvticache" followed by an installed version string.
Names == [prefix : {"nvticache"}, version : Versions]

TypeOK ==
    /\ installed \in InstallStates
    /\ parserBuild \in ParserBuilds
    /\ nvtiCacheName \in {None} \cup Names
    /\ probes \in 0..MaxProbes
    /\ ret \in {None} \cup Names \cup Errors

================================================================================
