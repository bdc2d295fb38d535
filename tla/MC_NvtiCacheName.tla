--------------------------- MODULE MC_NvtiCacheName ---------------------------
(***************************************************************************)
(* Model-checking instance of NvtiCacheName: SUPPORTED_NVTICACHE_VERSIONS *)
(* = ('20.4',) as in the source, against installed versions chosen to hit *)
(* each edge of the comparison: equal with and without a trailing zero    *)
(* or a leading zero, a two-digit minor that text order would put below   *)
(* 4, a pre-release of the supported version, a lower minor, another      *)
(* major, and a version string PEP 440 cannot parse.                      *)
(***************************************************************************)
EXTENDS NvtiCacheName

Ver(parts, pre, junk) == [parts |-> parts, pre |-> pre, junk |-> junk]

V20_4      == Ver(<<<<2, 0>>, <<4>>>>, FALSE, FALSE)
V20_4_0    == Ver(<<<<2, 0>>, <<4>>, <<0>>>>, FALSE, FALSE)
V20_04     == Ver(<<<<2, 0>>, <<0, 4>>>>, FALSE, FALSE)
V20_4_1    == Ver(<<<<2, 0>>, <<4>>, <<1>>>>, FALSE, FALSE)
V20_10     == Ver(<<<<2, 0>>, <<1, 0>>>>, FALSE, FALSE)
V20_3_9    == Ver(<<<<2, 0>>, <<3>>, <<9>>>>, FALSE, FALSE)
V20_4rc1   == Ver(<<<<2, 0>>, <<4>>>>, TRUE, FALSE)
V21_0      == Ver(<<<<2, 1>>, <<0>>>>, FALSE, FALSE)
V20_8_1git == Ver(<<<<2, 0>>, <<8>>, <<1>>>>, FALSE, TRUE)

MCSupported == {V20_4}
MCVersions  == {V20_4, V20_4_0, V20_04, V20_4_1, V20_10, V20_3_9,
                V20_4rc1, V21_0, V20_8_1git}

-----------------------------------------------------------------------------
(* The spec's rule (spec.md 4.1): the major components are equal and the   *)
(* installed version is greater than or equal to the supported one by a    *)
(* numeric comparison of release components, missing ones read as zero,    *)
(* a pre-release below its final release.  Written independently of        *)
(* packaging's trailing-zero stripping.                                    *)

PadTo(r, n) == [i \in 1..n |-> IF i <= Len(r) THEN r[i] ELSE 0]

SemverGeq(a, b) ==
    LET n == IF Len(a.parts) >= Len(b.parts) THEN Len(a.parts) ELSE Len(b.parts)
        x == PadTo(Release(a), n)
        y == PadTo(Release(b), n)
    IN  \/ \E k \in 1..n : (\A j \in 1..(k - 1) : x[j] = y[j]) /\ x[k] > y[k]
        \/ x = y /\ (a.pre => b.pre)

SpecCompatible(inst) ==
    /\ inst \in Versions
    /\ ~inst.junk
    /\ \E sup \in SUPPORTED_NVTICACHE_VERSIONS :
          /\ Release(inst)[1] = Release(sup)[1]
          /\ SemverGeq(inst, sup)

Locator == INSTANCE NvtiCacheLocator
              WITH handle <- nvtiCacheName,
                   Compatible <- SpecCompatible,
                   NameOf <- CacheName

-----------------------------------------------------------------------------

\* _get_nvti_cache_name implements the Cache Locator of spec.md 4.1: the
\* stored name only ever goes from None to "nvticache" + a version that was
\* installed and compatible when it was probed, and never changes after,
\* however the library is reinstalled between calls.
LocatorRefinement == Locator!Spec

\* A call that probes while a compatible version is installed stores the
\* name of that version: no compatible version (a trailing zero, "20.04",
\* "20.10") is turned away by the comparison in _set_nvti_cache_name.
ResolvedWhenCompatible ==
    [][ (nvtiCacheName = None /\ probes' = probes + 1
         /\ SpecCompatible(installed))
        => nvtiCacheName' = CacheName(installed) ]_vars

\* Every failure of _set_nvti_cache_name reaches the caller as
\* OspdOpenvasError, the configuration error of spec.md 4.1 and 7, never
\* as another exception the caller does not expect.
ProbeFailureIsConfigError ==
    ret \in Errors => ret = Exc("OspdOpenvasError")

================================================================================
