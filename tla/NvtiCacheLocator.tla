--------------------------- MODULE NvtiCacheLocator ---------------------------
(***************************************************************************)
(* Abstract specification of the Cache Locator (spec.md 4.1, 3 "Cache     *)
(* Identity"): the cache identity is unresolved at construction, becomes  *)
(* the name derived from the installed library version the first time it *)
(* is resolved, and only when that version is compatible, and then never  *)
(* changes for the life of the client.  The installed version is the     *)
(* environment: a package upgrade may change it at any time.              *)
(***************************************************************************)
CONSTANTS
    None,           \* the unresolved identity
    InstallStates,  \* what the version probe can find installed
    Compatible(_),  \* the spec's compatibility rule on an install state
    NameOf(_)       \* the cache name derived from a compatible version

VARIABLES installed, handle

Init ==
    /\ installed \in InstallStates
    /\ handle = None

\* First resolution: only from None, only for a compatible version.
Resolve ==
    /\ handle = None
    /\ Compatible(installed)
    /\ handle' = NameOf(installed)
    /\ UNCHANGED installed

\* The environment reinstalls the library; the identity is not touched.
Reinstall ==
    /\ installed' \in InstallStates
    /\ UNCHANGED handle

Spec == Init /\ [][Resolve \/ Reinstall]_<<installed, handle>>

================================================================================
