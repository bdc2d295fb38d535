------------------------------ MODULE NvtiCache ------------------------------
(***************************************************************************)
(* An NVTICache client (src/ospd_openvas/nvticache.py) reading VT data    *)
(* from the shared key-value store while the scanner (re)populates it.    *)
(*                                                                         *)
(* The store, for each OID: the record list nvt:<oid> (15 fields, written *)
(* by the scanner in one list push) and the preference list               *)
(* oid:<oid>:prefs (one push per entry, after the record).  A reload of   *)
(* the feed flushes the store and populates it again, possibly from a     *)
(* newer feed.  The client is one thread; get_nvt_params issues two reads *)
(* and the scanner may write between them.                                *)
(***************************************************************************)
EXTENDS NvtiParams, NvtiRecord

CONSTANTS
    Oids,          \* VT identifiers
    Feeds,         \* VT record versions the scanner may write
    RecordOf(_),   \* the 15 field texts of a record version
    PrefsOf(_),    \* preference entry texts of a record version
    MaxReloads,    \* bound on feed reloads
    NoCall         \* out before any call has finished

ASSUME MaxReloads \in Nat

VARIABLES
    nvt,        \* nvt:<oid>: the record version stored, or None
    prefs,      \* oid:<oid>:prefs: the entries pushed so far
    reloads,    \* feed reloads so far
    pc,         \* "idle", or "params" between the two reads
    call,       \* the client operation in progress or last finished
    oid,        \* argument of the call in progress
    prefsRead,  \* get_nvt_params' local prefs
    out,        \* result of the last finished call
    seen        \* ghost: store snapshots of oid during the call

vars == <<nvt, prefs, reloads, pc, call, oid, prefsRead, out, seen>>

TimeoutOf(v) == RecordOf(v)[NVT_TIMEOUT_POS]

\* What the client reading nvt:<o> and oid:<o>:prefs would see in a state.
Snap(n, p, o) == <<IF n[o] = None THEN None ELSE TimeoutOf(n[o]), p[o]>>

\* The ghost history: while a get_nvt_params call is in progress every
\* state of the store it could observe is recorded.
Observe ==
    seen' = IF pc' = "params" THEN seen \cup {Snap(nvt', prefs', oid')} ELSE seen

Init ==
    /\ nvt = [o \in Oids |-> None]
    /\ prefs = [o \in Oids |-> <<>>]
    /\ reloads = 0
    /\ pc = "idle"
    /\ call = "none"
    /\ oid \in Oids
    /\ prefsRead = <<>>
    /\ out = NoCall
    /\ seen = {}

-----------------------------------------------------------------------------
(* The scanner, the store's other writer.                                  *)

\* RPUSH nvt:<o> with every field of record version v.
AddVt(o, v) ==
    /\ nvt[o] = None
    /\ nvt' = [nvt EXCEPT ![o] = v]
    /\ UNCHANGED <<prefs, reloads, pc, call, oid, prefsRead, out>>
    /\ Observe

\* RPUSH oid:<o>:prefs with the next entry of the stored record.
AddPref(o) ==
    /\ nvt[o] # None
    /\ Len(prefs[o]) < Len(PrefsOf(nvt[o]))
    /\ prefs' = [prefs EXCEPT ![o] = Append(@, PrefsOf(nvt[o])[Len(@) + 1])]
    /\ UNCHANGED <<nvt, reloads, pc, call, oid, prefsRead, out>>
    /\ Observe

\* A feed reload starts by flushing the cache database.
Flush ==
    /\ reloads < MaxReloads
    /\ nvt' = [o \in Oids |-> None]
    /\ prefs' = [o \in Oids |-> <<>>]
    /\ reloads' = reloads + 1
    /\ UNCHANGED <<pc, call, oid, prefsRead, out>>
    /\ Observe

-----------------------------------------------------------------------------
(* The client.                                                             *)

\* Mutant: a read of the list that stops one entry short (end=-2).
GetNvtPrefsShort(p, o) == SubSeq(p[o], 1, Len(p[o]) - 1)
\* get_nvt_prefs: get_list_item of the whole oid:<o>:prefs list.
GetNvtPrefs(p, o) == p[o]

\* get_nvt_timeout: the timeout element of nvt:<o>, None when absent.
GetNvtTimeout(n, o) == IF n[o] = None THEN None ELSE TimeoutOf(n[o])

\* get_nvt_params, first read: prefs = self.get_nvt_prefs(ctx, oid).
GetNvtParamsPrefs(o) ==
    /\ pc = "idle"
    /\ pc' = "params"
    /\ call' = "get_nvt_params"
    /\ oid' = o
    /\ prefsRead' = GetNvtPrefs(prefs, o)
    /\ seen' = {Snap(nvt, prefs, o)}
    /\ UNCHANGED <<nvt, prefs, reloads, out>>

\* get_nvt_params, second read and the rest of the body:
\* timeout = self.get_nvt_timeout(ctx, oid), then the decoding.
GetNvtParamsTimeout ==
    /\ pc = "params"
    /\ pc' = "idle"
    /\ out' = NvtParams(GetNvtTimeout(nvt, oid), prefsRead)
    /\ UNCHANGED <<nvt, prefs, reloads, call, oid, prefsRead, seen>>

\* get_list_item of nvt:<o> from position first to last, both included;
\* a missing key reads as the empty list.
ReadRange(n, o, first, last) ==
    IF n[o] = None THEN <<>> ELSE SubSeq(RecordOf(n[o]), first, last)

\* A one-read call: its result computed from the store as it stands.
OneRead(name, o, result) ==
    /\ pc = "idle"
    /\ call' = name
    /\ oid' = o
    /\ out' = result
    /\ UNCHANGED <<nvt, prefs, reloads, pc, prefsRead, seen>>

\* get_nvt_metadata: positions NVT_FILENAME_POS .. NVT_NAME_POS.
GetNvtMetadata(o) ==
    OneRead("get_nvt_metadata", o,
            GetNvtMetadataDecode(ReadRange(nvt, o, 1, 15)))

\* get_nvt_refs: positions NVT_CVES_POS .. NVT_XREFS_POS.
GetNvtRefs(o) ==
    OneRead("get_nvt_refs", o,
            GetNvtRefsDecode(ReadRange(nvt, o, NVT_CVES_POS, NVT_XREFS_POS)))

\* get_nvt_tag: get_single_item at NVT_TAGS_POS, None when missing.
GetNvtTag(o) ==
    OneRead("get_nvt_tag", o,
            GetNvtTagDecode(IF nvt[o] = None THEN None
                            ELSE RecordOf(nvt[o])[NVT_TAGS_POS]))

Next ==
    \/ \E o \in Oids, v \in Feeds : AddVt(o, v)
    \/ \E o \in Oids : AddPref(o)
    \/ Flush
    \/ \E o \in Oids : GetNvtParamsPrefs(o)
    \/ GetNvtParamsTimeout
    \/ \E o \in Oids : GetNvtMetadata(o) \/ GetNvtRefs(o) \/ GetNvtTag(o)

Spec == Init /\ [][Next]_vars

================================================================================
