----------------------------- MODULE NvtiCacheDb -----------------------------
(***************************************************************************)
(* The NVTICache calls that reach the store's databases                   *)
(* (src/ospd_openvas/nvticache.py): get_redis_context, get_feed_version,  *)
(* get_oids, and the context the record readers take, composed with the   *)
(* lazy name resolution of NvtiCacheName.                                 *)
(*                                                                         *)
(* The store has databases Dbs, searched in index order.  The scanner     *)
(* loads its NVT cache into a free database, under the name               *)
(* "nvticache" + the version of its gvm-libs, the name key holding the    *)
(* feed version.  It drops the cache again at a feed reload.  The         *)
(* OpenvasDB object the client shares with the rest of ospd-openvas has a *)
(* current "KB context", one database, which other code selects.  db_find,*)
(* get_single_item and get_kb_context belong to ospd_openvas.db, which is *)
(* not in the repository; they follow spec.md 6.                          *)
(***************************************************************************)
EXTENDS NvtiCacheName, FiniteSets

CONSTANTS
    Dbs,          \* database indexes 0 .. max_dbindex - 1
    Feeds,        \* feed versions the scanner may load
    OidsOf(_),    \* the OIDs (filename:* keys) of a feed
    MaxLoads      \* bound on cache loads by the scanner

ASSUME MaxLoads \in Nat

VARIABLES
    db,        \* db[i]: the cache database i holds, [name, feed], or None
    kbCtx,     \* the database OpenvasDB.get_kb_context() returns
    loads,     \* cache loads so far
    pc,        \* "idle", or "feed" between get_feed_version's two accesses
    call,      \* the public call in progress or last finished
    ctx,       \* get_feed_version's local ctx
    seen,      \* ghost: the feed under the client's name during the call
    handles    \* ghost: the contexts get_redis_context has returned

nameVars == <<installed, parserBuild, nvtiCacheName, probes>>
dbVars   == <<db, kbCtx, loads>>
allVars  == <<nameVars, ret, dbVars, pc, call, ctx, seen, handles>>

-----------------------------------------------------------------------------
(* The store (ospd_openvas.db).                                            *)

\* db_find(name): the first database, in index order, holding the key name.
\* It only searches: the KB context stays the database it was (assumed;
\* ospd_openvas.db is not in the repository).
DbFind(d, name) ==
    LET hits == {i \in Dbs : d[i] # None /\ d[i].name = name}
    IN  IF hits = {} THEN None ELSE Min(hits)

\* Mutant: every read goes to the KB context, the ctx argument ignored.
CtxDbKb(c) == kbCtx
\* The database a read with ctx=c goes to: the KB context when c is None.
CtxDb(c) == IF c = None THEN kbCtx ELSE c

\* get_single_item(name, ctx): the value of key name in a database.
KeyValue(d, i, name) == IF d[i] # None /\ d[i].name = name THEN d[i].feed ELSE None

\* The filename:* keys of a database: the OIDs of the feed it holds.
FileOids(d, i) == IF d[i] = None THEN {} ELSE OidsOf(d[i].feed)

\* Ghost: the feed version stored under name, wherever it is.
CacheFeed(d, name) == IF DbFind(d, name) = None THEN None ELSE KeyValue(d, DbFind(d, name), name)

Observe == seen' = IF pc' = "feed" THEN seen \cup {CacheFeed(db', nvtiCacheName')} ELSE seen

InitDb ==
    /\ installed \in InstallStates
    /\ parserBuild \in ParserBuilds
    /\ nvtiCacheName = None
    /\ probes = 0
    /\ ret = None
    /\ db = [i \in Dbs |-> None]
    /\ kbCtx \in Dbs
    /\ loads = 0
    /\ pc = "idle"
    /\ call = "none"
    /\ ctx = None
    /\ seen = {}
    /\ handles = {}

-----------------------------------------------------------------------------
(* The client.                                                             *)

\* One call of _get_nvti_cache_name: the stored name, or the outcome of
\* _set_nvti_cache_name.
NameCall ==
    IF nvtiCacheName # None THEN [name |-> nvtiCacheName, ret |-> nvtiCacheName]
    ELSE SetNvtiCacheName(installed, parserBuild)

\* Its effect on the client: a probe when no name is stored yet.
Resolve ==
    /\ nvtiCacheName = None => probes < MaxProbes
    /\ nvtiCacheName' = NameCall.name
    /\ probes' = IF nvtiCacheName = None THEN probes + 1 ELSE probes
    /\ UNCHANGED <<installed, parserBuild>>

\* get_redis_context: db_find of the resolved name, or the exception of
\* the resolution.
GetRedisContext ==
    /\ pc = "idle"
    /\ Resolve
    /\ call' = "get_redis_context"
    /\ IF NameCall.name = None
       THEN ret' = NameCall.ret /\ UNCHANGED handles
       ELSE LET c == DbFind(db, NameCall.name)
            IN  /\ ret' = [ctx |-> c]
                /\ handles' = handles \cup ({c} \ {None})
    /\ UNCHANGED <<dbVars, pc, ctx, seen>>

\* get_feed_version, first access: ctx = self.get_redis_context().
GetFeedVersionCtx ==
    /\ pc = "idle"
    /\ Resolve
    /\ call' = "get_feed_version"
    /\ IF NameCall.name = None
       THEN /\ ret' = NameCall.ret
            /\ UNCHANGED <<pc, ctx, seen, handles>>
       ELSE LET c == DbFind(db, NameCall.name)
            IN  /\ pc' = "feed"
                /\ ctx' = c
                /\ handles' = handles \cup ({c} \ {None})
                /\ seen' = {CacheFeed(db, NameCall.name)}
                /\ UNCHANGED ret
    /\ UNCHANGED dbVars

\* get_feed_version, second access: get_single_item of the (now stored)
\* name in ctx.
GetFeedVersionRead ==
    /\ pc = "feed"
    /\ pc' = "idle"
    /\ ret' = [feed |-> KeyValue(db, CtxDb(ctx), nvtiCacheName)]
    /\ UNCHANGED <<nameVars, dbVars, call, ctx, seen, handles>>

\* get_oids: get_elem_pattern_by_index('filename:*') in the KB context.
GetOids ==
    /\ pc = "idle"
    /\ call' = "get_oids"
    /\ ret' = [oids |-> FileOids(db, kbCtx)]
    /\ UNCHANGED <<nameVars, dbVars, pc, ctx, seen, handles>>

\* get_nvt_metadata (and the other record readers): the record nvt:<o>
\* read from ctx = self._openvas_db.get_kb_context(); only whether it is
\* found is kept here, the decoding is NvtiCache's.
GetNvtMetadataCtx(o) ==
    /\ pc = "idle"
    /\ call' = "get_nvt_metadata"
    /\ ret' = [vt |-> o, found |-> o \in FileOids(db, kbCtx)]
    /\ UNCHANGED <<nameVars, dbVars, pc, ctx, seen, handles>>

-----------------------------------------------------------------------------
(* The environment: the scanner, the rest of ospd-openvas, the admin.      *)

\* The scanner loads a feed into a free database under the name of its
\* gvm-libs, the installed one when pkg-config reports a version; it
\* reuses no name another database already holds.
LoadCache(i, f, v) ==
    /\ loads < MaxLoads
    /\ db[i] = None
    /\ installed \in Versions => v = installed
    /\ DbFind(db, CacheName(v)) = None
    /\ db' = [db EXCEPT ![i] = [name |-> CacheName(v), feed |-> f]]
    /\ loads' = loads + 1
    /\ UNCHANGED <<nameVars, ret, kbCtx, pc, call, ctx, handles>>
    /\ Observe

\* The scanner flushes the cache database at a feed reload.
DropCache(i) ==
    /\ db[i] # None
    /\ db' = [db EXCEPT ![i] = None]
    /\ UNCHANGED <<nameVars, ret, kbCtx, loads, pc, call, ctx, handles>>
    /\ Observe

\* Other code of ospd-openvas selects another database as KB context.
SelectKb(i) ==
    /\ i # kbCtx
    /\ kbCtx' = i
    /\ UNCHANGED <<nameVars, ret, db, loads, pc, call, ctx, seen, handles>>

ReinstallLibs ==
    /\ Reinstall
    /\ UNCHANGED <<dbVars, pc, call, ctx, seen, handles>>

NextDb ==
    \/ GetRedisContext
    \/ GetFeedVersionCtx
    \/ GetFeedVersionRead
    \/ GetOids
    \/ \E o \in UNION {OidsOf(f) : f \in Feeds} : GetNvtMetadataCtx(o)
    \/ \E i \in Dbs, f \in Feeds, v \in Versions : LoadCache(i, f, v)
    \/ \E i \in Dbs : DropCache(i) \/ SelectKb(i)
    \/ ReinstallLibs

SpecDb == InitDb /\ [][NextDb]_allVars

================================================================================
