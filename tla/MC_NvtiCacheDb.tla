---------------------------- MODULE MC_NvtiCacheDb ----------------------------
(***************************************************************************)
(* Model-checking instance of NvtiCacheDb: two databases, two feeds, a    *)
(* supported, a newer compatible and an incompatible gvm-libs, and the    *)
(* probe failures of NvtiCacheName.  Two cache loads let the scanner      *)
(* load, drop and load again into the other database.                     *)
(***************************************************************************)
EXTENDS NvtiCacheDb, MC_NvtiCacheName

CONSTANTS F1, F2, o1, o2

MCDbVersions == {V20_4, V20_4_1, V21_0}
MCFeeds == {F1, F2}
MCOidsOf(f) == IF f = F1 THEN {o1} ELSE {o1, o2}

-----------------------------------------------------------------------------

\* get_feed_version returns the feed version that was stored under the
\* client's cache name at some moment of the call, although the scanner
\* may drop and reload the cache between its db_find and its read, and
\* the read falls back to the KB context when db_find found nothing.
FeedVersionLinearizable ==
    (call = "get_feed_version" /\ pc = "idle" /\ ret \in [feed : Feeds \cup {None}])
        => ret.feed \in seen

\* spec.md 3 and 8: the cache handle is resolved once and reused, so every
\* get_redis_context that finds the cache returns the same database.
ContextResolvedOnce == Cardinality(handles) <= 1

\* The OIDs the cache stored under the client's resolved name holds.
CacheOids(d, name) == IF DbFind(d, name) = None THEN {} ELSE FileOids(d, DbFind(d, name))

\* spec.md 4.2: once the cache name is resolved, get_oids and the record
\* readers read the resolved cache: they list exactly its OIDs, and find
\* a VT exactly when the cache holds it.
ReadsUseCacheDb ==
    /\ [][GetOids /\ nvtiCacheName # None
          => ret'.oids = CacheOids(db, nvtiCacheName)]_allVars
    /\ [][\A o \in {o1, o2} :
            GetNvtMetadataCtx(o) /\ nvtiCacheName # None
              => ret'.found = (o \in CacheOids(db, nvtiCacheName))]_allVars

================================================================================
