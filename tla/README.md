# TLA+ models of the NVT cache reader (`src/ospd_openvas/nvticache.py`)

This directory holds TLA+ models of `NVTICache`, the reader that locates the
NVT cache in the scanner's key-value store and decodes the VT records the
scanner writes there. It also holds the TLC configurations that check the
models. `PROJECT.json` maps every definition to the source lines it
translates and lists the runs, mutants, findings and hazards.

## The system

`nvticache.py` (302 lines) is one class plus constants:

| Part (spec.md name) | Code | State | Operations |
|---|---|---|---|
| Field schema | `NVT_META_FIELDS`, `SUPPORTED_NVTICACHE_VERSIONS` (l. 24-57) | constants | none |
| Cache Locator | `_get_nvti_cache_name`, `_set_nvti_cache_name` (l. 64-103) | `_nvti_cache_name`, which starts as None and is set once | lazy resolution via `pkg-config` and `parse_version` |
| Context / feed | `get_redis_context`, `get_feed_version`, `get_oids` (l. 105-124) | none of its own | reads through `OpenvasDB` |
| Preference/Parameter builder | `get_nvt_params`, `get_nvt_prefs`, `get_nvt_timeout` (l. 126-164, 260-286) | none | two store reads, then a merge |
| Tag grammar | `_parse_metadata_tags`, `get_nvt_tag` (l. 166-187, 288-301) | none | pure decoding |
| Record decoder | `get_nvt_metadata`, `get_nvt_refs` (l. 189-258) | none | one ranged read, then decoding |

The class keeps one piece of state of its own: the cached cache name. All
other state is the external store, `nvt:<oid>` (a 15-field list) and
`oid:<oid>:prefs` (a list of `id|||name|||type|||default` entries). The
scanner fills the store, and it flushes and refills it on a feed reload.
Neither `ospd_openvas.db` nor the scanner is in the repository, so they are
modelled from spec.md §6 (marked `spec_modelled` in the map). The client runs
in one thread, but the scanner is a separate process writing the same store,
so every multi-read operation can interleave with writes.

## Modules

| Module | Models | State / actions |
|---|---|---|
| `PyStrings` | `str.split`, `split(sep,1)`, `strip`, `dict[k]=v` on character sequences | operators only |
| `NvtiCacheLocator` | abstract Cache Locator (spec.md §4.1): a handle set once, only for a compatible installation | `installed`, `handle`; `Resolve`, `Reinstall` |
| `NvtiCacheName` | `_get_nvti_cache_name` / `_set_nvti_cache_name` | `installed`, `parserBuild` (old or new setuptools), `nvtiCacheName`, `probes`, `ret`; `GetNvtiCacheName` (cached and probing disjuncts), `Reinstall` |
| `NvtiTags` | `_parse_metadata_tags`, the decoding in `get_nvt_tag` | operators |
| `NvtiParams` | the body of `get_nvt_params` after its reads: `int()`, the synthesized timeout entry, `'|||'` split, `IndexError` paths | operators |
| `NvtiRecord` | the decoding in `get_nvt_metadata` and `get_nvt_refs` | operators |
| `NvtiCacheDb` | `get_redis_context`, `get_feed_version`, `get_oids`, and the context the record readers read, composed with `NvtiCacheName` over a store of several databases | adds `db` (the cache each database holds: name and feed), `kbCtx` (OpenvasDB's current KB context), `loads`, `pc`, `call`, `ctx`, ghosts `seen` and `handles`. Client actions: `GetRedisContext`, `GetFeedVersionCtx` and `GetFeedVersionRead` (the `db_find` at l. 113 and the read at l. 114-116 as two steps), `GetOids`, `GetNvtMetadataCtx`. Environment actions: `LoadCache`, `DropCache` (the scanner), `SelectKb` (other ospd-openvas code), `ReinstallLibs` |
| `NvtiCache` | client plus store plus scanner | `nvt`, `prefs`, `reloads`, `pc`, `call`, `oid`, `prefsRead`, `out`, ghost `seen`; scanner actions `AddVt`, `AddPref`, `Flush`; client actions `GetNvtParamsPrefs`, `GetNvtParamsTimeout` (the two reads of `get_nvt_params` at l. 134 and 135), `GetNvtMetadata`, `GetNvtRefs`, `GetNvtTag` |

Strings are sequences of one-character strings, so splits really look for
separators. A field name is a one-token sequence (`<<"filename">>`), so a tag
key can equal it. Exceptions are records `[exc |-> name]`.

The pure decoders are checked in MC modules of one step each. `Init` chooses
every input in a bounded set. `Decode` computes the code's result. An
invariant compares that result with a reference definition written from
spec.md. Those runs say `CHECK_DEADLOCK FALSE` because the harness stops after
one decode by construction.

## Runs

| Run | Checks | Result |
|---|---|---|
| `cache_name` (`MC_NvtiCacheName.cfg`) | `LocatorRefinement`: the implementation refines `NvtiCacheLocator` under `handle <- nvtiCacheName`. `ResolvedWhenCompatible`: every probe of a compatible version stores its name. | pass |
| `cache_name_errors` | `ProbeFailureIsConfigError` | violation: a missing `pkg-config` raises FileNotFoundError, and a junk version raises InvalidVersion under new setuptools |
| `tags` | `ParseTagsMatchesGrammar`: all tag texts up to 5 characters over `a b = |`. The None input is not in this run; `TagDecodersAgree` covers it | pass |
| `get_nvt_tag` | `TagDecodersAgree`: `get_nvt_tag` gives what `_parse_metadata_tags` gives, and None for a VT that is gone | violation. The shortest trace is the input None, which `get_single_item` returns for a VT that is not in the store: `None.split` raises AttributeError at l. 299. The empty tag field `""` raises ValueError in the same way |
| `params` | `ParamsMatchSpec`: timeouts `0 10 -1` and up to 2 writer-encoded entries | pass |
| `params_malformed` | `ParamsMatchSpec` with entries `id|||name|||type`, and names `n|` and `|n` | violation: IndexError (l. 160). The trace shows `1|||n|||e`, the case the unit test's `prefs3` expects to give `''`. A name `n|` with an empty type and no default segment (`1|||n||||`) splits into `1`, `n`, `|`, reads type `|` and reaches the same branch; spec.md 8 says an empty type yields default `''`. The four-segment form `1|||n|||||||` splits into `1`, `n`, `''`, `|` and does not raise. With `MCNames` alone this run finds only the first case |
| `record` | `MetadataMatchesSpec`: the result has exactly the keys of the non-empty non-reference fields and of the tag pairs, and under each key the value of that field or that tag. Tag keys include `filename` (a field before the tag) and `name` (a field after it). `RefsRoundTrip` | pass |
| `cache_reload` (`MC_NvtiCache.cfg`) | `ParamsLinearizable`: each `get_nvt_params` result equals the decoding of a store state seen during the call. | pass (1653 states, under 1 s) |
| `cache_db` (`MC_NvtiCacheDb.cfg`) | `FeedVersionLinearizable`: a feed version returned was stored under the client's name at some moment of the call. | pass (660k states, about 15 s) |
| `cache_db_handle` | `ContextResolvedOnce`: every `get_redis_context` that finds the cache returns the same database | violation: a load into db 0, a drop, then a load into db 1 give two different handles |
| `cache_db_kbctx` | `ReadsUseCacheDb`: `get_oids` and the record readers see exactly the resolved cache | violation: the KB context is db 0 while the cache is in db 1, and `get_oids` returns nothing. This assumes that `db_find` leaves the KB context unchanged; see "Not modelled" |
| `cache_feedupdate` | `ParamsLinearizable` when the reload writes a newer feed | violation: old preferences combined with the new timeout |

`PROJECT.json` "findings" explains each violation.

Bounds:
- Versions cover each edge of the comparison: a trailing zero, a leading zero, two-digit minors, a pre-release, another major, and junk.
- Tag strings go up to 5 characters, which is enough for an empty segment, a value containing `=`, and two segments.
- Parameters use 2 entries, enough for an id collision and the `'0'` id against the synthesized timeout.
- `MaxReloads = 2` on one OID, enough for a flush in the middle of a call and a second population.
- `NvtiCacheDb` uses:
  - two databases, so the cache can move between them and the KB context can differ from it;
  - two feeds with different OID sets;
  - versions 20.4, 20.4.1 and 21.0, plus the three probe failures;
  - `MaxLoads = 2`, which allows a load, a drop and a reload elsewhere;
  - `MaxProbes = 2`, which allows a failed probe and a retry after a reinstall.

## Fairness

No liveness property is checked, and no specification assumes fairness.
Each client call is a fixed sequence of one or two store reads followed by
decoding. None of them waits on the store: a read of a key that is gone
gives None, and the call goes on with it. So "a started call returns" would
hold by the shape of the model, whatever the scanner does, and would say
nothing about the code.

Every property is a safety property or a refinement of a safety
specification.

## Not modelled, and the plan

- `get_nvt_metadata` merges the tags into the record fields in place. A tag whose key is `filename` .. `dependencies` replaces that field, and a later non-empty field replaces a tag with its key. spec.md does not say which should win, so `MetadataMatchesSpec` accepts either value and checks only that the merge loses no key and invents no value. The precedence itself is not checked.

- `OpenvasDB` (`db_find`, `get_single_item`, `get_elem_pattern_by_index`, `get_kb_context`) is not in the repository. It is modelled from spec.md §6 and marked `spec_modelled`, with these assumptions:
  - `db_find` returns the first database in index order that holds the key;
  - a read with `ctx=None` goes to the KB context;
  - `db_find` only searches and does not select the database it finds as the KB context. spec.md does not say this, and the `cache_db_kbctx` finding rests on it: if `db_find` switched the KB context to the cache, the readers would read the cache after any `get_redis_context`.
- `NvtiCacheDb` abstracts a VT record to the presence of its OID. `NvtiCache` models the decoding over one database.
- An empty or non-numeric timeout text is not modelled, because the writer stores an integer.
- A metadata call and a params call across one feed version change is not modelled yet. `ParamsLinearizable` covers a single call only.
- Concurrent callers sharing one `NVTICache` are not modelled. `_get_nvti_cache_name` checks and then sets `_nvti_cache_name` without a lock, with the `pkg-config` call in between. spec.md 5 says resolution runs in a single-threaded context and must be synchronized externally if a client is shared. Every module therefore has one client thread.
- `QOD_TYPES` is static data that no method reads.
- The tests in `src/tests` target a later API. They are used only where they state behaviour of this code.
