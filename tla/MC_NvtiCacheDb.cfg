CONSTANTS
    None = None
    F1 = F1
    F2 = F2
    o1 = o1
    o2 = o2
    SUPPORTED_NVTICACHE_VERSIONS <- MCSupported
    Versions <- MCDbVersions
    Feeds <- MCFeeds
    OidsOf <- MCOidsOf
    Dbs = {0, 1}
    MaxProbes = 2
    MaxLoads = 2

SPECIFICATION SpecDb

INVARIANT FeedVersionLinearizable
