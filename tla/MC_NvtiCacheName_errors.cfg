CONSTANTS
    None = None
    SUPPORTED_NVTICACHE_VERSIONS <- MCSupported
    Versions <- MCVersions
    MaxProbes = 3

SPECIFICATION Spec

INVARIANT ProbeFailureIsConfigError
