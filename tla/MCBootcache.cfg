\* Three addresses, a cache of two that prunes half when over: loads,
\* inserts, successes and failures, cooldowns, crashes and orderly stops.
CONSTANTS
    e1 = e1
    e2 = e2
    e3 = e3
    Endpoints <- MCEndpoints
    BootcacheSize = 2
    PrunePercent = 50
    MaxValence = 2
    MaxRestarts = 2
SPECIFICATION FairSpec
INVARIANTS TypeOK CacheBounded StoreMirrorsCache
PROPERTIES PruneKeepsBest EventuallySaved
