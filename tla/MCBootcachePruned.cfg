\* on_failure of a new address when the cache is full: prune() erases the
\* entry just inserted, which the code then reads.
CONSTANTS
    e1 = e1
    e2 = e2
    e3 = e3
    Endpoints <- MCEndpoints
    BootcacheSize = 2
    PrunePercent = 50
    MaxValence = 2
    MaxRestarts = 2
SPECIFICATION Spec
INVARIANT PrunedEntryNotRead
