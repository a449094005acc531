\* Does one call of expire() drop every stale entry nobody holds?
CONSTANTS
    Keys <- MCKeys
    TimeToLive = 1
    MaxTime = 2
    MaxHolders = 1
SPECIFICATION Spec
PROPERTY ExpireSweepsAll
