\* Three entries fetched, held and released over four clock ticks, with the
\* sweep timer calling expire().
CONSTANTS
    Keys <- MCKeys
    TimeToLive = 1
    MaxTime = 3
    MaxHolders = 1
SPECIFICATION FairSpec
PROPERTIES
    StaleEventuallyEvicted
