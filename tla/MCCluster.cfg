\* Two nodes, reports with or without a name, two fees and two times,
\* delivered in any order and any number of times after the load.
\* A configuration that fails to load stops the server, so a stopped
\* state has no successor.
CONSTANTS
    Ids <- MCIds
    Names <- MCNames
    Fees = {1, 2}
    Times = {1, 2}
    Configs <- MCConfigs
    Malformed = Malformed
    Invalid = Invalid
    None = None
SPECIFICATION Spec
CHECK_DEADLOCK FALSE
INVARIANTS
    LatestReportWins
    ConfigLoadedWhole
