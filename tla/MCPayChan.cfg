\* Three accounts and one channel id, up to three applied transactions: the
\* ledger invariants, the settle delay, and the refinement of EscrowChannel.
CONSTANTS
    Accounts <- MCAccounts
    Channels <- MCChannels
    Ghost = Ghost
    None = None
    BadKey = BadKey
    Amounts = {0, 1, 2}
    Delays = {1}
    MaxTime = 2
    Fee = 1
    ReserveBase = 1
    ReserveInc = 1
    InitBalance = 5
    MaxFees = 3
    RequireDestTag = {"bob"}
    DisallowM = {"carol"}

SPECIFICATION Spec

INVARIANTS
    TypeOK
    ValueConserved
    ClaimWithinFunds
    PaidOnlyAuthorized
    OwnerRecordsConsistent

PROPERTIES
    SettleDelayHonoured
    ReserveAfterFunding
    EscrowRefined
