\* PaymentChannelCreate with a non-positive Amount: the preflight check
\* that rejects it is commented out in PayChanCreate::preflight.
CONSTANTS
    Accounts <- MCAccounts
    Channels <- MCChannels
    Ghost = Ghost
    None = None
    BadKey = BadKey
    Amounts <- MCSignedAmounts
    Delays = {1}
    MaxTime = 1
    Fee = 1
    ReserveBase = 1
    ReserveInc = 1
    InitBalance = 5
    MaxFees = 2
    RequireDestTag = {"bob"}
    DisallowM = {"carol"}

SPECIFICATION Spec

INVARIANT ClaimWithinFunds
