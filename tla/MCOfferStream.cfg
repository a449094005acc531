\* One order book of three offers, walked by OfferStream (cancelView_ edits at
\* once) and FlowOfferStream (removals deferred to permToRemove_) sessions in
\* turn, and CancelOffer between them.  MaxSteps = 2 leaves the step budget short
\* of the book; cancel sequences run from 0 to one past Sequence.
CONSTANTS
    Keys <- MCKeys
    Owners <- MCOwners
    Issuer = "gw"
    Outs = {0, 1, 2}
    Funds = {0, 1, 2}
    Now = 1
    OfferId <- MCOfferId
    MaxSeq = 3
    MaxCancels = 1
    MaxSteps = 2
    Missing = Missing
    None = None
SPECIFICATION Spec
INVARIANTS
    TypeOK
    PristineFundedOffersSurvive
    ExaminedInvalidRemoved
PROPERTY
    CancelRemovesOnlyNamed
