\* Backends save four mails at any moment of the relay's rounds; two crashes.
CONSTANTS
    MaxMails = 4
    MaxCrashes = 2
SPECIFICATION FairSpec
CHECK_DEADLOCK FALSE
INVARIANTS
    RelayInv
    Kept
    NotSentTwice
    InOrder
PROPERTIES
    Tried
