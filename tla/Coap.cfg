SPECIFICATION FairSpec
CONSTANTS
    MaxRequests = 3
    Urls <- CheckedUrls
    KindsOf <- CheckedKindsOf
    MaxInFlight = 1
    RetransmitLimit = 2
    None = None
INVARIANTS
    AnswersRight
PROPERTIES
    RefinesRequestQueue
    RequestsFinish
CONSTRAINT Kept
CHECK_DEADLOCK FALSE
