SPECIFICATION FairSpec
CONSTANTS
    Users = {u1}
    Relations <- MCRelations
    Inherited <- MCInherited
    ImpliedBy <- MCImpliedBy
    Actions <- MCActions
    Required <- MCRequired
    Checkers = {c1}
    Writers = {w1}
    MaxAttempts = 2
    MaxBatch = 2
INVARIANTS
    ListingIsHonest
PROPERTIES
    ChecksEnd
    DecidesProperly
CHECK_DEADLOCK FALSE
