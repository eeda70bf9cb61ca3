SPECIFICATION BatchSpec
CONSTANTS
    Users = {alice, bob}
    Relations <- MCRelations
    Wants <- MCWants
    MaxContexts = 2
INVARIANT AnyRelationSuffices
CHECK_DEADLOCK FALSE
