SPECIFICATION Spec
CONSTANTS
    Resources <- MCResources
    KindOf <- MCKindOf
    Author = "member"
    Races = {}
    MaxVersion = 3
    MaxChanges = 2
    MaxFetches = 1
    MaxWrites = 1
INVARIANTS Inv  
CHECK_DEADLOCK FALSE
