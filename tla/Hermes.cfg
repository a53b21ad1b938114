SPECIFICATION HermesFairSpec
CONSTANTS
    MaxOpenings = 2
    MaxActivities = 3
INVARIANTS HermesTypeOK TestingIsOn
PROPERTIES PreparationEnds  DestructionEnds
CHECK_DEADLOCK FALSE
