SPECIFICATION FairSpec
CONSTANTS
    State <- States
    Stim <- Stims
    Effect <- Effects
    Initial = "IDLE"
    Edges <- Table
INVARIANTS TypeOK AtMostOneTimer BuffersNotShared
PROPERTIES ImplementsRouterTest TimedStatesEnd TeardownEnds
CHECK_DEADLOCK FALSE
