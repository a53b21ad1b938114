SPECIFICATION FairSpec
CONSTANTS
    State <- States
    Stim <- Stims
    Effect <- Effects
    Initial = "IDLE"
    Edges <- Table
    Valid = 2
    Invalid = 2
    MaxDatagrams = 5
INVARIANTS TypeOK
PROPERTIES ImplementsSurvey TestReports
CHECK_DEADLOCK FALSE
