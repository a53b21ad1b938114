\* Two polls and three probes in each half, one of each at the same moment.
SPECIFICATION FairSpec
CONSTANTS
    PollEvery = 3
    ProbeEvery = 2
    Load = 7
    Pause = 3
    MaxDelay = 5
    MaxBytes = 2
    Punctual = TRUE
INVARIANTS TypeOK FrontIsLeast AnswersMatched CountersKept ReportComplete
PROPERTIES RatesCoverASecond TestEnds
CHECK_DEADLOCK FALSE
