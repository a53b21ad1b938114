\* An answer may take longer than the pause.
SPECIFICATION Spec
CONSTANTS
    PollEvery = 3
    ProbeEvery = 2
    Load = 7
    Pause = 3
    MaxDelay = 5
    MaxBytes = 2
    Punctual = TRUE
INVARIANT LatenciesAreRoundTrips
CHECK_DEADLOCK FALSE
