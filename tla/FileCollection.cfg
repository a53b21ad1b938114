SPECIFICATION FairSpec
CONSTANTS
    Clients = {c1, c2}
    Fds = {f1, f2}
    MaxCommands = 3
INVARIANTS TypeOK NoSleepOverCommand NullOnlyIfDropped
PROPERTIES CommandsHandled EventsServed StopEnds
CHECK_DEADLOCK FALSE
