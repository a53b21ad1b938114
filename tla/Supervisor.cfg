SPECIFICATION FairSpec
CONSTANTS
    Tests = {t1, t2, t3}
    Helpers = {logger, monitor}
    Faults = {"forkFails"}
INVARIANTS TypeOK OneTestAtATime OnlyKilledStayZombies
PROPERTIES EveryTestEnds
CHECK_DEADLOCK FALSE
