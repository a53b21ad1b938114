SPECIFICATION Spec
CONSTANTS
    Tests = {t1, t2, t3}
    Helpers = {logger, monitor}
    Faults = {"forkFails"}
INVARIANT OnlyTheChildIsKilled
CHECK_DEADLOCK FALSE
