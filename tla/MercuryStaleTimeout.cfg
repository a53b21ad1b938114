\* What StateMachine.hpp, line 75, says of a timer that another stimulus overtakes.
SPECIFICATION Spec
CONSTANTS
    State <- States
    Stim <- Stims
    Effect <- Effects
    Initial = "IDLE"
    Edges <- Table
PROPERTY StaleTimeoutCleared
CHECK_DEADLOCK FALSE
