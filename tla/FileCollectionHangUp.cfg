SPECIFICATION Spec
CONSTANTS
    Clients = {c1, c2}
    Fds = {f1, f2}
    MaxCommands = 3
INVARIANT NeverNull
CHECK_DEADLOCK FALSE
