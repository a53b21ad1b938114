\* One consumer, as everywhere in Mercury; two threads that push.
SPECIFICATION FairSpec
CONSTANTS
    Producers = {p1, p2}
    Consumers = {c1}
    MaxPush = 3
    Spurious = FALSE
INVARIANTS TypeOK HandedOnce NoLostWakeup NeverOnEmpty
PROPERTIES AllDelivered FifoChannel
CHECK_DEADLOCK FALSE
