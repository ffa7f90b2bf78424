SPECIFICATION Spec
CONSTANTS
    base = base
    nest = nest
    twin = twin
    Queues = {base, nest, twin}
    Kinds <- AllKinds
    Target <- NestTarget
    Inactive = {base, nest}
    BatchQueues = {base}
    Cancelable = {base}
    QuietCancel = TRUE
    e1 = e1
    e2 = e2
    Elements = {e1, e2}
    Takes <- Apart
    Clients = {c1, c2, o}
    Senders = {c1, c2}
    Owners = {o}
    NONE = NONE
INVARIANTS
    TypeOK
    NoPanic
    NoUseAfterCancel
    QueueAttended
    BatchFlushed
    ChainQueuedOnce
PROPERTIES
    EventuallyInvoked
    CancelEnds
CHECK_DEADLOCK FALSE
