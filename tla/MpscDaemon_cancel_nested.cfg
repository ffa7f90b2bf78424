SPECIFICATION Spec
CONSTANTS
    base = base
    nest = nest
    twin = twin
    Queues = {base, nest, twin}
    Kinds <- OneNested
    Target <- NestTarget
    Inactive = {}
    BatchQueues = {}
    Cancelable = {nest}
    QuietCancel = TRUE
    e1 = e1
    e2 = e2
    Elements = {e1, e2}
    Takes <- Both
    Clients = {c1, c2}
    Senders = {c1}
    Owners = {c2}
    NONE = NONE
INVARIANT NoUseAfterCancel
CHECK_DEADLOCK FALSE
