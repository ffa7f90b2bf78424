SPECIFICATION Spec
CONSTANTS
    Capabilities = {"KERNEL_PROVIDER", "SECURITY_LAYER", "UPDATE_LAYER", "DEVICE_LAYER", "RECOVERY"}
    zeros = zeros
    other = other
    Digests = {zeros, other}
    FAILED = FAILED
    Platforms <- AnyPlatform
    Images <- AnyImage
    Policies <- AnyPolicy
    Linkages <- AnyLinkage
    HEAP_SIZE = 1048576
INVARIANTS
    TypeOK
    HandoffVerified
    ResultExplains
    ProviderCoherent
PROPERTIES
    BootSettles
CHECK_DEADLOCK FALSE
