SPECIFICATION Spec
CONSTANTS
    Capabilities = {"KERNEL_PROVIDER", "SECURITY_LAYER", "UPDATE_LAYER", "DEVICE_LAYER", "RECOVERY"}
    zeros = zeros
    other = other
    Digests = {zeros, other}
    FAILED = FAILED
    Platforms <- AdapterPlatform
    Images <- AdapterImage
    Policies <- AdapterPolicy
    Linkages <- AnyLinkage
    HEAP_SIZE = 1048576
INVARIANT DenyByDefault
CHECK_DEADLOCK FALSE
