SPECIFICATION Spec
CONSTANTS
    KeyPairs = {"old", "new"}
    KeyIds = {"k1", "k2"}
    MaxU64 = 3
    Chars <- MCChars
    Inputs = {"echo", "noop"}
    Versions = {"remote.v1alpha1", "remote.v2"}
    Algorithms = {"ed25519", "rsa"}
    Dispatches <- DeliveryDispatches
    SigningContexts <- DeliveryContexts
    Registries <- DeliveryRegistries
    RunnerIds <- OneRunner
    Malformed = Malformed
    MaxIssued = 2
    MaxNet = 2
    MaxLives = 2
INVARIANTS
    TypeOK
    AtMostOncePerLife
    CacheIsExact
    ReplayAnswerIsTrue
PROPERTIES
    ImplementsGate
