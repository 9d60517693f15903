SPECIFICATION Spec
CONSTANTS
    KeyPairs = {"old", "new"}
    KeyIds = {"k1", "k2"}
    MaxU64 = 4
    Chars <- MCChars
    Inputs = {"echo", "noop"}
    Versions = {"remote.v1alpha1", "remote.v2"}
    Algorithms = {"ed25519", "rsa"}
    Dispatches <- WindowDispatches
    SigningContexts <- WindowContexts
    Registries <- RotationRegistries
    RunnerIds <- OneRunner
    Malformed = Malformed
    MaxIssued = 1
    MaxNet = 2
    MaxLives = 1
INVARIANTS
    AcceptedIsGenuine
    ReplayAnswerIsTrue
PROPERTY
    GenuineIsAccepted
