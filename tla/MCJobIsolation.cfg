SPECIFICATION Spec
CONSTANTS
    Chars = {"a", "artifacts"}
    EnvNames <- MCEnvNames
    EnvValues = {"old", "new"}
    CredentialRefs <- MCCredentialRefs
    Dispatches <- MCDispatches
    Environments <- MCEnvironments
    PathLabels = {"dump"}
    MaxPlans = 2
    MaxFiles = 2
    MaxEvidence = 2
INVARIANTS
    TypeOK
    RootsAreApart
    EnvironmentIsScoped
    AccessFollowsPlans
    SafeMeansClean
