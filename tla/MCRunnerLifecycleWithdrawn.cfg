SPECIFICATION Spec
CONSTANTS
    RunnerIds = {"registered", "withdrawn", "absent"}
    TokenIds = {"available", "spare", "used"}
    CredentialRefs = {"active", "rotated", "next", "missing"}
    Ticks <- MCTicks
    None = None
    Scenarios <- MCScenarios
INVARIANT
    WithdrawnGetNoLease
