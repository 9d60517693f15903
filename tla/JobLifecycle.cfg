SPECIFICATION Spec
INVARIANTS
    TerminalIsEarned
    DriversAreNotRefused
    EvidenceIsTrue
PROPERTIES
    ImplementsPhases
CHECK_DEADLOCK FALSE
