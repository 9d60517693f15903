SPECIFICATION Spec
CONSTANTS
    Files <- MCFiles
    Blank <- MCBlank
INVARIANTS
    TypeOK
    EvidenceStandsOnALease
    PrintsOneValidConfig
    RunStaysInBoundaries
