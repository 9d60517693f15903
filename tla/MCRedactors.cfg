SPECIFICATION Spec
CONSTANTS
    AlnumChars <- MCAlnumChars
    OtherChars = {" ", "[REDACTED:", "]"}
    SECRET_PREFIXES <- MCPrefixes
    MIN_SECRET_ALNUM_CHARS = 2
    Marker = Marker
    MaxCalls = 2
    Texts <- MCTexts
    Lower <- MCLower
    Values <- MCValues
    Configs <- MCConfigs
    Options <- MCOptions
    MaxPasses = 2
INVARIANTS
    TypeOK
    ExactlySecretsReplaced
    NoSecretSurvives
    FlagIsTrue
    RedactedExactly
    DiagnosticsTellTheState
PROPERTY
    Terminates
CHECK_DEADLOCK FALSE
