SPECIFICATION Spec
CONSTANTS
    AdapterIds = {"llm", "agent", "command"}
    Runtimes = {"codex", "claude_code"}
    IsolationModes = {"temporary", "host"}
    NetworkModes = {"deny_all", "allow"}
    Args = {"test", "run"}
    EnvNames = {"PATH", "HOME"}
    Malformed = Malformed
    Configs <- MCConfigs
    Dispatches <- MCDispatches
INVARIANTS
    TypeOK
    PlanIsAuthorised
PROPERTY
    InventoryIsHonoured
