SPECIFICATION Spec
CONSTANTS
    Tools = {"bash", "read", "db.query"}
    Paths = {"src", "etc"}
    NoPath = "none"
    ToolGlobs <- Globs
    PathGlobs <- PathGlobs3
    TaskIds = {"t1", "t2"}
    FindingIds = {"f1"}
    MaxVersions = 2
    MaxFindings = 2
    MaxTurns = 2
    MaxCalls = 2
    Servers = {"context7", "db", "web"}
    Stdio = {"db"}
    MaxLives = 2
    Order <- Order3
    Context7 = "context7"
    Adapters = {"anthropic"}
    Setups <- SmallSetups
    ServerOf <- ServerOf1
CHECK_DEADLOCK FALSE
INVARIANTS
    Permitted
    OwnText
    HouseRules
    EveryServerOwned
    Handshake
    CommandsRunAlone
PROPERTY
    NobodyWaitsForEver
