SPECIFICATION FairSpec
CONSTANTS
    Hooks = {"h1", "h2", "h3"}
    User = "user"
    MaxFaults = 3
    None = None
    RolePairs <- MCRolePairs
    OptsChoices <- MCOpts
CHECK_DEADLOCK FALSE
INVARIANTS
    Rebound
PROPERTIES
    DualRecovers
