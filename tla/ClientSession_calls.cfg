SPECIFICATION FairSpec
CONSTANTS
    Clients = {"main"}
    Calls = {"bind1","bind2","bind3","bind4","register","restore","logout","login","close"}
    Ext = "ext"
    Hooks = {"h1","h2"}
    MaxFaults = 2
    Linked = {"login", "register", "resume", "restore", "heartbeat"}
    CarriesToken = {TRUE, FALSE}
    None = None
    Kind <- MCKind
    Target <- MCTarget
    PlayerOf <- MCPlayerOf
    After <- MCAfter
CHECK_DEADLOCK FALSE
INVARIANTS
    HearsItsClient
PROPERTIES
    Heals
