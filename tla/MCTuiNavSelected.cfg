SPECIFICATION Spec
CONSTANTS
    Paths <- MCPaths
    Generic <- MCGeneric
    VHosts <- MCVHosts
    Walked <- MCWalked
    Installed <- MCPaths
    Browse <- MCBrowse
    InitialDisks <- MCDisks
    NoConfig = NoConfig
    Torn = Torn
    Orphan = Orphan
    MaxItems = 2
    MaxSections = 2
    MaxSessions = 1
    MaxBackups = 2
    MaxOthers = 0
INVARIANTS SelectedSite
CHECK_DEADLOCK FALSE
