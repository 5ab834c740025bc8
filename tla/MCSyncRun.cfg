SPECIFICATION Spec
CONSTANTS
    cdn = cdn
    cloudflare = cloudflare
    Integrations = {cdn, cloudflare}
    DirHost = "stage"
    MaxFaults = 2
INVARIANTS
    TypeOK
    CodeRunsClean
    
    CompletedRunIsStage
    NoCacheLeft
PROPERTIES
    RefusalChangesNothing
    RerunRepairs
