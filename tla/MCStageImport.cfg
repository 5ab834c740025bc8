SPECIFICATION Spec
CONSTANTS
    posts = posts
    orders = orders
    logs = logs
    sessions = sessions
    NoTable = NoTable
    Tables <- MCTables
    StageTables <- MCStageTables
    Exported <- MCExported
    Bucket <- MCBucket
    MaxRuns = 2
INVARIANTS
    TypeOK
    OwnRows
    AsideSurvives
    RollbackExact
    ImportExact
PROPERTY
    ImportEnds
    ImplementsContract
CHECK_DEADLOCK FALSE
