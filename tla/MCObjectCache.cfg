SPECIFICATION Spec
CONSTANTS
    Kinds <- MCKinds
    SwitchedTo <- MCSwitchedTo
    KeyPrefixes <- MCPrefixes
    Databases = {0, 1}
    Computed = {"stage"}
    MaxSwitches = 1
INVARIANTS
    TypeOK
    StageApart
    StaleGone
    ReadMeansWarned
PROPERTIES
    LiveKeysStay
