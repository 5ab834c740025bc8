SPECIFICATION Spec
CONSTANTS
    theme = theme
    plugin = plugin
    Items = {theme, plugin}
    OnLive = {theme}
    Keep = 2
    MaxClock = 3
    MaxBack = 0
INVARIANTS
    TypeOK
    ListedIsExact
    BackupHeld
    RestoredIsExact
