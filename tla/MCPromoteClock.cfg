SPECIFICATION Spec
CONSTANTS
    theme = theme
    plugin = plugin
    Items = {theme, plugin}
    OnLive = {theme}
    Keep = 1
    MaxClock = 3
    MaxBack = 1
INVARIANT
    BackupBeforeChanges
