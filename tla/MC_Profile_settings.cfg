\* Do the saved settings survive bookmark edits?
CONSTANTS
    BPaths <- MCBPaths
    FileProfile = FileProfile
    DefaultSettings = DefaultSettings
    SavedSettings = SavedSettings
    NoFile = NoFile
    WTasks = {w1, w2}
    TabLists <- MCTabLists
    MaxTabWrites = 0
    RemoteFaults = {}
SPECIFICATION Spec
PROPERTY SettingsPreserved
