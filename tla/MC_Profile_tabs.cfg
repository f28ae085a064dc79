\* Two tabs with the localStorage profile: an older storage event arrives after this tab's own add.
CONSTANTS
    BPaths <- MCBPaths
    FileProfile = FileProfile
    DefaultSettings = DefaultSettings
    SavedSettings = SavedSettings
    NoFile = NoFile
    WTasks = {w1, w2}
    TabLists <- MCTabLists
    MaxTabWrites = 1
    RemoteFaults = {"reject", "error"}
SPECIFICATION Spec
INVARIANT LocalShownIsStorage
