\* Bookmarks of either profile kind, two concurrent adds/removes, all faults.
CONSTANTS
    BPaths <- MCBPaths
    FileProfile = FileProfile
    DefaultSettings = DefaultSettings
    SavedSettings = SavedSettings
    NoFile = NoFile
    WTasks = {w1, w2}
    TabLists <- MCTabLists
    MaxTabWrites = 1
    RemoteFaults = {"reject", "error"}
SPECIFICATION Spec
INVARIANT NoDuplicateBookmarks
