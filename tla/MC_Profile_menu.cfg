\* The favorites menu while the list changes under it: a load and an upload.
CONSTANTS
    BPaths <- MCBPaths
    FileProfile = FileProfile
    DefaultSettings = DefaultSettings
    SavedSettings = SavedSettings
    NoFile = NoFile
    WTasks = {w1, w2}
    TabLists <- MCTabLists
    MaxTabWrites = 0
    RemoteFaults = {"reject", "error"}
SPECIFICATION Spec
INVARIANT MenuOnClickedBookmark
