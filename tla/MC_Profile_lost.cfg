\* Does a bookmark in the profile file stay until it is removed?
CONSTANTS
    BPaths <- MCBPaths
    FileProfile = FileProfile
    DefaultSettings = DefaultSettings
    SavedSettings = SavedSettings
    NoFile = NoFile
    WTasks = {w1, w2}
    TabLists <- MCTabLists
    MaxTabWrites = 0
    RemoteFaults = {}
SPECIFICATION Spec
PROPERTY BookmarksNotLost
