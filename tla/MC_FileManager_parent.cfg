\* Nothing selected may contain the current folder.
CONSTANTS
    Names <- MCNames
    Content <- MCContent
    NoChunks = {}
    Dir = Dir
    ErrBody = ErrBody
    MaxDepth = 2
    RemoteFaults = {}
    Tasks = {}
    DelTasks = {}
    Locations <- MCLocations
    MaxHistory = 1
    MaxFetches = 1
    MaxPastes = 0
    MaxSelection = 2
    InitFs <- MCInitFs
SPECIFICATION Spec
INVARIANT SelectionBelowLocation
