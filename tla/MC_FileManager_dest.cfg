\* Every item of one paste must go to one destination folder.
CONSTANTS
    Names <- MCNames
    Content <- MCContent
    NoChunks = {}
    Dir = Dir
    ErrBody = ErrBody
    MaxDepth = 2
    RemoteFaults = {}
    Tasks = {t1}
    DelTasks = {}
    Locations <- MCLocations
    MaxHistory = 1
    MaxFetches = 1
    MaxPastes = 1
    MaxSelection = 2
    InitFs <- MCInitFs
SPECIFICATION Spec
INVARIANT PasteSingleDestination
