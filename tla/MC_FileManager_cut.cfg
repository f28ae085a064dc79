\* Cut then paste: the cut item must exist at the destination when it is deleted.
CONSTANTS
    Names <- MCNames
    Content <- MCContent
    NoChunks = {}
    Dir = Dir
    ErrBody = ErrBody
    MaxDepth = 2
    RemoteFaults = {}
    Tasks = {t1}
    DelTasks = {}
    Locations <- MCLocations
    MaxHistory = 1
    MaxFetches = 1
    MaxPastes = 1
    MaxSelection = 1
    InitFs <- MCInitFs
SPECIFICATION Spec
PROPERTY CutKeepsData
