\* With no load in flight the listing shown must be the current folder.
CONSTANTS
    Names <- MCNames
    Content <- MCContent
    NoChunks = {}
    Dir = Dir
    ErrBody = ErrBody
    MaxDepth = 2
    RemoteFaults = {}
    Tasks = {}
    DelTasks = {}
    Locations <- MCLocations
    MaxHistory = 1
    MaxFetches = 2
    MaxPastes = 0
    MaxSelection = 1
    InitFs <- MCInitFs
SPECIFICATION Spec
INVARIANT ListingShowsLocation
