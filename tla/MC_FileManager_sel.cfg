\* Navigation, selection, clipboard and deletes with faults; no paste (MaxPastes = 0).
CONSTANTS
    Names <- MCNames
    Content <- MCContent
    NoChunks = {}
    Dir = Dir
    ErrBody = ErrBody
    MaxDepth = 2
    RemoteFaults = {"reject", "error"}
    Tasks = {}
    DelTasks = {d1}
    Locations <- MCLocations
    MaxHistory = 1
    MaxFetches = 1
    MaxPastes = 0
    MaxSelection = 2
    InitFs <- MCInitFs
SPECIFICATION Spec
INVARIANT StoredIsCurrent
INVARIANT NoDuplicateSelection
