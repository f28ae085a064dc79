\* Does the footer act only on rows shown? No faults.
CONSTANTS
    Names <- MCNames
    Content <- MCContent
    NoChunks = {}
    Dir = Dir
    ErrBody = ErrBody
    MaxDepth = 2
    RemoteFaults = {}
    Tasks = {t1}
    DelTasks = {d1}
    Locations <- MCLocations
    MaxSelection = 2
    MaxOps = 2
    InitFs <- MCInitFs
SPECIFICATION Spec
INVARIANT FooterShowsSelection
