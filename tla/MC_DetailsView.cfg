\* Footer copy, move and delete with rejects and errors, the user free to act.
CONSTANTS
    Names <- MCNames
    Content <- MCContent
    NoChunks = {}
    Dir = Dir
    ErrBody = ErrBody
    MaxDepth = 2
    RemoteFaults = {"reject", "error"}
    Tasks = {t1}
    DelTasks = {d1}
    Locations <- MCLocations
    MaxSelection = 1
    MaxOps = 1
    InitFs <- MCInitFs
SPECIFICATION Spec
PROPERTY LoadingReleased
