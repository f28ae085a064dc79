\* copyDirectory under rejected fetches and error answers, with an empty file in the source
CONSTANTS
    Names <- MCNames
    Content <- MCContent
    NoChunks <- MCNoChunks
    Dir = Dir
    ErrBody = ErrBody
    MaxDepth = 4
    RemoteFaults = {"reject", "error"}
    Tasks = {t1}
    InitFs <- MCInitFs
    Src <- MCSrc
    DestDir <- MCDestDir
SPECIFICATION Spec
INVARIANT WritesOnlyUnderDest
PROPERTY CopyTerminates
\* the copy ends: the program then waits for the user
CHECK_DEADLOCK FALSE
