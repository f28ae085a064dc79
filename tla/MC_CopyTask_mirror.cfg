\* Does copyDirectory reproduce the source subtree?
CONSTANTS
    Names <- MCNames
    Content <- MCContent
    NoChunks = {}
    Dir = Dir
    ErrBody = ErrBody
    MaxDepth = 4
    RemoteFaults = {}
    Tasks = {t1}
    InitFs <- MCInitFs
    Src <- MCSrc
    DestDir <- MCDestDir
SPECIFICATION Spec
INVARIANT MirrorsSource
\* the copy ends: the program then waits for the user
CHECK_DEADLOCK FALSE
