\* No faults: a file deleted while the download reads the others.
CONSTANTS
    Names = {"a", "b", "d"}
    Content = {"c1", "c2"}
    NoChunks = {}
    Dir = Dir
    ErrBody = ErrBody
    MaxDepth = 1
    RemoteFaults = {}
    FooterTasks = {f1}
    MenuTasks = {m1}
    Selections <- MCSelections
    MaxDeletes = 1
    InitFs <- MCInitFs
SPECIFICATION Spec
INVARIANT SavedAreFiles
