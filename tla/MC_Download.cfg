\* One footer download and one menu download, a delete alongside, all faults.
CONSTANTS
    Names = {"a", "b", "d"}
    Content = {"c1", "c2"}
    NoChunks = {}
    Dir = Dir
    ErrBody = ErrBody
    MaxDepth = 1
    RemoteFaults = {"reject", "error"}
    FooterTasks = {f1}
    MenuTasks = {m1}
    Selections <- MCSelections
    MaxDeletes = 1
    InitFs <- MCInitFs
SPECIFICATION Spec
INVARIANT DownloadingWhileZipping
