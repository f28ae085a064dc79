\* Two submits in turn, two folders, a file with two parent folders, all faults.
CONSTANTS
    Files = {"f1", "f2"}
    FileDir <- MCFileDir
    Locations <- MCLocations
    Names = {"s"}
    STasks = {t1}
    FilesLimit = 1
    MaxBatch = 1
    MaxFolderFiles = 1
    MaxSubmits = 2
    RemoteFaults = {"reject", "error"}
SPECIFICATION Spec
INVARIANT DirsCreatedFirst
