\* The same dialogs, no faults; whether a page drop keeps the files already listed.
CONSTANTS
    Files = {"f1", "f2"}
    FileDir <- MCFileDir
    Locations <- MCLocations
    Names = {"s"}
    STasks = {t1}
    FilesLimit = 1
    MaxBatch = 1
    MaxFolderFiles = 1
    MaxSubmits = 2
    RemoteFaults = {}
SPECIFICATION Spec
PROPERTY DropKeepsListed
