\* The same dialogs, non-2xx answers only; whether a submit stops at a failed call.
CONSTANTS
    Files = {"f1", "f2"}
    FileDir <- MCFileDir
    Locations <- MCLocations
    Names = {"s"}
    STasks = {t1}
    FilesLimit = 1
    MaxBatch = 1
    MaxFolderFiles = 1
    MaxSubmits = 2
    RemoteFaults = {"error"}
SPECIFICATION Spec
PROPERTY UploadStopsAtFailure
