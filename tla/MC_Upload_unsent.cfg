\* The same dialogs, rejections only; whether closing after a submit keeps files not sent.
CONSTANTS
    Files = {"f1", "f2"}
    FileDir <- MCFileDir
    Locations <- MCLocations
    Names = {"s"}
    STasks = {t1}
    FilesLimit = 1
    MaxBatch = 1
    MaxFolderFiles = 1
    MaxSubmits = 2
    RemoteFaults = {"reject"}
SPECIFICATION Spec
PROPERTY SubmitEndKeepsUnsent
