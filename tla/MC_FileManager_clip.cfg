\* A copy or cut made while a paste runs must survive the end of the paste.
CONSTANTS
    Names <- MCNames
    Content <- MCContent
    NoChunks = {}
    Dir = Dir
    ErrBody = ErrBody
    MaxDepth = 2
    RemoteFaults = {}
    Tasks = {t1}
    DelTasks = {}
    Locations <- MCLocations
    MaxHistory = 1
    MaxFetches = 1
    MaxPastes = 1
    MaxSelection = 1
    InitFs <- MCInitFs
SPECIFICATION Spec
PROPERTY ClipboardSurvivesPaste
