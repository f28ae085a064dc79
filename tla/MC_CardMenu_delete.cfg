\* The same cards; what a menu Delete asks to delete.
CONSTANTS
    Entries <- MCEntries
    Parent <- MCParent
    Root = "/"
    IsFile <- MCIsFile
    DelTasks = {d1}
    RemoteFaults = {"reject", "error"}
    None = None
SPECIFICATION Spec
\* every entry may be deleted; the view then waits for the user
CHECK_DEADLOCK FALSE
PROPERTY MenuDeleteIncludesCard
