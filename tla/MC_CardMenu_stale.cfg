\* The same cards; whether the selection only holds listed cards.
CONSTANTS
    Entries <- MCEntries
    Parent <- MCParent
    Root = "/"
    IsFile <- MCIsFile
    DelTasks = {d1}
    RemoteFaults = {"reject", "error"}
    None = None
SPECIFICATION Spec
\* every entry may be deleted; the view then waits for the user
CHECK_DEADLOCK FALSE
INVARIANT SelectionListed
