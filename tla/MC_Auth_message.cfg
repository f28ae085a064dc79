\* The same; a failed sign-in shows its reason.
CONSTANTS
    Emails = {"adm", "mem", "unv", "bad"}
    Account <- MCAccount
    Passwords = {"pw1", "pw2"}
    Password <- MCPassword
    StatusTexts = {"", "Bad Gateway"}
    RemoteFaults = {"reject", "http"}
    NoToken = NoToken
    Topologies <- MCTopologies
    MaxOpenings = 2
SPECIFICATION Spec
PROPERTY FailureShowsMessage
