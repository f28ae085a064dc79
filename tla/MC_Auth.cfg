\* Every kind of account, an API that rejects and answers with bare error pages.
CONSTANTS
    Emails = {"adm", "mem", "unv", "bad"}
    Account <- MCAccount
    Passwords = {"pw1", "pw2"}
    Password <- MCPassword
    StatusTexts = {"", "Bad Gateway"}
    RemoteFaults = {"reject", "http"}
    NoToken = NoToken
    Topologies <- MCTopologies
    MaxOpenings = 2
SPECIFICATION Spec
INVARIANT SessionIsAdmin
PROPERTY ImplementsSession
PROPERTY ClusterInfoRefreshed
