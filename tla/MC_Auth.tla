------------------------------- MODULE MC_Auth -------------------------------
EXTENDS Auth, TLC

\* one account of each kind the API tells apart
MCAccount == ("adm" :> "admin") @@ ("mem" :> "member") @@ ("unv" :> "unverified") @@ ("bad" :> "unknown")

\* every account's password is "pw1"
MCPassword == [e \in DOMAIN MCAccount |-> "pw1"]

\* one datacenter with a rack and a node holding a volume; later a second
\* rack whose node holds two volumes
MCTopologies == {"dc1" :> ("r1" :> ("n1" :> <<5>>)),
                 "dc1" :> (("r1" :> ("n1" :> <<5>>)) @@ ("r2" :> ("n2" :> <<1, 2>>)))}
=============================================================================
