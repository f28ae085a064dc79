-------------------------------- MODULE Auth --------------------------------
(***************************************************************************)
(* Sign-in: AuthContextWrapper's token (kept in sessionStorage), login()   *)
(* with its two calls to the CTFBoard API (api/auth.ts), the LoginPage     *)
(* form that calls it, App choosing between LoginPage and the file manager *)
(* on isAuthenticated, and logout from the settings menu.  An account is  *)
(* named by its email; the token the API issues for it is named by it too. *)
(* The settings menu's Cluster Info dialog (dialogs/ClusterInfoDialog.tsx) *)
(* calls getClusterInfo (seaweedfs/master.ts) each time it opens, and     *)
(* shows whatever answer lands; the master's volume layout may change.   *)
(***************************************************************************)
EXTENDS Naturals, FiniteSets, FiniteSetsExt, SequencesExt

CONSTANTS
    Emails,       \* emails the user can type
    Account,      \* Account[e]: "admin", "member", "unverified" or "unknown"
    Passwords,    \* passwords the user can type, "" excluded
    Password,     \* Password[e]: the account's password
    StatusTexts,  \* res.statusText of an error response ("" under HTTP/2)
    RemoteFaults, \* "reject" (fetch throws), "http" (an error status with a body that is not JSON)
    NoToken,
    Topologies,   \* layouts of the master: datacenter -> rack -> node -> volume sizes
    MaxOpenings   \* openings of the cluster dialog (a bound of the model)

VARIABLES
    token,    \* the token state
    stored,   \* sessionStorage "seaweedfs_ui_access_token"
    typed,    \* LoginPage's email and password
    error,    \* LoginPage's error ("" shows no alert)
    loading,  \* LoginPage's loading (disables Sign in)
    attempt,  \* the login() call awaiting: its step and the email it signs in
    menu,     \* the settings menu of the top bar is open
    dialog,   \* the dialog the settings menu opened: "none", "settings", "cluster", "about"
    master,   \* the master's volume layout, read by /vol/status
    openings, \* openings of the cluster dialog so far
    calls,    \* the getClusterInfo calls awaiting, named by the opening that made them
    clusterInfo, \* ClusterInfoDialog's clusterInfo
    shownCall \* (ghost) the opening whose call clusterInfo holds the answer of, 0 for none

cluster == <<master, openings, calls, clusterInfo, shownCall>>
vars == <<token, stored, typed, error, loading, attempt, menu, dialog, cluster>>
page == <<typed, error, loading, attempt>>

Faulty(kind) == kind \in RemoteFaults

Idle == [pc |-> "idle", email |-> NoToken]

Blank == [email |-> "", password |-> ""]

\* LoginPage mounted with its initial state
FreshPage == typed = Blank /\ error = "" /\ loading = FALSE /\ attempt = Idle

\* Settings mounted with its initial state: the menu and its dialogs closed
FreshMenu == menu = FALSE /\ dialog = "none"

(***************************************************************************)
(* The cluster dialog.  getClusterInfo fetches /vol/status and counts the *)
(* datacenters (Object.keys), then walks racks, nodes and volumes adding  *)
(* one per rack and node and each volume's Size; a rejected fetch (the    *)
(* catch) or a body that is not JSON (the inner catch) returns the zeros  *)
(* it started from, with no version.  The dialog shows '-' for a field    *)
(* it has no value for.                                                   *)
(***************************************************************************)
NoInfo == [version |-> "-", datacenters |-> "-", racks |-> "-", nodes |-> "-", size |-> "-"]

Zeros == [version |-> "-", datacenters |-> 0, racks |-> 0, nodes |-> 0, size |-> 0]

\* the output of getClusterInfo for a master in layout t
ClusterInfoOf(t) ==
    [version |-> "v",
     datacenters |-> Cardinality(DOMAIN t),
     racks |-> MapThenSumSet(LAMBDA dc : Cardinality(DOMAIN t[dc]), DOMAIN t),
     nodes |-> MapThenSumSet(LAMBDA dc :
                  MapThenSumSet(LAMBDA r : Cardinality(DOMAIN t[dc][r]), DOMAIN t[dc]), DOMAIN t),
     size |-> MapThenSumSet(LAMBDA dc :
                  MapThenSumSet(LAMBDA r :
                      MapThenSumSet(LAMBDA n : FoldSeq(LAMBDA v, acc : acc + v, 0, t[dc][r][n]), DOMAIN t[dc][r]),
                  DOMAIN t[dc]), DOMAIN t)]

\* the useState initialiser reads sessionStorage; a token is only ever
\* stored after its account was checked to be an admin
Init ==
    /\ stored \in {NoToken} \cup {e \in Emails : Account[e] = "admin"}
    /\ token = stored
    /\ FreshPage /\ FreshMenu
    /\ master \in Topologies /\ openings = 0 /\ calls = {}
    /\ clusterInfo = NoInfo /\ shownCall = 0

\* the two fields of the form
TypeEmail(e) ==
    /\ token = NoToken /\ e # typed.email /\ typed' = [typed EXCEPT !.email = e]
    /\ UNCHANGED <<token, stored, error, loading, attempt, menu, dialog, cluster>>

TypePassword(pw) ==
    /\ token = NoToken /\ pw # typed.password /\ typed' = [typed EXCEPT !.password = pw]
    /\ UNCHANGED <<token, stored, error, loading, attempt, menu, dialog, cluster>>

\* handleSubmit: setError(''), setLoading(true), then auth.login(email, password)
Submit ==
    /\ token = NoToken /\ typed.email # "" /\ typed.password # "" /\ ~loading
    /\ error' = "" /\ loading' = TRUE
    /\ attempt' = [pc |-> "login", email |-> typed.email, password |-> typed.password]
    /\ UNCHANGED <<token, stored, typed, menu, dialog, cluster>>

\* mutant: the loading flag is reset in the try block only
FailKeepsLoading(msg) ==
    error' = msg /\ attempt' = Idle /\ UNCHANGED <<token, stored, typed, loading, menu, dialog, cluster>>

\* the catch and finally of handleSubmit
Fail(msg) ==
    error' = msg /\ loading' = FALSE /\ attempt' = Idle /\ UNCHANGED <<token, stored, typed, menu, dialog, cluster>>

\* api login: a non-ok response is read as JSON (or {}), its error field
\* or else the status text is mapped to a friendly message and thrown
Friendly(msg) ==
    CASE msg = "invalid credentials" -> "Invalid email or password"
      [] msg = "email not verified" -> "Email not verified. Check your inbox."
      [] OTHER -> msg

ErrorOf(body, statusText) == IF "error" \in DOMAIN body THEN body.error ELSE statusText

\* the API accepts an email of an account with its password
Accepted(a) == Account[a.email] # "unknown" /\ a.password = Password[a.email]

\* the API's error body for credentials it refuses
RefusalBody(a) ==
    IF Accepted(a) /\ Account[a.email] = "unverified" THEN [error |-> "email not verified"]
    ELSE [error |-> "invalid credentials"]

LoginAnswered ==
    /\ attempt.pc = "login"
    /\ \/ /\ Accepted(attempt) /\ Account[attempt.email] \in {"admin", "member"}
          /\ attempt' = [pc |-> "me", email |-> attempt.email]
          /\ UNCHANGED <<token, stored, typed, error, loading, menu, dialog, cluster>>
       \/ /\ ~Accepted(attempt) \/ Account[attempt.email] = "unverified"
          /\ Fail(Friendly(ErrorOf(RefusalBody(attempt), "Unauthorized")))
       \/ Faulty("http") /\ \E st \in StatusTexts : Fail(Friendly(ErrorOf(<<>>, st)))
       \/ Faulty("reject") /\ Fail("Failed to fetch")

\* mutant: login() stores the token without looking at the role
MeAnsweredNoRoleCheck ==
    /\ attempt.pc = "me"
    /\ \/ stored' = attempt.email /\ token' = attempt.email
          /\ loading' = FALSE /\ attempt' = Idle /\ UNCHANGED <<typed, error, menu, dialog, cluster>>
       \/ Faulty("http") /\ Fail("Unauthorized")
       \/ Faulty("reject") /\ Fail("Failed to fetch")

\* getMe(accessToken); an admin's token is stored, then setToken
MeAnswered ==
    /\ attempt.pc = "me"
    /\ \/ /\ Account[attempt.email] = "admin"
          /\ stored' = attempt.email /\ token' = attempt.email
          /\ loading' = FALSE /\ attempt' = Idle
          /\ UNCHANGED <<typed, error, menu, dialog, cluster>>
       \/ Account[attempt.email] # "admin" /\ Fail("Only admin can access")
       \/ Faulty("http") /\ Fail("Unauthorized")
       \/ Faulty("reject") /\ Fail("Failed to fetch")

\* the settings button of the top bar, shown to a signed-in user with no
\* dialog open
OpenMenu ==
    /\ token # NoToken /\ ~menu /\ dialog = "none" /\ menu' = TRUE
    /\ UNCHANGED <<token, stored, dialog, cluster>> /\ UNCHANGED page

CloseMenu ==
    /\ menu /\ menu' = FALSE
    /\ UNCHANGED <<token, stored, dialog, cluster>> /\ UNCHANGED page

\* the effect on [open]: the dialog has just opened, getClusterInfo()
FetchInfo ==
    /\ openings < MaxOpenings
    /\ openings' = openings + 1 /\ calls' = calls \cup {openings + 1}
    /\ UNCHANGED <<master, clusterInfo, shownCall>>

\* openSettings, openClusterInfo, openAbout: close() the menu, open a dialog
OpenDialog(d) ==
    /\ menu /\ menu' = FALSE /\ dialog' = d
    /\ IF d = "cluster" THEN FetchInfo ELSE UNCHANGED cluster
    /\ UNCHANGED <<token, stored>> /\ UNCHANGED page

\* mutant: getClusterInfo without its catch; a failed call never reaches
\* setClusterInfo
ClusterAnsweredUncaught(n) ==
    /\ n \in calls /\ calls' = calls \ {n}
    /\ \/ clusterInfo' = ClusterInfoOf(master) /\ shownCall' = n
       \/ (Faulty("reject") \/ Faulty("http")) /\ UNCHANGED <<clusterInfo, shownCall>>
    /\ UNCHANGED <<master, openings, token, stored, menu, dialog>> /\ UNCHANGED page

\* the call made by opening n is answered: .then(setClusterInfo), whether
\* the dialog is open or not
ClusterAnswered(n) ==
    /\ n \in calls /\ calls' = calls \ {n} /\ shownCall' = n
    /\ \/ clusterInfo' = ClusterInfoOf(master)
       \/ (Faulty("reject") \/ Faulty("http")) /\ clusterInfo' = Zeros
    /\ UNCHANGED <<master, openings, token, stored, menu, dialog>> /\ UNCHANGED page

\* volumes are added or moved on the cluster
ClusterChange(t) ==
    /\ t # master /\ master' = t
    /\ UNCHANGED <<openings, calls, clusterInfo, shownCall, token, stored, menu, dialog>>
    /\ UNCHANGED page

\* Settings unmounts: a call still awaiting sets the state of no component
\* and the next mount starts with {}
Unmount == calls' = {} /\ clusterInfo' = NoInfo /\ shownCall' = 0 /\ UNCHANGED <<master, openings>>

CloseDialog ==
    /\ dialog # "none" /\ dialog' = "none"
    /\ UNCHANGED <<token, stored, menu, cluster>> /\ UNCHANGED page

\* AuthContextWrapper logout: the token goes; App unmounts the file manager
\* (and Settings with it) and mounts a new LoginPage
Logout ==
    /\ stored' = NoToken /\ token' = NoToken
    /\ typed' = Blank /\ error' = "" /\ loading' = FALSE /\ attempt' = Idle
    /\ menu' = FALSE /\ dialog' = "none"
    /\ Unmount

\* handleLogout, the menu's "Logout": close(), then auth.logout()
HandleLogout == menu /\ token # NoToken /\ Logout

\* the tab is reloaded: sessionStorage survives, the rest starts again
Reload ==
    /\ token' = stored
    /\ typed' = Blank /\ error' = "" /\ loading' = FALSE /\ attempt' = Idle
    /\ menu' = FALSE /\ dialog' = "none"
    /\ Unmount
    /\ UNCHANGED stored

Next ==
    \/ \E e \in Emails : TypeEmail(e)
    \/ \E pw \in Passwords : TypePassword(pw)
    \/ Submit \/ LoginAnswered \/ MeAnswered
    \/ OpenMenu \/ CloseMenu \/ CloseDialog \/ HandleLogout \/ Reload
    \/ \E d \in {"settings", "cluster", "about"} : OpenDialog(d)
    \/ \E n \in calls : ClusterAnswered(n)
    \/ \E t \in Topologies : ClusterChange(t)

\* the API and the master answer every call
Spec == Init /\ [][Next]_vars /\ WF_vars(LoginAnswered) /\ WF_vars(MeAnswered)
        /\ \A n \in 1..MaxOpenings : WF_vars(ClusterAnswered(n))

TypeOK ==
    /\ token \in {NoToken} \cup Emails /\ stored \in {NoToken} \cup Emails
    /\ typed \in [email : {""} \cup Emails, password : {""} \cup Passwords]
    /\ loading \in BOOLEAN
    /\ attempt.pc \in {"idle", "login", "me"}
    /\ menu \in BOOLEAN /\ dialog \in {"none", "settings", "cluster", "about"}
    /\ master \in Topologies /\ openings \in 0..MaxOpenings /\ calls \subseteq 1..openings
    /\ clusterInfo \in {NoInfo, Zeros} \cup {ClusterInfoOf(t) : t \in Topologies}
    /\ shownCall \in 0..openings

(***************************************************************************)
(* Properties.                                                             *)
(***************************************************************************)

(* Whatever the order of sign-ins, failures, logouts and reloads, the      *)
(* token App trusts is the one sessionStorage keeps, and it belongs to an  *)
(* admin: login() stores a token only after getMe has returned the admin  *)
(* role, and reload reads it back.                                         *)
SessionIsAdmin ==
    /\ token = stored
    /\ token # NoToken => Account[token] = "admin"

(* Sign-in implements AuthSession: the token is the session and LoginPage's *)
(* loading flag is the sign-in in progress.  A sign-in starts only without *)
(* a session, ends (clearing loading, in the finally of handleSubmit,      *)
(* whichever call failed and however) with no session or an admin's, is   *)
(* always ended by the API's answers, and a session ends only by logout.  *)
Session == INSTANCE AuthSession
    WITH Admins <- {e \in Emails : Account[e] = "admin"}, NoUser <- NoToken,
         session <- token, busy <- loading

ImplementsSession == Session!Spec

(* A sign-in that fails shows why (spec 7: invalid credentials, email not  *)
(* verified, or a generic message).  The generic message is the error      *)
(* field of a JSON body, else res.statusText, which is empty under HTTP/2; *)
(* LoginPage shows no alert for an empty error.                            *)
FailureShowsMessage ==
    [][(LoginAnswered \/ MeAnswered) /\ token' = NoToken /\ attempt' = Idle => error' # ""]_vars

(* Every opening of the cluster dialog, while it stays open, comes to     *)
(* show the answer of the call that opening made, also when the fetch     *)
(* fails: getClusterInfo catches a rejection and a body that is not JSON  *)
(* and returns zeros, so .then(setClusterInfo) always runs, and the       *)
(* master always answers.                                                 *)
ClusterInfoRefreshed ==
    \A n \in 1..MaxOpenings :
        dialog = "cluster" /\ openings = n /\ n \in calls ~> dialog # "cluster" \/ shownCall = n

(* Once every call of the dialog has been answered, the open dialog shows *)
(* the answer of the call its latest opening made.  The calls of earlier  *)
(* openings are not cancelled and their setClusterInfo is not guarded: a  *)
(* slow answer (or a rejection that shows zeros) landing last wins.       *)
ClusterShowsLatest ==
    dialog = "cluster" /\ calls = {} /\ shownCall # 0 => shownCall = openings
=============================================================================
