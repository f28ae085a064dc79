----------------------------- MODULE AuthSession -----------------------------
(***************************************************************************)
(* What sign-in promises, without its API calls: the browser tab either    *)
(* has no session or the session of an admin; a sign-in is started from   *)
(* no session, is in progress for a while, and ends either in the session *)
(* of some admin or in none.  Signing out ends a session; a reload drops   *)
(* a sign-in in progress and keeps the session.  Every sign-in ends.       *)
(***************************************************************************)
CONSTANTS
    Admins,   \* the users allowed a session
    NoUser

VARIABLES
    session,  \* the user of the session, or NoUser
    busy      \* a sign-in is in progress

Init == session \in {NoUser} \cup Admins /\ busy = FALSE

Begin == session = NoUser /\ ~busy /\ busy' = TRUE /\ UNCHANGED session

End == busy /\ busy' = FALSE /\ session' \in {NoUser} \cup Admins

SignOut == session # NoUser /\ session' = NoUser /\ UNCHANGED busy

Restart == busy' = FALSE /\ UNCHANGED session

Next == Begin \/ End \/ SignOut \/ Restart

Spec == Init /\ [][Next]_<<session, busy>> /\ WF_<<session, busy>>(End)
=============================================================================
