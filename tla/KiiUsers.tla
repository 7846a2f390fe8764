----------------------------- MODULE KiiUsers -----------------------------
(***************************************************************************)
(* What a kii_t is used by: an application that calls the functions of     *)
(* kii.h, or the task of tio_updater.  Each has a kii_t of its own.        *)
(* (tio_handler, the third, is in TioHandler: the requests it abandons     *)
(* leave headers behind, which the properties below do not allow.)         *)
(***************************************************************************)
EXTENDS TioUpdater

CONSTANT Users  \* the users to look at

ASSUME UsersAssumption == Users \subseteq {"app", "updater"}

VARIABLE user

userVars == <<user, vars, updater>>

UsersInit == user \in Users /\ Init /\ UpdaterInit

AppStep     == user = "app" /\ Next /\ UNCHANGED updater
UpdaterStep == user = "updater" /\ UpdaterNext

UsersNext == (AppStep \/ UpdaterStep) /\ UNCHANGED user

UsersSpec == UsersInit /\ [][UsersNext]_userVars

(* The task goes on as long as its callbacks return.                       *)
UsersFairSpec ==
    UsersSpec /\ WF_userVars(user = "updater" /\ UpdaterTask /\ UNCHANGED user)
===========================================================================
