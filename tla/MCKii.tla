------------------------------- MODULE MCKii --------------------------------
(***************************************************************************)
(* The functions the runs of KiiRequest call, and the updaters.            *)
(***************************************************************************)
EXTENDS KiiUsers

EveryApi == DOMAIN AllCalls \ {"_onboard"}
UploadAndCall == {"kii_upload_object_body", "kii_api_call", "kii_auth_thing"}

Everyone == {"app", "updater"}
App == {"app"}
UpToThree == 0..3
One == {1}
Two == {2}
Durations == {0, 2}
Updater == {"updater"}
=============================================================================
