\* Every function of kii.h, in any order, failing at any step; or the updater.
CONSTANTS
  Apis <- EveryApi
  Things = {"t1", "t2"}
  GivesUp = FALSE
  UploadTypeFails = FALSE
  MaxHeaders = 2
  Intervals <- UpToThree
  UploadTimes <- Durations
  Users <- Everyone
SPECIFICATION UsersFairSpec
INVARIANTS
  KiiTypeOK
  RequestOwn
  HeadersReachable
  CallbacksRestored
  AuthorWhole
  UploadsPaced
PROPERTIES
  UploadsGoOn
  UpdaterStops
CHECK_DEADLOCK FALSE
