\* The Content-Type of an object body can fail to be set.
CONSTANTS
  Apis <- UploadAndCall
  Things = {"t1"}
  GivesUp = FALSE
  UploadTypeFails = TRUE
  MaxHeaders = 1
  Intervals <- One
  UploadTimes <- Durations
  Users <- App
SPECIFICATION UsersSpec
INVARIANTS
  AuthOnlyAsked
