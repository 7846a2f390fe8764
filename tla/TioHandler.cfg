\* Two messages, the second after whatever became of the first.
CONSTANTS
  Apis <- NoApis
  Things = {"t1"}
  GivesUp = FALSE
  UploadTypeFails = FALSE
  MaxHeaders = 0
  Commands <- Pushed
  MaxPushes = 2
SPECIFICATION HandlerSpec
INVARIANTS
  ActionsInOrder
  ResultsFaithful
  FailuresTold
CHECK_DEADLOCK FALSE
