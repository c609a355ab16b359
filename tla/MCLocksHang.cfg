CONSTANT ITunes = FALSE
SPECIFICATION FairSpec
CHECK_DEADLOCK FALSE
PROPERTY StopReturns
