CONSTANTS
  Job = {"autocommit", "content"}
  Play <- MCPlay
  Gate <- MCGate
  Script <- MCScript
  Timeout <- MCTimeout
  CheckMode = {"dry"}
  OtherUser = {"user"}
  InitialDelay = 1
  Interval = 3
  Latency = 2
  PromptLimit = 1
  CommitLimit = 2
  Retries = 1
  RetryDelay = 1
  Reboots = 1
  Admin = {"commit", "revert", "edit"}
SPECIFICATION FairSpec
INVARIANTS TypeOK InTime ReadyMeansDone
PROPERTIES GivesUpLate OkMeansSet PlayEndsAtLast
CHECK_DEADLOCK FALSE
