SPECIFICATION FairSpec
CONSTANTS
  Node = {1, 2}
  Template = {"old", "new"}
  ImageOf <- MCImageOf
  PrePullImage = TRUE
  WorkerCount = 2
  Absent = Absent
  Limit <- LimitLive
PROPERTIES
  RolloutCompletes
  
