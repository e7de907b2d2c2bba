SPECIFICATION Spec
CONSTANTS
  Node = {1, 2}
  Template = {"old", "new", "newer"}
  ImageOf <- MCImageOf
  PrePullImage = TRUE
  WorkerCount = 1
  Absent = Absent
  Limit <- LimitRedeploy
INVARIANTS
  PrePulledEverywhere
