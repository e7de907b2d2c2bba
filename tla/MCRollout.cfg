SPECIFICATION Spec
CONSTANTS
  Node = {1, 2}
  Template = {"old", "new", "variant"}
  ImageOf <- MCImageOf
  PrePullImage = TRUE
  WorkerCount = 2
  Absent = Absent
  Limit <- LimitNodes
INVARIANTS
  OneAtATime
