SPECIFICATION FairSpec
CONSTANTS
  PodName = {1, 2, 3}
  Template = {"pod", "broken"}
  UseHostNetwork <- MCUseHostNetwork
  Stuck = {"broken"}
  Config = {"a", "b"}
  LastSecond = 1
  Absent = Absent
  Limit = 1
PROPERTIES
  ServingInSync
CHECK_DEADLOCK FALSE
