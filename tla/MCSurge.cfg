SPECIFICATION FairSpec
CONSTANTS
  PodName = {1, 2, 3}
  Template = {"pod", "host"}
  UseHostNetwork <- MCUseHostNetwork
  Stuck = {}
  Config = {"a", "b"}
  LastSecond = 1
  Absent = Absent
  Limit = 1
INVARIANTS
  SelectsNewest
  QuiescentMeansNewestPushed
PROPERTIES
  SurgeEndsInSync
CHECK_DEADLOCK FALSE
