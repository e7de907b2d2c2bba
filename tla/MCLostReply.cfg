SPECIFICATION FairSpec
CONSTANTS
  n1 = n1
  n2 = n2
  MirrorKey = MirrorKey
  Absent = Absent
  AdminBlock <- MCAdminBlock
  Malformed <- MCMalformed
  Oversized <- MCOversized
  Fragment <- MCFragment
  NamespaceOf <- MCNamespaceOf
  Namespace = "ckic"
  WorkerCount = 2
  ContainerID = {1, 2, 3, 4}
  Node = {n1}
  Keys = {"k1"}
  OriginKey = {"k1"}
  Bases = {"a", "b"}
  BaseText = {"a", "b"}
  Base <- MCBase
  Fragments = {}
  FragmentText = {}
  Source = {}
  ExternalAllowNamespaces = {}
  ExternalDenyNamespaces = {}
  ConfigResync = FALSE
  Limit <- LimitLost
PROPERTIES
  EventuallyInSync
