SPECIFICATION Spec
CONSTANTS
  n1 = n1
  n2 = n2
  MirrorKey = MirrorKey
  Absent = Absent
  AdminBlock <- MCAdminBlock
  Malformed <- MCMalformed
  Oversized <- MCOversized
  Fragment <- MCFragment
  NamespaceOf <- MCNamespaceOf
  Namespace = "ckic"
  WorkerCount = 2
  ContainerID = {1, 2, 3, 4}
  Node = {n1, n2}
  Keys = {"k1"}
  OriginKey = {"k1"}
  Bases = {"a"}
  BaseText = {"a"}
  Base <- MCRawBase
  Fragments = {"x", "broken", "huge", ""}
  FragmentText = {"x", "broken", "huge"}
  Source = {"shop", "evil"}
  ExternalAllowNamespaces = {"shop", "evil"}
  ExternalDenyNamespaces = {"evil"}
  ConfigResync = FALSE
  Limit <- LimitFleet
SYMMETRY NodeSymmetry
INVARIANTS
  SnapshotComplete
PROPERTIES
  AcceptedNeverRegresses
