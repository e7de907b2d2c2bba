SPECIFICATION FairSpec
CONSTANTS
  Process = {1, 2}
  Template = {"old", "new"}
  OptionsOf <- MCOptionsOf
  UID = {1, 2, 3, 4}
  Absent = Absent
  Limit = 2

  
PROPERTIES
  ObjectsConverge
  ReplacementPreserved
