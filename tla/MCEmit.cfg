SPECIFICATION MCSpec
CONSTANTS
  WireNames <- MCWireNames
  BaseNames <- MCBaseNames
  MaxMembers = 3
  Tags <- MCTags
  Ops = {o1, o2, o3}
INVARIANTS
  FieldsSound
  ArmsRight
  CallsAgree
  FilesWhole
\* Every part ends when its file, value, call or model is done.
CHECK_DEADLOCK FALSE
