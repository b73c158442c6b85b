SPECIFICATION Spec
CONSTANTS
  Nil = Nil
  Json <- MCJson
  Atoms <- MCAtoms
  ReasoningIds = {"r"}
  Metas <- MCMetas
  Tools <- NoTools
  WireIds <- NoIds
  Items <- NotedItems
  MaxItems = 2
  SchemaObjects = {}
  KeepsSignatures = FALSE
CHECK_DEADLOCK FALSE
INVARIANTS
  StreamedEqualsWhole
