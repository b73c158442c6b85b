SPECIFICATION Spec
CONSTANTS
  Nil = Nil
  Json <- MCJson
  Atoms <- MCAtoms
  ReasoningIds = {"r"}
  Metas <- MCMetas
  Tools <- TwoTools
  WireIds <- MCWireIds
  Items <- ParallelItems
  MaxItems = 5
  SchemaObjects = {}
  KeepsSignatures = FALSE
CHECK_DEADLOCK FALSE
INVARIANTS
  MetadataFollowsItsCall
