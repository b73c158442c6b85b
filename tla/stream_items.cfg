SPECIFICATION FairSpec
CONSTANTS
  Nil = Nil
  Json <- MCJson
  Atoms <- MCAtoms
  ReasoningIds = {"r"}
  Metas <- MCMetas
  Tools <- TwoTools
  WireIds <- MCWireIds
  Items <- AllItems
  MaxItems = 5
  SchemaObjects = {"xy"}
  KeepsSignatures = TRUE
CHECK_DEADLOCK FALSE
CONSTRAINT OneSubject
INVARIANTS
  StreamedEqualsWhole
  TypeOK
  UniqueIds
  IndexesPartitioned
  NothingLost
  RecordMatchesOutcome
  MetadataRestoredInTurn
PROPERTIES
  RefinesContract
  EveryStreamEnds
