\* Two instances of one clock type under every clock operation by both APIs, and
\* four partly ordered systems of one entry beside one entry without systems, with
\* every native effect and every unwind; entries are executed before a clock exists.
SPECIFICATION Spec
CONSTANTS
  ClockTypes = {turn}
  AskedTypes = {turn, ghost}
  Instances = {i1, i2}
  Values <- MCValues
  SchemaValues <- MCSchemaValues
  CodecValues <- MCCodecValues
  ValidValues <- MCValidValues
  Steps <- MCSteps
  SchemaSteps <- MCSchemaSteps
  CodecSteps <- MCCodecSteps
  Entries = {"look", "wait"}
  AskedEntries = {"look", "wait", "jump"}
  Declared = {"look"}
  Systems <- FiveSystems
  TriggerOf <- FiveTriggers
  Before <- FiveBefore
  After <- FiveAfter
  NativeEffects = {"value", "despawn", "replace", "resources"}
  NoKey = NoKey
  NoTrigger = NoTrigger
  MaxEntities = 2
  MaxTargets = 2
  MaxOutputs = 2
  MaxInspect = 1
SYMMETRY InstanceSymmetry
CONSTRAINT ClocksOrEntries
INVARIANTS TypeOK ScheduleScope
PROPERTIES BenignLeavesNoTrace BatchIsAllOrNothing NoWayBack RefinesContract VerdictIgnoresArrivalOrder
