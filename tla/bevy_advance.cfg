\* Two instances of one clock type and a chain of three response
\* systems, ordered from both ends, that despawn clocks; a clock can be inserted again
\* after its removal, and inspections nest.  The application and the executor are fair.
SPECIFICATION FairSpec
CONSTANTS
  ClockTypes = {"turn"}
  AskedTypes = {"turn"}
  Instances = {i1, i2}
  Values = {0, 1}
  SchemaValues = {0, 1}
  CodecValues = {0, 1}
  ValidValues = {0, 1}
  Steps = {1}
  SchemaSteps = {1}
  CodecSteps = {1}
  Entries = {}
  AskedEntries = {}
  Declared = {}
  Systems <- ThreeSystems
  TriggerOf <- ThreeTriggers
  Before <- ThreeBefore
  After <- ThreeAfter
  NativeEffects = {"despawn"}
  NoKey = NoKey
  NoTrigger = NoTrigger
  MaxEntities = 3
  MaxTargets = 2
  MaxOutputs = 0
  MaxInspect = 2
INVARIANTS IndexSound DeclaredOrderHolds
PROPERTIES InspectionsReadOneWorld EveryCallReturns
