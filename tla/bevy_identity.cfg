\* A closure replaces the component of a managed clock by that of another.
SPECIFICATION Spec
CONSTANTS
  ClockTypes = {turn}
  AskedTypes = {turn}
  Instances = {i1, i2}
  Values = {0, 1}
  SchemaValues = {0, 1}
  CodecValues = {0, 1}
  ValidValues = {0, 1}
  Steps = {1}
  SchemaSteps = {1}
  CodecSteps = {1}
  Entries = {}
  AskedEntries = {}
  Declared = {}
  Systems <- NoSystems
  TriggerOf <- NoTriggers
  Before <- NoOrder
  After <- NoOrder
  NativeEffects = {"replace"}
  NoKey = NoKey
  NoTrigger = NoTrigger
  MaxEntities = 2
  MaxTargets = 2
  MaxOutputs = 0
  MaxInspect = 1
SYMMETRY InstanceSymmetry
PROPERTIES IdentityPreserved
