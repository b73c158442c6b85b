\* Up to three modules with registrar calls in any order, conflicts, failures
\* and panics, every order of three systems across modules, and every way to be
\* turned away at activation.  An activated or discarded builder stops.
SPECIFICATION Spec
CONSTANTS
  Descriptors <- AllDescriptors
  NoDescriptor = NoDescriptor
  ModuleIds <- MCModuleIds
  Versions <- MCVersions
  Capabilities <- MCCapabilities
  Supported <- MCSupported
  Entries <- MCEntries
  ClockTypes <- MCClockTypes
  SystemIds = {1, 2, 3, 4}
  RustTypes = {"A", "B"}
  Propagates = TRUE
  MaxModules = 3
CHECK_DEADLOCK FALSE
INVARIANTS TypeOK ModulesDisjoint DeclarationsBound ActivatedGraphRuns CycleReportExact ActivationIgnoresOrder
